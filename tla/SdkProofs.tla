----------------------------- MODULE SdkProofs ------------------------------
(***************************************************************************)
(* Proofs about an SDK call, at the client that makes it (SdkClient) and   *)
(* in the log the hub keeps of it (RequestLog): for any number of sockets, *)
(* calls and log writes, in any order.                                     *)
(***************************************************************************)
EXTENDS SdkClient, RequestLog, SequenceTheorems, TLAPS

-----------------------------------------------------------------------------
(***************************************************************************)
(* Queues.                                                                 *)
(***************************************************************************)

\* The elements of a queue with one more at its end.
LEMMA AppendElements ==
  ASSUME NEW S, NEW q \in Seq(S), NEW m \in S
  PROVE  /\ Append(q, m) \in Seq(S)
         /\ \A i \in DOMAIN Append(q, m) :
              \/ i \in DOMAIN q /\ Append(q, m)[i] = q[i]
              \/ i = Len(q) + 1 /\ Append(q, m)[i] = m
<1>1. /\ Append(q, m) \in Seq(S)
      /\ Len(Append(q, m)) = Len(q) + 1
      /\ \A i \in 1..Len(q) : Append(q, m)[i] = q[i]
      /\ Append(q, m)[Len(q) + 1] = m
  BY AppendProperties
<1>2. Len(q) \in Nat /\ DOMAIN q = 1..Len(q) /\ DOMAIN Append(q, m) = 1..(Len(q) + 1)
  BY <1>1, LenProperties
<1> QED BY <1>1, <1>2

\* The elements of a queue without its first, each one place further on.
LEMMA TailElements ==
  ASSUME NEW S, NEW q \in Seq(S), q # << >>
  PROVE  /\ Tail(q) \in Seq(S) /\ Head(q) \in S
         /\ 1 \in DOMAIN q /\ Head(q) = q[1]
         /\ \A i \in DOMAIN Tail(q) :
              i \in Nat \ {0} /\ i + 1 \in DOMAIN q /\ Tail(q)[i] = q[i + 1]
<1>1. /\ Head(q) \in S /\ Tail(q) \in Seq(S) /\ Len(Tail(q)) = Len(q) - 1
      /\ \A i \in 1..Len(Tail(q)) : Tail(q)[i] = q[i + 1]
  BY HeadTailProperties
<1>2. Len(q) \in Nat /\ DOMAIN q = 1..Len(q) /\ DOMAIN Tail(q) = 1..(Len(q) - 1)
  BY <1>1, LenProperties
<1>3. Len(q) # 0
  BY <1>2, EmptySeq
<1> QED BY <1>1, <1>2, <1>3

\* An element of a queue of messages is a message.
LEMMA QueueElements ==
  ASSUME NEW S, NEW q \in Seq(S), NEW i \in DOMAIN q
  PROVE  i \in Nat \ {0} /\ q[i] \in S
BY ElementOfSeq, LenProperties

-----------------------------------------------------------------------------
(***************************************************************************)
(* The inductive invariant of the client.                                  *)
(***************************************************************************)

\* A call that has not been handed to the hub and is not over.
Early == {"idle", "discovering", "local"}

HubMessage == {RegisterMsg} \cup {RequestMsg(c) : c \in Calls}
SdkMessage ==
  {Registered} \cup {Response(c) : c \in Calls} \cup {buildSdkError(c) : c \in Calls \cup {NoCall}}

SdkType ==
  /\ sock \in [Sockets -> {"unused", "connecting", "open", "closing", "closed"}]
  /\ sdkWs \in Sockets \cup {NoSocket}
  /\ toHub \in [Sockets -> Seq(HubMessage)]
  /\ toSdk \in [Sockets -> Seq(SdkMessage)]
  /\ sdkPending \subseteq Calls
  /\ call \in [Calls -> Early \cup {"waiting"} \cup Settled]
  /\ ran \in [Calls -> Nat]
  /\ hubAuth \subseteq Sockets \X HubMessage
  /\ hubCalls \in [Calls -> Sockets \cup {NoSocket}]

\* Where the request of a call can be: on its way to the hub, waiting for the
\* key service, waiting for the agent.
Queued(c, s, i) == i \in DOMAIN toHub[s] /\ toHub[s][i] = RequestMsg(c)
InAuth(c, s) == <<s, RequestMsg(c)>> \in hubAuth
OnItsWay(c) ==
  \/ hubCalls[c] # NoSocket
  \/ \E s \in Sockets : InAuth(c, s) \/ \E i \in Nat : Queued(c, s, i)

\* It is in one of these places, once: TunnelClient.request sends it once, and
\* no step of the hub copies it.
OneCopy(c) ==
  \A s, z \in Sockets :
    /\ \A i, k \in Nat : Queued(c, s, i) /\ Queued(c, z, k) => s = z /\ i = k
    /\ InAuth(c, s) /\ InAuth(c, z) => s = z
    /\ \A i \in Nat : Queued(c, s, i) => ~InAuth(c, z) /\ hubCalls[c] = NoSocket
    /\ InAuth(c, s) => hubCalls[c] = NoSocket

\* How often a backend may have run the call by now.
RunsLeft(c) ==
  /\ call[c] \in Early => ran[c] = 0 /\ ~OnItsWay(c)
  /\ OnItsWay(c) => ran[c] =< 1
  /\ ran[c] =< 2

CopiesInv == \A c \in Calls : OneCopy(c) /\ RunsLeft(c)

\* A response, delivered or under way, was earned.
Earned ==
  /\ \A c \in Calls : call[c] = "ok" => ran[c] > 0
  /\ \A s \in Sockets : \A i \in DOMAIN toSdk[s] :
       toSdk[s][i].t = "response" => ran[toSdk[s][i].c] > 0

SdkInv == SdkType /\ WaitingHasTimer /\ CopiesInv /\ Earned

-----------------------------------------------------------------------------
(***************************************************************************)
(* Types.                                                                  *)
(***************************************************************************)

\* The messages, apart by their kind.
LEMMA Messages ==
  /\ RegisterMsg \in HubMessage /\ \A c \in Calls : RequestMsg(c) \in HubMessage
  /\ Registered \in SdkMessage
  /\ \A c \in Calls : Response(c) \in SdkMessage
  /\ \A c \in Calls \cup {NoCall} : buildSdkError(c) \in SdkMessage
  /\ \A c, d \in Calls : RequestMsg(c) = RequestMsg(d) => c = d
  /\ \A c \in Calls : RequestMsg(c) # RegisterMsg
  /\ \A m \in SdkMessage : m.t = "response" => \E c \in Calls : m = Response(c)
<1>1. \A c, d \in Calls : RequestMsg(c) = RequestMsg(d) => c = d
  <2> TAKE c, d \in Calls
  <2>1. RequestMsg(c).c = c /\ RequestMsg(d).c = d
    BY DEF RequestMsg
  <2> QED BY <2>1
<1>2. \A c \in Calls : RequestMsg(c) # RegisterMsg
  <2> TAKE c \in Calls
  <2>1. RequestMsg(c).t = "request" /\ RegisterMsg.t = "register"
    BY DEF RequestMsg, RegisterMsg
  <2> QED BY <2>1
<1>3. \A m \in SdkMessage : m.t = "response" => \E c \in Calls : m = Response(c)
  <2> SUFFICES ASSUME NEW m \in SdkMessage, m.t = "response"
               PROVE  \E c \in Calls : m = Response(c)
    OBVIOUS
  <2>1. Registered.t = "registered" /\ \A c : buildSdkError(c).t = "error"
    BY DEF Registered, buildSdkError
  <2> QED BY <2>1 DEF SdkMessage
<1>4. /\ RegisterMsg \in HubMessage /\ \A c \in Calls : RequestMsg(c) \in HubMessage
      /\ Registered \in SdkMessage
      /\ \A c \in Calls : Response(c) \in SdkMessage
      /\ \A c \in Calls \cup {NoCall} : buildSdkError(c) \in SdkMessage
  BY DEF HubMessage, SdkMessage
<1> QED BY <1>1, <1>2, <1>3, <1>4

\* sendToWs adds at most one message, on the socket named.
LEMMA SendToWs ==
  ASSUME SdkType, NEW s \in Sockets, NEW m \in SdkMessage
  PROVE  /\ sendToWs(s, m) \in [Sockets -> Seq(SdkMessage)]
         /\ \A z \in Sockets : \A i \in DOMAIN sendToWs(s, m)[z] :
              \/ i \in DOMAIN toSdk[z] /\ sendToWs(s, m)[z][i] = toSdk[z][i]
              \/ sendToWs(s, m)[z][i] = m
<1>1. toSdk \in [Sockets -> Seq(SdkMessage)]
  BY DEF SdkType
<1>2. CASE sendToWs(s, m) = toSdk
  BY <1>1, <1>2
<1>3. CASE sendToWs(s, m) = [toSdk EXCEPT ![s] = Append(@, m)]
  <2>1. Append(toSdk[s], m) \in Seq(SdkMessage)
    BY <1>1, AppendElements
  <2>2. sendToWs(s, m) \in [Sockets -> Seq(SdkMessage)]
    BY <1>1, <1>3, <2>1
  <2>3. ASSUME NEW z \in Sockets, NEW i \in DOMAIN sendToWs(s, m)[z]
        PROVE  \/ i \in DOMAIN toSdk[z] /\ sendToWs(s, m)[z][i] = toSdk[z][i]
               \/ sendToWs(s, m)[z][i] = m
    <3>1. CASE z = s
      BY <1>1, <1>3, <2>3, <3>1, AppendElements
    <3>2. CASE z # s
      BY <1>1, <1>3, <2>3, <3>2
    <3> QED BY <3>1, <3>2
  <2> QED BY <2>2, <2>3
<1> QED BY <1>2, <1>3 DEF sendToWs

\* sendsToHub adds at most the call's request.
LEMMA SendsToHub ==
  ASSUME SdkType, NEW c \in Calls, sendsToHub(c)
  PROVE  /\ toHub' \in [Sockets -> Seq(HubMessage)]
         /\ sdkPending' \subseteq Calls
         /\ call' = [call EXCEPT ![c] = call'[c]] /\ call'[c] \in {"waiting", "failed"}
         /\ call'[c] = "waiting" => c \in sdkPending'
         /\ sdkPending \subseteq sdkPending'
         /\ \/ toHub' = toHub
            \/ \E z \in Sockets : toHub' = [toHub EXCEPT ![z] = Append(@, RequestMsg(c))]
<1>1. toHub \in [Sockets -> Seq(HubMessage)] /\ sdkPending \subseteq Calls /\ call \in [Calls -> Early \cup {"waiting"} \cup Settled]
  BY DEF SdkType
<1>2. call' = [call EXCEPT ![c] = call'[c]] /\ call'[c] \in {"waiting", "failed"}
  BY <1>1 DEF sendsToHub
<1>3. (call'[c] = "waiting" => c \in sdkPending') /\ sdkPending \subseteq sdkPending' /\ sdkPending' \subseteq Calls
  BY <1>1 DEF sendsToHub
<1>4. \/ toHub' = toHub
      \/ \E z \in Sockets : toHub' = [toHub EXCEPT ![z] = Append(@, RequestMsg(c))]
  BY DEF sendsToHub, SdkType
<1>5. toHub' \in [Sockets -> Seq(HubMessage)]
  <2>1. CASE toHub' = toHub
    BY <1>1, <2>1
  <2>2. ASSUME NEW z \in Sockets, toHub' = [toHub EXCEPT ![z] = Append(@, RequestMsg(c))]
        PROVE  toHub' \in [Sockets -> Seq(HubMessage)]
    <3>1. Append(toHub[z], RequestMsg(c)) \in Seq(HubMessage)
      BY <1>1, AppendElements, Messages
    <3> QED BY <1>1, <2>2, <3>1
  <2> QED BY <1>4, <2>1, <2>2
<1> QED BY <1>2, <1>3, <1>4, <1>5

\* The steps of the sockets and of the calls keep the types.
LEMMA ClientKeepsType ==
  ASSUME SdkType, SocketSteps \/ CallSteps
  PROVE  SdkType'
<1>1. CASE connect
  BY <1>1 DEF connect, SdkType, Unsent, HubIdle, LocalIdle
<1>2. CASE onopen
  <2>1. <<RegisterMsg>> \in Seq(HubMessage)
    BY Messages
  <2> QED BY <1>2, <2>1 DEF onopen, SdkType, HubIdle, LocalIdle
<1>3. CASE onerror
  BY <1>3 DEF onerror, SdkType, Unsent, HubIdle, LocalIdle
<1>4. CASE LinkDrops
  <2>1. << >> \in Seq(HubMessage) /\ << >> \in Seq(SdkMessage)
    BY EmptySeq
  <2> QED BY <1>4, <2>1 DEF LinkDrops, SdkType, HubIdle, LocalIdle
<1>5. CASE onclose
  BY <1>5 DEF onclose, rejectAll, Settled, SdkType, Unsent, HubIdle, LocalIdle
<1>6. CASE disconnect
  BY <1>6 DEF disconnect, SdkType, Unsent, HubIdle, LocalIdle
<1>7. CASE startCall
  BY <1>7 DEF startCall, Early, SdkType, Unsent, HubIdle, LocalIdle
<1>8. CASE DiscoverStep
  <2> PICK c \in Calls : call[c] = "discovering" /\ discover(c)
    BY <1>8 DEF DiscoverStep
  <2>1. UNCHANGED <<sock, sdkWs, toSdk, ran, hubAuth, hubCalls>>
    BY <1>8 DEF DiscoverStep, HubIdle
  <2>2. CASE call' = [call EXCEPT ![c] = "local"] /\ UNCHANGED <<sdkPending, toHub>>
    BY <2>1, <2>2 DEF SdkType, Early
  <2>3. CASE sendsToHub(c)
    BY <2>1, <2>3, SendsToHub DEF SdkType, Settled
  <2> QED BY <2>2, <2>3 DEF discover
<1>9. CASE LocalAnswers
  BY <1>9 DEF LocalAnswers, Settled, SdkType, Unsent, HubIdle
<1>10. CASE LocalFails
  <2> PICK c \in Calls, executed \in {0, 1} :
        ran' = [ran EXCEPT ![c] = @ + executed] /\ sendsToHub(c)
    BY <1>10 DEF LocalFails
  <2>1. UNCHANGED <<sock, sdkWs, toSdk, hubAuth, hubCalls>>
    BY <1>10 DEF LocalFails, HubIdle
  <2>2. ran' \in [Calls -> Nat]
    BY DEF SdkType
  <2> QED BY <2>1, <2>2, SendsToHub DEF SdkType, Settled
<1>11. CASE CacheExpires \/ DiscoveryServer
  BY <1>11 DEF CacheExpires, DiscoveryServer, SdkType, Unsent, HubIdle
<1>12. CASE onmessage
  <2> PICK s \in Sockets :
        /\ toSdk[s] # << >> /\ toSdk' = [toSdk EXCEPT ![s] = Tail(@)]
        /\ \/ UNCHANGED <<sdkPending, call>>
           \/ onMessage(Head(toSdk[s]))
    BY <1>12 DEF onmessage
  <2>1. toSdk' \in [Sockets -> Seq(SdkMessage)]
    BY TailElements DEF SdkType
  <2>2. UNCHANGED <<sock, sdkWs, toHub, ran, hubAuth, hubCalls>>
    BY <1>12 DEF onmessage, HubIdle, LocalIdle
  <2>3. sdkPending' \subseteq Calls /\ call' \in [Calls -> Early \cup {"waiting"} \cup Settled]
    BY DEF onMessage, outcomeOf, Settled, SdkType
  <2> QED BY <2>1, <2>2, <2>3 DEF SdkType
<1>13. ASSUME NEW c \in Calls, TimeoutFires(c) PROVE SdkType'
  BY <1>13 DEF TimeoutFires, Settled, SdkType, Unsent, HubIdle, LocalIdle
<1> QED
  BY <1>1, <1>2, <1>3, <1>4, <1>5, <1>6, <1>7, <1>8, <1>9, <1>10, <1>11, <1>12, <1>13
  DEF SocketSteps, CallSteps

\* The steps of the hub leave the client alone.
LEMMA HubFrame ==
  ASSUME HubSteps
  PROVE  UNCHANGED <<sdkWs, sdkPending, call>>
BY DEF HubSteps, routeSdkMessage, handleSdkRegister, RequestRefused, RequestThrows,
       handleSdkRequest, AgentResponds, AgentFails, onSdkClose, ClientIdle

\* They keep the types.
LEMMA HubKeepsType ==
  ASSUME SdkType, HubSteps
  PROVE  SdkType'
<1> USE DEF ClientIdle, LocalIdle, Unsent
<1>1. CASE routeSdkMessage
  <2> PICK s \in Sockets :
        /\ toHub[s] # << >>
        /\ hubAuth' = hubAuth \cup {<<s, Head(toHub[s])>>}
        /\ toHub' = [toHub EXCEPT ![s] = Tail(@)]
    BY <1>1 DEF routeSdkMessage
  <2>1. Head(toHub[s]) \in HubMessage /\ Tail(toHub[s]) \in Seq(HubMessage)
    BY TailElements DEF SdkType
  <2> QED BY <1>1, <2>1 DEF routeSdkMessage, SdkType
<1>2. CASE handleSdkRegister
  <2> PICK s \in Sockets, valid \in BOOLEAN :
        /\ hubAuth' = hubAuth \ {<<s, RegisterMsg>>}
        /\ authenticateSdkRegister(s, valid)
    BY <1>2 DEF handleSdkRegister
  <2>1. toSdk' \in [Sockets -> Seq(SdkMessage)]
    BY SendToWs, Messages DEF authenticateSdkRegister
  <2>2. sock' \in [Sockets -> {"unused", "connecting", "open", "closing", "closed"}]
    BY DEF authenticateSdkRegister, SdkType
  <2> QED BY <1>2, <2>1, <2>2 DEF handleSdkRegister, SdkType
<1>3. CASE RequestRefused
  <2> PICK s \in Sockets, c \in Calls : toSdk' = sendToWs(s, buildSdkError(c))
    BY <1>3 DEF RequestRefused
  <2>1. toSdk' \in [Sockets -> Seq(SdkMessage)]
    BY SendToWs, Messages
  <2> QED BY <1>3, <2>1 DEF RequestRefused, SdkType
<1>4. CASE RequestThrows
  <2> PICK s \in Sockets, c \in Calls : toSdk' = sendToWs(s, buildSdkError(NoCall))
    BY <1>4 DEF RequestThrows
  <2>1. toSdk' \in [Sockets -> Seq(SdkMessage)]
    BY SendToWs, Messages
  <2> QED BY <1>4, <2>1 DEF RequestThrows, SdkType
<1>5. CASE handleSdkRequest
  BY <1>5 DEF handleSdkRequest, SdkType
<1>6. CASE AgentResponds
  <2> PICK c \in Calls :
        /\ hubCalls[c] # NoSocket
        /\ ran' = [ran EXCEPT ![c] = @ + 1]
        /\ toSdk' = sendToWs(hubCalls[c], Response(c))
        /\ hubCalls' = [hubCalls EXCEPT ![c] = NoSocket]
    BY <1>6 DEF AgentResponds
  <2>1. toSdk' \in [Sockets -> Seq(SdkMessage)]
    <3>1. hubCalls[c] \in Sockets
      BY DEF SdkType
    <3> QED BY <3>1, SendToWs, Messages
  <2> QED BY <1>6, <2>1 DEF AgentResponds, SdkType
<1>7. CASE AgentFails
  <2> PICK c \in Calls, executed \in {0, 1} :
        /\ hubCalls[c] # NoSocket
        /\ ran' = [ran EXCEPT ![c] = @ + executed]
        /\ toSdk' = sendToWs(hubCalls[c], buildSdkError(c))
        /\ hubCalls' = [hubCalls EXCEPT ![c] = NoSocket]
    BY <1>7 DEF AgentFails
  <2>1. toSdk' \in [Sockets -> Seq(SdkMessage)]
    <3>1. hubCalls[c] \in Sockets
      BY DEF SdkType
    <3> QED BY <3>1, SendToWs, Messages
  <2> QED BY <1>7, <2>1 DEF AgentFails, SdkType
<1>8. CASE onSdkClose
  BY <1>8 DEF onSdkClose, SdkType
<1> QED BY <1>1, <1>2, <1>3, <1>4, <1>5, <1>6, <1>7, <1>8 DEF HubSteps

-----------------------------------------------------------------------------
(***************************************************************************)
(* What becomes of a call.                                                 *)
(***************************************************************************)

\* A step moves calls forward: an early one to the next stage, to the hub or
\* to its end; one that waits, to its end; and those that wait afterwards have
\* their entry in pending.
CallsMove ==
  \A c \in Calls :
    /\ call'[c] \in Early => call[c] \in Early
    /\ call'[c] = "waiting" => c \in sdkPending'
    /\ call[c] \in Settled => call'[c] = call[c]
    /\ call[c] = "waiting" => call'[c] \in {"waiting"} \cup Settled

LEMMA StepMovesCalls ==
  ASSUME SdkType, WaitingHasTimer, SdkNext
  PROVE  CallsMove
<1> USE DEF CallsMove, SdkType, WaitingHasTimer, Early, Settled
<1>1. CASE UNCHANGED <<sdkPending, call>>
  BY <1>1
<1>2. CASE HubSteps
  BY <1>1, <1>2, HubFrame
<1>3. CASE SocketSteps /\ ~onclose
  BY <1>1, <1>3 DEF SocketSteps, connect, onopen, onerror, LinkDrops, disconnect
<1>4. CASE onclose
  BY <1>4 DEF onclose, rejectAll
<1>5. CASE startCall
  BY <1>5 DEF startCall
<1>6. CASE DiscoverStep
  <2> PICK c \in Calls : call[c] = "discovering" /\ discover(c)
    BY <1>6 DEF DiscoverStep
  <2>1. CASE call' = [call EXCEPT ![c] = "local"] /\ UNCHANGED <<sdkPending, toHub>>
    BY <2>1
  <2>2. CASE sendsToHub(c)
    BY <2>2, SendsToHub
  <2> QED BY <2>1, <2>2 DEF discover
<1>7. CASE LocalAnswers
  BY <1>7 DEF LocalAnswers
<1>8. CASE LocalFails
  <2> PICK c \in Calls : call[c] = "local" /\ sendsToHub(c)
    BY <1>8 DEF LocalFails
  <2> QED BY SendsToHub
<1>9. CASE CacheExpires \/ DiscoveryServer
  BY <1>1, <1>9 DEF CacheExpires, DiscoveryServer
<1>10. CASE onmessage
  <2> PICK s \in Sockets : UNCHANGED <<sdkPending, call>> \/ onMessage(Head(toSdk[s]))
    BY <1>10 DEF onmessage
  <2>1. CASE onMessage(Head(toSdk[s]))
    BY <2>1 DEF onMessage, outcomeOf
  <2> QED BY <1>1, <2>1
<1>11. ASSUME NEW c \in Calls, TimeoutFires(c) PROVE CallsMove
  BY <1>11 DEF TimeoutFires
<1> QED
  BY <1>2, <1>3, <1>4, <1>5, <1>6, <1>7, <1>8, <1>9, <1>10, <1>11 DEF SdkNext, SocketSteps, CallSteps

\* Earned responses stay so while nothing new is delivered or sent that is not
\* earned, and runs are only added.
LEMMA EarnedGrows ==
  ASSUME SdkType, Earned, ran' \in [Calls -> Nat],
         \A c \in Calls : ran[c] =< ran'[c],
         \A c \in Calls : call'[c] = "ok" => call[c] = "ok" \/ ran'[c] > 0,
         \A s \in Sockets : \A i \in DOMAIN toSdk'[s] :
           \/ \E k \in DOMAIN toSdk[s] : toSdk'[s][i] = toSdk[s][k]
           \/ toSdk'[s][i].t # "response"
           \/ ran'[toSdk'[s][i].c] > 0
  PROVE  Earned'
<1>1. ASSUME NEW c \in Calls, call'[c] = "ok" PROVE ran'[c] > 0
  BY <1>1 DEF Earned, SdkType
<1>2. ASSUME NEW s \in Sockets, NEW i \in DOMAIN toSdk'[s], toSdk'[s][i].t = "response"
      PROVE  ran'[toSdk'[s][i].c] > 0
  <2>1. ASSUME NEW k \in DOMAIN toSdk[s], toSdk'[s][i] = toSdk[s][k]
        PROVE  ran'[toSdk'[s][i].c] > 0
    <3>1. toSdk[s][k] \in SdkMessage /\ toSdk[s][k].t = "response"
      BY <1>2, <2>1, QueueElements DEF SdkType
    <3>2. PICK c \in Calls : toSdk[s][k] = Response(c)
      BY <3>1, Messages
    <3>3. toSdk[s][k].c = c
      BY <3>2 DEF Response
    <3>4. ran[c] > 0
      BY <3>1, <3>3 DEF Earned
    <3> QED BY <2>1, <3>3, <3>4 DEF SdkType
  <2> QED BY <1>2, <2>1
<1> QED BY <1>1, <1>2 DEF Earned

\* After sendToWs, every message was there or is the one sent.
LEMMA SentOrThere ==
  ASSUME SdkType, NEW s \in Sockets, NEW m \in SdkMessage, toSdk' = sendToWs(s, m),
         NEW z \in Sockets, NEW i \in DOMAIN toSdk'[z]
  PROVE  (\E k \in DOMAIN toSdk[z] : toSdk'[z][i] = toSdk[z][k]) \/ toSdk'[z][i] = m
<1>1. i \in DOMAIN sendToWs(s, m)[z]
  OBVIOUS
<1>2. (i \in DOMAIN toSdk[z] /\ sendToWs(s, m)[z][i] = toSdk[z][i]) \/ sendToWs(s, m)[z][i] = m
  BY <1>1, SendToWs
<1> QED BY <1>2

LEMMA StepEarns ==
  ASSUME SdkType, Earned, SdkNext
  PROVE  Earned'
<1>0. SdkType'
  BY ClientKeepsType, HubKeepsType DEF SdkNext
<1>1. ran' \in [Calls -> Nat] /\ ran \in [Calls -> Nat] /\ call \in [Calls -> Early \cup {"waiting"} \cup Settled]
      /\ toSdk \in [Sockets -> Seq(SdkMessage)]
  BY <1>0 DEF SdkType
<1> USE <1>1 DEF HubIdle, LocalIdle, Unsent, ClientIdle
<1>2. CASE UNCHANGED <<ran, call, toSdk>>
  BY <1>2, EarnedGrows
<1>3. CASE SocketSteps /\ ~onclose /\ ~LinkDrops
  BY <1>2, <1>3 DEF SocketSteps, connect, onopen, onerror, disconnect
<1>4. CASE onclose
  <2>1. UNCHANGED <<ran, toSdk>>
    BY <1>4 DEF onclose
  <2>2. \A c \in Calls : call'[c] = "ok" => call[c] = "ok"
    BY <1>4 DEF onclose, rejectAll
  <2> QED BY <2>1, <2>2, EarnedGrows
<1>5. CASE LinkDrops
  <2>1. UNCHANGED <<ran, call>>
    BY <1>5 DEF LinkDrops
  <2>2. ASSUME NEW z \in Sockets, NEW i \in DOMAIN toSdk'[z]
        PROVE  i \in DOMAIN toSdk[z] /\ toSdk'[z][i] = toSdk[z][i]
    BY <1>5, <2>2 DEF LinkDrops
  <2>3. \A z \in Sockets : \A i \in DOMAIN toSdk'[z] :
           \E k \in DOMAIN toSdk[z] : toSdk'[z][i] = toSdk[z][k]
    BY <2>2
  <2> QED BY <2>1, <2>3, EarnedGrows
<1>6. CASE startCall
  <2>1. UNCHANGED <<ran, toSdk>> /\ \A c \in Calls : call'[c] = "ok" => call[c] = "ok"
    BY <1>6 DEF startCall
  <2> QED BY <2>1, EarnedGrows
<1>7. CASE DiscoverStep
  <2>1. UNCHANGED <<ran, toSdk>>
    BY <1>7 DEF DiscoverStep
  <2> PICK c \in Calls : discover(c)
    BY <1>7 DEF DiscoverStep
  <2>2. \A d \in Calls : call'[d] = "ok" => call[d] = "ok"
    BY SendsToHub DEF discover
  <2> QED BY <2>1, <2>2, EarnedGrows
<1>8. CASE LocalAnswers
  <2> PICK c \in Calls : ran' = [ran EXCEPT ![c] = @ + 1] /\ call' = [call EXCEPT ![c] = "ok"]
    BY <1>8 DEF LocalAnswers
  <2>1. UNCHANGED toSdk
    BY <1>8 DEF LocalAnswers
  <2>2. (\A d \in Calls : ran[d] =< ran'[d])
        /\ \A d \in Calls : call'[d] = "ok" => call[d] = "ok" \/ ran'[d] > 0
    OBVIOUS
  <2> QED BY <2>1, <2>2, EarnedGrows
<1>9. CASE LocalFails
  <2> PICK c \in Calls, executed \in {0, 1} :
        ran' = [ran EXCEPT ![c] = @ + executed] /\ sendsToHub(c)
    BY <1>9 DEF LocalFails
  <2>1. UNCHANGED toSdk
    BY <1>9 DEF LocalFails
  <2>2. \A d \in Calls : call'[d] = "ok" => call[d] = "ok"
    BY SendsToHub
  <2>3. \A d \in Calls : ran[d] =< ran'[d]
    OBVIOUS
  <2> QED BY <2>1, <2>2, <2>3, EarnedGrows
<1>10. CASE CacheExpires \/ DiscoveryServer
  BY <1>2, <1>10 DEF CacheExpires, DiscoveryServer
<1>11. CASE onmessage
  <2> PICK s \in Sockets :
        /\ toSdk[s] # << >> /\ toSdk' = [toSdk EXCEPT ![s] = Tail(@)]
        /\ UNCHANGED <<sdkPending, call>> \/ onMessage(Head(toSdk[s]))
    BY <1>11 DEF onmessage
  <2>1. UNCHANGED ran
    BY <1>11 DEF onmessage
  <2>2. \A z \in Sockets : \A i \in DOMAIN toSdk'[z] :
          \E k \in DOMAIN toSdk[z] : toSdk'[z][i] = toSdk[z][k]
    BY TailElements
  <2>3. ASSUME NEW c \in Calls, call'[c] = "ok", call[c] # "ok" PROVE ran'[c] > 0
    <3>1. onMessage(Head(toSdk[s])) /\ Head(toSdk[s]).c = c /\ outcomeOf(Head(toSdk[s])) = "ok"
      BY <2>3 DEF onMessage
    <3>2. 1 \in DOMAIN toSdk[s] /\ Head(toSdk[s]) = toSdk[s][1] /\ toSdk[s][1].t = "response"
      BY <3>1, TailElements DEF outcomeOf
    <3> QED BY <2>1, <3>1, <3>2 DEF Earned
  <2> QED BY <2>1, <2>2, <2>3, EarnedGrows
<1>12. ASSUME NEW c \in Calls, TimeoutFires(c) PROVE Earned'
  <2>1. UNCHANGED <<ran, toSdk>> /\ \A d \in Calls : call'[d] = "ok" => call[d] = "ok"
    BY <1>12 DEF TimeoutFires
  <2> QED BY <2>1, EarnedGrows
<1>13. CASE routeSdkMessage \/ handleSdkRequest \/ onSdkClose
  BY <1>2, <1>13 DEF routeSdkMessage, handleSdkRequest, onSdkClose
<1>14. CASE handleSdkRegister \/ RequestRefused \/ RequestThrows
  <2>1. UNCHANGED <<ran, call>>
    BY <1>14 DEF handleSdkRegister, RequestRefused, RequestThrows
  <2>2. PICK s \in Sockets, m \in SdkMessage : m.t # "response" /\ toSdk' = sendToWs(s, m)
    <3>1. Registered.t # "response" /\ \A c : buildSdkError(c).t # "response"
      BY DEF Registered, buildSdkError
    <3> QED BY <1>14, <3>1, Messages
        DEF handleSdkRegister, authenticateSdkRegister, RequestRefused, RequestThrows
  <2>3. \A z \in Sockets : \A i \in DOMAIN toSdk'[z] :
           (\E k \in DOMAIN toSdk[z] : toSdk'[z][i] = toSdk[z][k]) \/ toSdk'[z][i].t # "response"
    BY <2>2, SentOrThere
  <2> QED BY <2>1, <2>3, EarnedGrows
<1>15. CASE AgentResponds
  <2> PICK c \in Calls :
        /\ hubCalls[c] # NoSocket
        /\ ran' = [ran EXCEPT ![c] = @ + 1]
        /\ toSdk' = sendToWs(hubCalls[c], Response(c))
    BY <1>15 DEF AgentResponds
  <2>1. UNCHANGED call /\ hubCalls[c] \in Sockets
    BY <1>15 DEF AgentResponds, SdkType
  <2>2. Response(c).c = c /\ ran'[c] > 0 /\ \A d \in Calls : ran[d] =< ran'[d]
    BY DEF Response
  <2>3. \A z \in Sockets : \A i \in DOMAIN toSdk'[z] :
           (\E k \in DOMAIN toSdk[z] : toSdk'[z][i] = toSdk[z][k]) \/ ran'[toSdk'[z][i].c] > 0
    <3>1. Response(c) \in SdkMessage
      BY Messages
    <3> QED BY <2>1, <2>2, <3>1, SentOrThere
  <2> QED BY <2>1, <2>2, <2>3, EarnedGrows
<1>16. CASE AgentFails
  <2> PICK c \in Calls, executed \in {0, 1} :
        /\ hubCalls[c] # NoSocket
        /\ ran' = [ran EXCEPT ![c] = @ + executed]
        /\ toSdk' = sendToWs(hubCalls[c], buildSdkError(c))
    BY <1>16 DEF AgentFails
  <2>1. UNCHANGED call /\ hubCalls[c] \in Sockets
    BY <1>16 DEF AgentFails, SdkType
  <2>2. buildSdkError(c).t # "response" /\ \A d \in Calls : ran[d] =< ran'[d]
    BY DEF buildSdkError
  <2>3. \A z \in Sockets : \A i \in DOMAIN toSdk'[z] :
           (\E k \in DOMAIN toSdk[z] : toSdk'[z][i] = toSdk[z][k]) \/ toSdk'[z][i].t # "response"
    <3>1. buildSdkError(c) \in SdkMessage
      BY Messages
    <3>2. ASSUME NEW z \in Sockets, NEW i \in DOMAIN toSdk'[z]
          PROVE  (\E k \in DOMAIN toSdk[z] : toSdk'[z][i] = toSdk[z][k])
                 \/ toSdk'[z][i] = buildSdkError(c)
      BY <2>1, <3>1, <3>2, SentOrThere
    <3> QED BY <2>2, <3>2
  <2> QED BY <2>1, <2>2, <2>3, EarnedGrows
<1> QED
  BY <1>3, <1>4, <1>5, <1>6, <1>7, <1>8, <1>9, <1>10, <1>11, <1>12, <1>13, <1>14, <1>15, <1>16
  DEF SdkNext, SocketSteps, CallSteps, HubSteps

\* A step that only takes requests away, and runs nothing, leaves each in one
\* place at most.
LEMMA CopiesShrink ==
  ASSUME SdkType, CopiesInv, ran' = ran,
         \A c \in Calls : call'[c] \in Early => call[c] \in Early,
         \A c \in Calls, s \in Sockets, i \in Nat : Queued(c, s, i)' => Queued(c, s, i),
         hubAuth' \subseteq hubAuth,
         \A c \in Calls : hubCalls'[c] \in {hubCalls[c], NoSocket}
  PROVE  CopiesInv'
<1> SUFFICES ASSUME NEW c \in Calls PROVE OneCopy(c)' /\ RunsLeft(c)'
  BY DEF CopiesInv
<1>1. \A s \in Sockets : InAuth(c, s)' => InAuth(c, s)
  BY DEF InAuth
<1>2. hubCalls'[c] # NoSocket => hubCalls[c] # NoSocket
  OBVIOUS
<1>3. OneCopy(c) /\ RunsLeft(c)
  BY DEF CopiesInv
<1>4. OneCopy(c)'
  BY <1>1, <1>2, <1>3 DEF OneCopy
<1>5. OnItsWay(c)' => OnItsWay(c)
  BY <1>1, <1>2 DEF OnItsWay
<1>6. RunsLeft(c)'
  BY <1>3, <1>5 DEF RunsLeft
<1> QED BY <1>4, <1>6

\* A call that was not on its way is handed over: its request is queued on one
\* socket at most, in one place.
LEMMA CopyMade ==
  ASSUME SdkType, CopiesInv, NEW c \in Calls, call[c] \in Early, sendsToHub(c),
         UNCHANGED <<hubAuth, hubCalls>>,
         ran' \in [Calls -> Nat], ran'[c] =< 1, \A d \in Calls : d # c => ran'[d] = ran[d]
  PROVE  CopiesInv'
<1>1. /\ toHub \in [Sockets -> Seq(HubMessage)]
      /\ call \in [Calls -> Early \cup {"waiting"} \cup Settled]
  BY DEF SdkType
<1>2. call'[c] \notin Early /\ \A d \in Calls : d # c => call'[d] = call[d]
  BY <1>1, SendsToHub DEF Early
<1>3. ASSUME NEW d \in Calls, d # c, NEW s \in Sockets, NEW i \in Nat, Queued(d, s, i)'
      PROVE  Queued(d, s, i)
  <2>1. CASE toHub' = toHub
    BY <1>3, <2>1 DEF Queued
  <2>2. ASSUME NEW z \in Sockets, toHub' = [toHub EXCEPT ![z] = Append(@, RequestMsg(c))]
        PROVE  Queued(d, s, i)
    <3>1. RequestMsg(c) \in HubMessage /\ RequestMsg(d) # RequestMsg(c)
      BY <1>3, Messages
    <3>2. CASE s # z
      BY <1>1, <1>3, <2>2, <3>2 DEF Queued
    <3>3. CASE s = z
      <4>1. i \in DOMAIN Append(toHub[s], RequestMsg(c))
            /\ Append(toHub[s], RequestMsg(c))[i] = RequestMsg(d)
        BY <1>1, <1>3, <2>2, <3>3 DEF Queued
      <4> QED BY <1>1, <3>1, <4>1, AppendElements DEF Queued
    <3> QED BY <3>2, <3>3
  <2> QED BY <2>1, <2>2, SendsToHub
<1>4. \A s \in Sockets, i \in Nat : ~Queued(c, s, i)
  BY DEF CopiesInv, RunsLeft, OnItsWay
<1>5. /\ hubCalls[c] = NoSocket /\ \A s \in Sockets : ~InAuth(c, s)
  BY DEF CopiesInv, RunsLeft, OnItsWay
<1>6. ASSUME NEW s \in Sockets, NEW z \in Sockets, NEW i \in Nat, NEW k \in Nat,
             Queued(c, s, i)', Queued(c, z, k)'
      PROVE  s = z /\ i = k
  <2>1. CASE toHub' = toHub
    BY <1>4, <1>6, <2>1 DEF Queued
  <2>2. ASSUME NEW y \in Sockets, toHub' = [toHub EXCEPT ![y] = Append(@, RequestMsg(c))]
        PROVE  s = z /\ i = k
    <3>1. RequestMsg(c) \in HubMessage
      BY Messages
    <3>2. ASSUME NEW x \in Sockets, NEW n \in Nat, Queued(c, x, n)'
          PROVE  x = y /\ n = Len(toHub[y]) + 1
      <4>1. x = y
        BY <1>1, <1>4, <2>2, <3>2 DEF Queued
      <4>2. n \in DOMAIN Append(toHub[y], RequestMsg(c))
            /\ Append(toHub[y], RequestMsg(c))[n] = RequestMsg(c)
        BY <1>1, <2>2, <3>2, <4>1 DEF Queued
      <4>3. ~(n \in DOMAIN toHub[y] /\ toHub[y][n] = RequestMsg(c))
        BY <1>4 DEF Queued
      <4> QED BY <1>1, <3>1, <4>1, <4>2, <4>3, AppendElements
    <3> QED BY <1>6, <3>2
  <2> QED BY <2>1, <2>2, SendsToHub
<1>7. \A d \in Calls, s \in Sockets : InAuth(d, s)' <=> InAuth(d, s)
  BY DEF InAuth
<1>8. OneCopy(c)' /\ RunsLeft(c)'
  <2>1. OneCopy(c)'
    BY <1>5, <1>6, <1>7 DEF OneCopy
  <2> QED BY <1>2, <2>1 DEF RunsLeft
<1>9. ASSUME NEW d \in Calls, d # c PROVE OneCopy(d)' /\ RunsLeft(d)'
  <2>1. OneCopy(d) /\ RunsLeft(d)
    BY DEF CopiesInv
  <2>2. OneCopy(d)'
    BY <1>3, <1>7, <1>9, <2>1 DEF OneCopy
  <2>3. OnItsWay(d)' => OnItsWay(d)
    BY <1>3, <1>7, <1>9 DEF OnItsWay
  <2>4. call'[d] = call[d] /\ ran'[d] = ran[d]
    BY <1>2, <1>9
  <2> QED BY <2>1, <2>2, <2>3, <2>4 DEF RunsLeft
<1> QED BY <1>8, <1>9 DEF CopiesInv

\* routeSdkMessage takes the first request of a socket to the key service.
LEMMA CopyTakenUp ==
  ASSUME SdkType, CopiesInv, routeSdkMessage
  PROVE  CopiesInv'
<1> PICK s \in Sockets :
      /\ toHub[s] # << >>
      /\ hubAuth' = hubAuth \cup {<<s, Head(toHub[s])>>}
      /\ toHub' = [toHub EXCEPT ![s] = Tail(@)]
  BY DEF routeSdkMessage
<1>1. UNCHANGED <<call, ran, hubCalls>> /\ toHub \in [Sockets -> Seq(HubMessage)]
  BY DEF routeSdkMessage, ClientIdle, LocalIdle, SdkType
<1> SUFFICES ASSUME NEW c \in Calls PROVE OneCopy(c)' /\ RunsLeft(c)'
  BY DEF CopiesInv
<1> DEFINE before(z, i) == IF z = s THEN i + 1 ELSE i
<1>2. ASSUME NEW z \in Sockets, NEW i \in Nat, Queued(c, z, i)'
      PROVE  before(z, i) \in Nat \ {IF z = s THEN 1 ELSE 0} /\ Queued(c, z, before(z, i))
  <2>1. CASE z = s
    <3>1. i \in DOMAIN Tail(toHub[s]) /\ Tail(toHub[s])[i] = RequestMsg(c)
      BY <1>1, <1>2, <2>1 DEF Queued
    <3> QED BY <1>1, <2>1, <3>1, TailElements DEF Queued
  <2>2. CASE z # s
    <3>1. i \in DOMAIN toHub[z] /\ toHub[z][i] = RequestMsg(c)
      BY <1>1, <1>2, <2>2 DEF Queued
    <3> QED BY <1>1, <2>2, <3>1, QueueElements DEF Queued
  <2> QED BY <2>1, <2>2
<1>3. ASSUME NEW z \in Sockets, InAuth(c, z)', ~InAuth(c, z)
      PROVE  z = s /\ Queued(c, s, 1)
  BY <1>1, <1>3, TailElements DEF InAuth, Queued
<1>4. OneCopy(c) /\ RunsLeft(c)
  BY DEF CopiesInv
<1> HIDE DEF before
<1>5. OneCopy(c)'
  <2> SUFFICES ASSUME NEW y \in Sockets, NEW z \in Sockets
               PROVE  /\ \A i, k \in Nat : Queued(c, y, i)' /\ Queued(c, z, k)' => y = z /\ i = k
                      /\ InAuth(c, y)' /\ InAuth(c, z)' => y = z
                      /\ \A i \in Nat : Queued(c, y, i)' => ~InAuth(c, z)' /\ hubCalls'[c] = NoSocket
                      /\ InAuth(c, y)' => hubCalls'[c] = NoSocket
    BY DEF OneCopy
  <2>1. ASSUME NEW i \in Nat, NEW k \in Nat, Queued(c, y, i)', Queued(c, z, k)'
        PROVE  y = z /\ i = k
    <3>1. y = z /\ before(y, i) = before(z, k)
      BY <1>2, <1>4, <2>1 DEF OneCopy
    <3> QED BY <3>1 DEF before
  <2>2. ASSUME InAuth(c, y)', InAuth(c, z)' PROVE y = z
    BY <1>3, <1>4, <2>2 DEF OneCopy
  <2>3. ASSUME NEW i \in Nat, Queued(c, y, i)', InAuth(c, z)' PROVE FALSE
    <3>1. Queued(c, y, before(y, i)) /\ before(y, i) \in Nat
      BY <1>2, <2>3
    <3>2. Queued(c, s, 1)
      BY <1>3, <1>4, <2>3, <3>1 DEF OneCopy
    <3>3. y = s /\ before(y, i) = 1
      BY <1>4, <3>1, <3>2 DEF OneCopy
    <3> QED BY <1>2, <2>3, <3>3
  <2>4. ASSUME NEW i \in Nat, Queued(c, y, i)' PROVE hubCalls'[c] = NoSocket
    BY <1>1, <1>2, <1>4, <2>4 DEF OneCopy
  <2>5. ASSUME InAuth(c, y)' PROVE hubCalls'[c] = NoSocket
    BY <1>1, <1>3, <1>4, <2>5 DEF OneCopy
  <2> QED BY <2>1, <2>2, <2>3, <2>4, <2>5
<1>6. OnItsWay(c)' => OnItsWay(c)
  BY <1>1, <1>2, <1>3 DEF OnItsWay
<1>7. RunsLeft(c)'
  BY <1>1, <1>4, <1>6 DEF RunsLeft
<1> QED BY <1>5, <1>7

\* handleSdkRequest hands the request to the agent.
LEMMA CopyForwarded ==
  ASSUME SdkType, CopiesInv, handleSdkRequest
  PROVE  CopiesInv'
<1> PICK s \in Sockets, c \in Calls :
      /\ <<s, RequestMsg(c)>> \in hubAuth
      /\ hubAuth' = hubAuth \ {<<s, RequestMsg(c)>>}
      /\ hubCalls' = [hubCalls EXCEPT ![c] = s]
  BY DEF handleSdkRequest
<1>1. UNCHANGED <<call, ran, toHub>> /\ hubCalls \in [Calls -> Sockets \cup {NoSocket}]
  BY DEF handleSdkRequest, ClientIdle, LocalIdle, SdkType
<1>2. \A d \in Calls, z \in Sockets, i \in Nat : Queued(d, z, i)' <=> Queued(d, z, i)
  BY <1>1 DEF Queued
<1>3. InAuth(c, s) /\ \A d \in Calls, z \in Sockets : InAuth(d, z)' => InAuth(d, z)
  BY DEF InAuth
<1>4. ASSUME NEW d \in Calls, d # c PROVE OneCopy(d)' /\ RunsLeft(d)'
  <2>1. OneCopy(d) /\ RunsLeft(d) /\ hubCalls'[d] = hubCalls[d]
    BY <1>1, <1>4 DEF CopiesInv
  <2>2. OneCopy(d)'
    BY <1>2, <1>3, <2>1 DEF OneCopy
  <2>3. OnItsWay(d)' => OnItsWay(d)
    BY <1>2, <1>3, <2>1 DEF OnItsWay
  <2> QED BY <1>1, <2>1, <2>2, <2>3 DEF RunsLeft
<1>5. OneCopy(c)' /\ RunsLeft(c)'
  <2>1. OneCopy(c) /\ RunsLeft(c)
    BY DEF CopiesInv
  <2>2. \A z \in Sockets : ~InAuth(c, z)'
    <3> SUFFICES ASSUME NEW z \in Sockets, InAuth(c, z)' PROVE FALSE
      OBVIOUS
    <3>1. z = s
      BY <1>3, <2>1 DEF OneCopy
    <3> QED BY <3>1 DEF InAuth
  <2>3. \A z \in Sockets, i \in Nat : ~Queued(c, z, i)'
    BY <1>2, <1>3, <2>1 DEF OneCopy
  <2>4. OneCopy(c)'
    BY <2>2, <2>3 DEF OneCopy
  <2>5. OnItsWay(c)
    BY <1>3 DEF OnItsWay
  <2> QED BY <1>1, <2>1, <2>4, <2>5 DEF RunsLeft
<1> QED BY <1>4, <1>5 DEF CopiesInv

\* The agent's answer, or its failure, ends the one copy there was.
LEMMA CopyAnswered ==
  ASSUME SdkType, CopiesInv, AgentResponds \/ AgentFails
  PROVE  CopiesInv'
<1> PICK c \in Calls, executed \in {0, 1} :
      /\ hubCalls[c] # NoSocket
      /\ ran' = [ran EXCEPT ![c] = @ + executed]
      /\ hubCalls' = [hubCalls EXCEPT ![c] = NoSocket]
  BY DEF AgentResponds, AgentFails
<1>1. /\ UNCHANGED <<call, hubAuth, toHub>>
      /\ hubCalls \in [Calls -> Sockets \cup {NoSocket}] /\ ran \in [Calls -> Nat]
  BY DEF AgentResponds, AgentFails, ClientIdle, SdkType
<1>2. \A d \in Calls, z \in Sockets : /\ \A i \in Nat : Queued(d, z, i)' <=> Queued(d, z, i)
                                      /\ InAuth(d, z)' <=> InAuth(d, z)
  BY <1>1 DEF Queued, InAuth
<1>3. ASSUME NEW d \in Calls, d # c PROVE OneCopy(d)' /\ RunsLeft(d)'
  <2>1. OneCopy(d) /\ RunsLeft(d) /\ hubCalls'[d] = hubCalls[d] /\ ran'[d] = ran[d]
    BY <1>1, <1>3 DEF CopiesInv
  <2>2. OneCopy(d)'
    BY <1>2, <2>1 DEF OneCopy
  <2>3. OnItsWay(d)' => OnItsWay(d)
    BY <1>2, <2>1 DEF OnItsWay
  <2> QED BY <1>1, <2>1, <2>2, <2>3 DEF RunsLeft
<1>4. OneCopy(c)' /\ RunsLeft(c)'
  <2>1. OneCopy(c) /\ RunsLeft(c) /\ hubCalls'[c] = NoSocket /\ ran'[c] = ran[c] + executed
    BY <1>1 DEF CopiesInv
  <2>2. ran[c] =< 1 /\ call[c] \notin Early
    BY <2>1 DEF RunsLeft, OnItsWay
  <2>3. OneCopy(c)'
    BY <1>2, <2>1 DEF OneCopy
  <2>4. ~OnItsWay(c)'
    BY <1>2, <2>1 DEF OneCopy, OnItsWay
  <2>5. ran'[c] =< 2
    BY <1>1, <2>1, <2>2
  <2> QED BY <1>1, <2>2, <2>3, <2>4, <2>5 DEF RunsLeft
<1> QED BY <1>3, <1>4 DEF CopiesInv

LEMMA StepKeepsCopies ==
  ASSUME SdkType, WaitingHasTimer, CopiesInv, SdkNext
  PROVE  CopiesInv'
<1>0. SdkType' /\ CallsMove
  BY ClientKeepsType, HubKeepsType, StepMovesCalls DEF SdkNext
<1>1. /\ \A c \in Calls : call'[c] \in Early => call[c] \in Early
      /\ ran \in [Calls -> Nat] /\ ran' \in [Calls -> Nat]
      /\ call \in [Calls -> Early \cup {"waiting"} \cup Settled]
      /\ toHub \in [Sockets -> Seq(HubMessage)]
  BY <1>0 DEF CallsMove, SdkType
<1> USE DEF HubIdle, LocalIdle, Unsent, ClientIdle
<1>2. CASE UNCHANGED <<ran, toHub, hubCalls>> /\ hubAuth' \subseteq hubAuth
  BY <1>1, <1>2, CopiesShrink DEF Queued
<1>3. CASE SocketSteps /\ ~onopen /\ ~LinkDrops
  BY <1>2, <1>3 DEF SocketSteps, connect, onerror, onclose, disconnect
<1>4. CASE onopen
  <2> PICK s \in Sockets : toHub' = [toHub EXCEPT ![s] = <<RegisterMsg>>]
    BY <1>4 DEF onopen
  <2>1. \A c \in Calls, z \in Sockets, i \in Nat : Queued(c, z, i)' => Queued(c, z, i)
    BY <1>1, Messages DEF Queued
  <2> QED BY <1>1, <1>4, <2>1, CopiesShrink DEF onopen
<1>5. CASE LinkDrops
  <2> PICK s \in Sockets : toHub' = [toHub EXCEPT ![s] = << >>]
    BY <1>5 DEF LinkDrops
  <2>1. \A c \in Calls, z \in Sockets, i \in Nat : Queued(c, z, i)' => Queued(c, z, i)
    BY <1>1 DEF Queued
  <2> QED BY <1>1, <1>5, <2>1, CopiesShrink DEF LinkDrops
<1>6. CASE startCall \/ CacheExpires \/ DiscoveryServer \/ onmessage
  BY <1>2, <1>6 DEF startCall, CacheExpires, DiscoveryServer, onmessage
<1>7. ASSUME NEW c \in Calls, TimeoutFires(c) PROVE CopiesInv'
  BY <1>2, <1>7 DEF TimeoutFires
<1>8. CASE DiscoverStep
  <2> PICK c \in Calls : call[c] = "discovering" /\ discover(c)
    BY <1>8 DEF DiscoverStep
  <2>1. CASE UNCHANGED toHub
    BY <1>2, <1>8, <2>1 DEF DiscoverStep
  <2>2. CASE sendsToHub(c)
    <3>1. call[c] \in Early /\ ran'[c] =< 1 /\ UNCHANGED <<ran, hubAuth, hubCalls>>
      BY <1>8 DEF DiscoverStep, Early, CopiesInv, RunsLeft
    <3> QED BY <1>1, <2>2, <3>1, CopyMade
  <2> QED BY <2>1, <2>2 DEF discover
<1>9. CASE LocalFails
  <2> PICK c \in Calls, executed \in {0, 1} :
        call[c] = "local" /\ ran' = [ran EXCEPT ![c] = @ + executed] /\ sendsToHub(c)
    BY <1>9 DEF LocalFails
  <2>1. call[c] \in Early /\ ran[c] = 0 /\ UNCHANGED <<hubAuth, hubCalls>>
    BY <1>9 DEF LocalFails, Early, CopiesInv, RunsLeft
  <2>2. ran'[c] =< 1 /\ \A d \in Calls : d # c => ran'[d] = ran[d]
    BY <1>1, <2>1
  <2> QED BY <1>1, <2>1, <2>2, CopyMade
<1>10. CASE LocalAnswers
  <2> PICK c \in Calls : call[c] = "local" /\ ran' = [ran EXCEPT ![c] = @ + 1]
                         /\ call' = [call EXCEPT ![c] = "ok"]
    BY <1>10 DEF LocalAnswers
  <2>1. UNCHANGED <<toHub, hubAuth, hubCalls>>
    BY <1>10 DEF LocalAnswers
  <2>2. ASSUME NEW d \in Calls PROVE OneCopy(d)' /\ RunsLeft(d)'
    <3>1. OneCopy(d) /\ RunsLeft(d)
      BY DEF CopiesInv
    <3>2. OneCopy(d)' /\ (OnItsWay(d)' <=> OnItsWay(d))
      BY <2>1, <3>1 DEF OneCopy, OnItsWay, Queued, InAuth
    <3>3. CASE d = c
      <4>1. ran[c] = 0 /\ ~OnItsWay(c)
        BY <3>1, <3>3 DEF RunsLeft, Early
      <4> QED BY <1>1, <3>2, <3>3, <4>1 DEF RunsLeft, Early
    <3>4. CASE d # c
      BY <1>1, <3>1, <3>2, <3>4 DEF RunsLeft
    <3> QED BY <3>3, <3>4
  <2> QED BY <2>2 DEF CopiesInv
<1>11. CASE handleSdkRegister \/ RequestRefused \/ RequestThrows \/ onSdkClose
  BY <1>2, <1>11 DEF handleSdkRegister, RequestRefused, RequestThrows, onSdkClose
<1> QED
  BY <1>3, <1>4, <1>5, <1>6, <1>7, <1>8, <1>9, <1>10, <1>11, CopyTakenUp, CopyForwarded, CopyAnswered
  DEF SdkNext, SocketSteps, CallSteps, HubSteps

-----------------------------------------------------------------------------
(***************************************************************************)
(* The theorems about the client.                                          *)
(***************************************************************************)

LEMMA SdkInvariant == SdkSpec => []SdkInv
<1>1. SdkInit => SdkInv
  <2> SUFFICES ASSUME SdkInit PROVE SdkInv
    OBVIOUS
  <2>1. << >> \in Seq(HubMessage) /\ << >> \in Seq(SdkMessage)
    BY EmptySeq
  <2>2. SdkType
    BY <2>1 DEF SdkInit, SdkType, Early
  <2>3. WaitingHasTimer /\ Earned
    BY DEF SdkInit, WaitingHasTimer, Earned
  <2>4. \A c \in Calls : ~OnItsWay(c) /\ OneCopy(c)
    BY DEF SdkInit, OnItsWay, OneCopy, InAuth, Queued
  <2>5. CopiesInv
    BY <2>4 DEF SdkInit, CopiesInv, RunsLeft
  <2> QED BY <2>2, <2>3, <2>5 DEF SdkInv
<1>2. SdkInv /\ [SdkNext]_sdkVars => SdkInv'
  <2> SUFFICES ASSUME SdkInv, [SdkNext]_sdkVars PROVE SdkInv'
    OBVIOUS
  <2>1. CASE SdkNext
    <3>1. SdkType'
      BY <2>1, ClientKeepsType, HubKeepsType DEF SdkInv, SdkNext
    <3>2. WaitingHasTimer'
      BY <2>1, StepMovesCalls DEF SdkInv, CallsMove, WaitingHasTimer
    <3> QED BY <2>1, <3>1, <3>2, StepKeepsCopies, StepEarns DEF SdkInv
  <2>2. CASE UNCHANGED sdkVars
    <3>1. SdkType' /\ WaitingHasTimer' /\ Earned'
      BY <2>2 DEF sdkVars, SdkInv, SdkType, WaitingHasTimer, Earned
    <3>2. CopiesInv'
      BY <2>2, CopiesShrink DEF sdkVars, SdkInv, SdkType, Queued
    <3> QED BY <3>1, <3>2 DEF SdkInv
  <2> QED BY <2>1, <2>2
<1> QED BY <1>1, <1>2, PTL DEF SdkSpec

\* What a caller may conclude from a call, over any number of sockets that come
\* and go, of calls that overlap and of messages lost: a call that waits has
\* its timer, success means a backend ran it, and falling back from the local
\* agent to the hub runs it twice at most (TunnelClient.request, onMessage,
\* onclose; LocalAgentClient.request).
THEOREM SdkCorrect == SdkSpec => []SdkSound
<1>1. SdkInv => SdkSound
  BY DEF SdkInv, SdkSound, Earned, OkMeansExecuted, CopiesInv, RunsLeft, AtMostLocalThenHub
<1> QED BY <1>1, SdkInvariant, PTL

\* A call is settled at most once and only in this order: the safety part of
\* CallsAnswered, the client as an implementation of RequestReply.
THEOREM CallsSettledOnce == SdkSpec => reply!Init /\ [][reply!Next]_callPhase
<1>1. SdkInit => reply!Init
  BY DEF SdkInit, reply!Init, callPhase, Settled
<1>2. SdkInv /\ [SdkNext]_sdkVars => [reply!Next]_callPhase
  <2> SUFFICES ASSUME SdkInv, SdkNext, callPhase' # callPhase PROVE reply!Next
    BY DEF sdkVars, callPhase
  <2>0. /\ SdkType /\ SdkType' /\ WaitingHasTimer
        /\ call \in [Calls -> Early \cup {"waiting"} \cup Settled]
        /\ call' \in [Calls -> Early \cup {"waiting"} \cup Settled]
    BY ClientKeepsType, HubKeepsType DEF SdkInv, SdkNext, SdkType
  <2>1. ASSUME NEW c \in Calls, call[c] \in Early, call' = [call EXCEPT ![c] = call'[c]],
               call'[c] \in {"waiting"} \cup Settled
        PROVE  reply!Next
    <3>1. callPhase[c] = "new" /\ callPhase'[c] \in {"open", "answered"}
      BY <2>0, <2>1 DEF callPhase, Early, Settled
    <3>2. callPhase' = [callPhase EXCEPT ![c] = callPhase'[c]]
      BY <2>0, <2>1 DEF callPhase
    <3>3. reply!Take(c)
      BY <3>1, <3>2 DEF reply!Take
    <3> QED BY <3>3 DEF reply!Next
  <2>2. ASSUME \A c \in Calls : call'[c] # call[c] => call[c] = "waiting" /\ call'[c] \in Settled
        PROVE  reply!Next
    <3> DEFINE R == {c \in Calls : call'[c] # call[c]}
    <3>1. callPhase' = [c \in Calls |-> IF c \in R THEN "answered" ELSE callPhase[c]]
      BY <2>0, <2>2 DEF callPhase, Settled
    <3>2. \A c \in R : callPhase[c] = "open"
      BY <2>2 DEF callPhase
    <3>3. R # {}
      BY <3>1 DEF callPhase
    <3>4. reply!Answer(R) /\ R \in SUBSET Calls
      BY <3>1, <3>2, <3>3 DEF reply!Answer
    <3> QED BY <3>4 DEF reply!Next
  <2>3. CASE call' = call
    BY <2>3 DEF callPhase
  <2>4. CASE onclose
    BY <2>0, <2>2, <2>4 DEF onclose, rejectAll, Settled
  <2>5. CASE startCall
    BY <2>0, <2>5 DEF startCall, callPhase, Settled
  <2>6. CASE DiscoverStep
    <3> PICK c \in Calls : call[c] = "discovering" /\ discover(c)
      BY <2>6 DEF DiscoverStep
    <3>1. CASE call' = [call EXCEPT ![c] = "local"]
      BY <2>0, <3>1 DEF callPhase, Settled
    <3>2. CASE sendsToHub(c)
      BY <2>0, <2>1, <3>2, SendsToHub DEF Early, Settled
    <3> QED BY <3>1, <3>2 DEF discover
  <2>7. CASE LocalAnswers
    <3> PICK c \in Calls : call[c] = "local" /\ call' = [call EXCEPT ![c] = "ok"]
      BY <2>7 DEF LocalAnswers
    <3>1. call[c] \in Early /\ call'[c] = "ok" /\ call' = [call EXCEPT ![c] = call'[c]]
      BY <2>0 DEF Early
    <3> QED BY <2>1, <3>1 DEF Settled
  <2>8. CASE LocalFails
    <3> PICK c \in Calls : call[c] = "local" /\ sendsToHub(c)
      BY <2>8 DEF LocalFails
    <3> QED BY <2>0, <2>1, SendsToHub DEF Early, Settled
  <2>9. CASE onmessage
    BY <2>0, <2>2, <2>3, <2>9 DEF onmessage, onMessage, outcomeOf, Settled
  <2>10. ASSUME NEW c \in Calls, TimeoutFires(c) PROVE reply!Next
    BY <2>0, <2>2, <2>10 DEF TimeoutFires, Settled
  <2>11. CASE HubSteps
    BY <2>3, <2>11, HubFrame
  <2>12. CASE connect \/ onopen \/ onerror \/ LinkDrops \/ disconnect \/ CacheExpires \/ DiscoveryServer
    BY <2>3, <2>12 DEF connect, onopen, onerror, LinkDrops, disconnect, CacheExpires, DiscoveryServer
  <2> QED
    BY <2>4, <2>5, <2>6, <2>7, <2>8, <2>9, <2>10, <2>11, <2>12 DEF SdkNext, SocketSteps, CallSteps
<1> QED BY <1>1, <1>2, SdkInvariant, PTL DEF SdkSpec

-----------------------------------------------------------------------------
(***************************************************************************)
(* The hub's log.                                                          *)
(***************************************************************************)

LogCall == [op : {"create", "insert"} \cup Outcomes, id : LogRequests]
LogRow == [status : {Null, "status"}, errorCode : {Null, "code"}]

LogType ==
  /\ answered \in [LogRequests -> {"new", "none", "late"} \cup Outcomes]
  /\ calls \subseteq LogCall
  /\ DOMAIN rows \subseteq LogRequests
  /\ rows \in [DOMAIN rows -> LogRow]

\* A write under way says what the agent sent.
CallsTruthful == \A c \in calls : c.op \in Outcomes => answered[c.id] = c.op

LogInv == LogType /\ CallsTruthful /\ LogTruthful

\* A step that answers no request that had its answer, and issues only truthful
\* writes, keeps the log true.
LEMMA AnswersStay ==
  ASSUME LogInv, rows' = rows,
         answered' \in [LogRequests -> {"new", "none", "late"} \cup Outcomes],
         \A r \in LogRequests : answered[r] \in Outcomes => answered'[r] = answered[r],
         calls' \subseteq LogCall,
         \A c \in calls' : c \in calls \/ (c.op \in Outcomes => answered'[c.id] = c.op)
  PROVE  LogInv'
<1>1. LogType'
  BY DEF LogInv, LogType
<1>2. CallsTruthful'
  BY DEF LogInv, LogType, CallsTruthful, LogCall
<1>3. LogTruthful'
  BY DEF LogInv, LogType, LogTruthful, Outcomes
<1> QED BY <1>1, <1>2, <1>3 DEF LogInv

LEMMA LogStep ==
  ASSUME LogInv, LogNext
  PROVE  LogInv'
<1>0. /\ answered \in [LogRequests -> {"new", "none", "late"} \cup Outcomes] /\ calls \subseteq LogCall
      /\ DOMAIN rows \subseteq LogRequests /\ rows \in [DOMAIN rows -> LogRow]
  BY DEF LogInv, LogType
<1>1. CASE SessionUpserted \/ RequestTimesOut \/ CallFails
  BY <1>0, <1>1, AnswersStay DEF SessionUpserted, RequestTimesOut, CallFails
<1>2. CASE SdkRequest
  <2> PICK r \in LogRequests :
        /\ answered[r] = "new" /\ answered' = [answered EXCEPT ![r] = "none"]
        /\ calls' = calls \cup {[op |-> "create", id |-> r]}
    BY <1>2 DEF SdkRequest
  <2>1. answered' \in [LogRequests -> {"new", "none", "late"} \cup Outcomes]
        /\ \A q \in LogRequests : answered[q] \in Outcomes => answered'[q] = answered[q]
    BY <1>0 DEF Outcomes
  <2>2. calls' \subseteq LogCall
    BY <1>0 DEF LogCall
  <2> QED BY <1>2, <2>1, <2>2, AnswersStay DEF SdkRequest, Outcomes
<1>3. CASE TunnelResponse
  <2> PICK r \in LogRequests :
        /\ answered[r] = "none"
        /\ answered' = [answered EXCEPT ![r] = IF r \in pending THEN "response" ELSE "late"]
        /\ recordResolved(r)
    BY <1>3 DEF TunnelResponse
  <2>1. answered' \in [LogRequests -> {"new", "none", "late"} \cup Outcomes]
        /\ \A q \in LogRequests : answered[q] \in Outcomes => answered'[q] = answered[q]
    BY <1>0 DEF Outcomes
  <2>2. calls' \subseteq LogCall
    BY <1>0 DEF LogCall, recordResolved, Outcomes
  <2>3. \A c \in calls' : c \in calls \/ (c.op \in Outcomes => answered'[c.id] = c.op)
    BY <1>0 DEF recordResolved
  <2> QED BY <1>3, <2>1, <2>2, <2>3, AnswersStay DEF TunnelResponse
<1>4. CASE TunnelAgentError
  <2> PICK r \in LogRequests :
        /\ answered[r] = "none" /\ answered' = [answered EXCEPT ![r] = "error"]
        /\ calls' = calls \cup {[op |-> "error", id |-> r]}
    BY <1>4 DEF TunnelAgentError
  <2>1. answered' \in [LogRequests -> {"new", "none", "late"} \cup Outcomes]
        /\ \A q \in LogRequests : answered[q] \in Outcomes => answered'[q] = answered[q]
    BY <1>0 DEF Outcomes
  <2>2. calls' \subseteq LogCall
    BY <1>0 DEF LogCall, Outcomes
  <2>3. \A c \in calls' : c \in calls \/ (c.op \in Outcomes => answered'[c.id] = c.op)
    BY <1>0
  <2> QED BY <1>4, <2>1, <2>2, <2>3, AnswersStay DEF TunnelAgentError
<1>5. CASE CreateFindsSession
  <2> PICK c \in calls :
        /\ c.op = "create"
        /\ calls' = (calls \ {c}) \cup (IF sessionRow THEN {[op |-> "insert", id |-> c.id]} ELSE {})
    BY <1>5 DEF CreateFindsSession
  <2>1. c.id \in LogRequests
    BY <1>0 DEF LogCall
  <2>2. calls' \subseteq LogCall
    BY <1>0, <2>1 DEF LogCall
  <2>3. \A d \in calls' : d \in calls \/ d.op \notin Outcomes
    BY DEF Outcomes
  <2> QED BY <1>0, <1>5, <2>2, <2>3, AnswersStay DEF CreateFindsSession
<1>6. CASE CreateInserts
  <2> PICK c \in calls :
        /\ calls' = calls \ {c}
        /\ rows' = [r \in DOMAIN rows \cup {c.id} |-> IF r = c.id THEN Row(Null, Null) ELSE rows[r]]
    BY <1>6 DEF CreateInserts
  <2>1. UNCHANGED answered /\ c.id \in LogRequests
    BY <1>0, <1>6 DEF CreateInserts, LogCall
  <2>2. Row(Null, Null) \in LogRow /\ Row(Null, Null).status = Null /\ Row(Null, Null).errorCode = Null
    BY DEF Row, LogRow
  <2>3. LogType'
    BY <1>0, <2>1, <2>2 DEF LogType
  <2>4. CallsTruthful'
    BY <2>1 DEF LogInv, CallsTruthful
  <2>5. LogTruthful'
    BY <2>1, <2>2 DEF LogInv, LogTruthful
  <2> QED BY <2>3, <2>4, <2>5 DEF LogInv
<1>7. CASE recordResponse
  <2> PICK c \in calls :
        /\ c.op \in Outcomes /\ calls' = calls \ {c}
        /\ rows' = [r \in DOMAIN rows |->
             IF r # c.id THEN rows[r]
             ELSE IF c.op = "response" THEN [rows[r] EXCEPT !.status = "status"]
                                       ELSE [rows[r] EXCEPT !.errorCode = "code"]]
    BY <1>7 DEF recordResponse
  <2>1. UNCHANGED answered /\ answered[c.id] = c.op
    BY <1>7 DEF recordResponse, LogInv, CallsTruthful
  <2>2. LogType'
    BY <1>0, <2>1 DEF LogType, LogRow
  <2>3. CallsTruthful'
    BY <2>1 DEF LogInv, CallsTruthful
  <2>4. ASSUME NEW r \in DOMAIN rows'
        PROVE  /\ rows'[r].status # Null => answered'[r] = "response"
               /\ rows'[r].errorCode # Null => answered'[r] = "error"
    <3>1. r \in DOMAIN rows /\ rows[r] \in LogRow
      BY <1>0, <2>4
    <3>2. /\ rows[r].status # Null => answered[r] = "response"
          /\ rows[r].errorCode # Null => answered[r] = "error"
      BY <3>1 DEF LogInv, LogTruthful
    <3> QED BY <2>1, <3>1, <3>2 DEF LogRow, Outcomes
  <2> QED BY <2>2, <2>3, <2>4 DEF LogInv, LogTruthful
<1> QED BY <1>1, <1>2, <1>3, <1>4, <1>5, <1>6, <1>7 DEF LogNext

\* The log never claims what did not happen, for any number of requests and in
\* whatever order their writes reach the database, fail or find no row
\* (TunnelRequest.repository create and recordResponse, Message.router
\* handleTunnelResponse and handleTunnelAgentError).
THEOREM LogCorrect == LogSpec => []LogTruthful
<1>1. LogInit => LogInv
  BY DEF LogInit, LogInv, LogType, CallsTruthful, LogTruthful, LogCall, LogRow
<1>2. LogInv /\ [LogNext]_logVars => LogInv'
  <2> SUFFICES ASSUME LogInv, [LogNext]_logVars PROVE LogInv'
    OBVIOUS
  <2>1. CASE UNCHANGED logVars
    BY <2>1 DEF logVars, LogInv, LogType, CallsTruthful, LogTruthful
  <2> QED BY <2>1, LogStep
<1>3. LogInv => LogTruthful
  BY DEF LogInv
<1> QED BY <1>1, <1>2, <1>3, PTL DEF LogSpec
=============================================================================
