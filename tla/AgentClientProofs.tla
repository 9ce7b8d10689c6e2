------------------------- MODULE AgentClientProofs -------------------------
(***************************************************************************)
(* Proofs about the agent: its link to the hub and the way of its answers  *)
(* (AgentClient), its durable queue (ReplayQueue) and its proxy's cache    *)
(* (ResponseCache), for any number of reconnects, requests, relayed        *)
(* WebSockets, rows, replays, paths and forwards.                          *)
(***************************************************************************)
EXTENDS AgentClient, ReplayQueue, ResponseCache, SequenceTheorems, FiniteSetTheorems,
        WellFoundedInduction, TLAPS

\* The types of the variables that the argument is about.
LinkType ==
  /\ state \in {"IDLE", "CONNECTING", "AUTHENTICATING", "CONNECTED", "RECONNECTING", "STOPPED"}
  /\ stopped \in BOOLEAN
  /\ reconnectTimer \in BOOLEAN
  /\ ready \in [Link -> {"none", "CONNECTING", "OPEN", "CLOSING", "CLOSED"}]
  /\ current \in 0..MaxLinks
  /\ told \in [Link -> {"nothing", "registered", "error"}]
  /\ wsConnections \in [Conn -> 0..MaxLinks \cup {Never}]

\* Links are opened one after the other: those before the current one have
\* closed and those after it have not been opened.
LinksInTurn ==
  /\ state = "IDLE" => current = 0 /\ ~reconnectTimer
  /\ \A k \in Link : k > current => ready[k] = "none"
  /\ \A k \in Link : k < current => ready[k] = "CLOSED"
  /\ reconnectTimer => current \in Link /\ ready[current] = "CLOSED"

\* ConnectedHasLink, with the fact that a connected agent has had a link.
ConnectedLink ==
  state = "CONNECTED" /\ ~stopped =>
    current \in Link /\ carries(current) /\ told[current] = "registered"

LinkInv == LinkType /\ LinksInTurn /\ ConnectedLink /\ BackendSocketsFollowLink

\* The steps that only move answers leave the link alone.
LEMMA AnswerStepFrame ==
  ASSUME NEW k, NEW r,
         BatchTimer \/ Tick \/ OnForwardDone(r) \/ OnPing(k) \/ OnForward(k, r)
  PROVE  UNCHANGED <<linkVars, wsConnections>>
BY DEF BatchTimer, Tick, OnForwardDone, OnPing, OnForward

\* Only the current link is not closed.
LEMMA LiveIsCurrent ==
  ASSUME LinkType, LinksInTurn, NEW k \in Link,
         ready[k] \in {"CONNECTING", "OPEN", "CLOSING"}
  PROVE  k = current
BY AgentAssumption DEF LinkType, LinksInTurn, Link

\* stop() closes the link and forgets the timer and the backend WebSockets.
LEMMA StopKeepsLink ==
  ASSUME LinkInv, stop, told' \in [Link -> {"nothing", "registered", "error"}]
  PROVE  LinkInv'
BY AgentAssumption
DEF LinkInv, LinkType, LinksInTurn, ConnectedLink, BackendSocketsFollowLink, stop, Link, carries,
    closeAllWebSockets, Never

\* start() and the reconnect timer open the next link.
LEMMA ConnectKeepsLink ==
  ASSUME LinkInv, Start \/ Reconnect
  PROVE  LinkInv'
<1>1. current + 1 \in Link /\ current' = current + 1
  BY AgentAssumption DEF LinkInv, LinkType, Start, Reconnect, connect, Link
<1>2. \A k \in Link : k <= current => ready[k] = "CLOSED"
  BY AgentAssumption DEF LinkInv, LinkType, LinksInTurn, Start, Reconnect, Link
<1>3. ready' = [ready EXCEPT ![current + 1] = "CONNECTING"] /\ state' = "CONNECTING"
      /\ UNCHANGED <<stopped, told, wsConnections>> /\ ~reconnectTimer'
  <2>1. CASE Start
    BY <2>1, Zenon DEF LinkInv, LinksInTurn, Start, connect
  <2>2. CASE Reconnect
    BY <2>2, Zenon DEF Reconnect, connect
  <2> QED BY <2>1, <2>2
<1>4. LinkType'
  <2>1. reconnectTimer' \in BOOLEAN
    BY Zenon DEF LinkInv, LinkType, Start, Reconnect
  <2> QED BY <1>1, <1>3, <2>1, AgentAssumption DEF LinkInv, LinkType, Link
<1>5. LinksInTurn'
  BY <1>1, <1>2, <1>3, AgentAssumption DEF LinkInv, LinkType, LinksInTurn, Link
<1>6. BackendSocketsFollowLink'
  BY <1>1, <1>3, AgentAssumption
  DEF LinkInv, LinkType, LinksInTurn, BackendSocketsFollowLink, Link, carries
<1> QED BY <1>3, <1>4, <1>5, <1>6 DEF LinkInv, ConnectedLink

\* The events of one link.
LEMMA LinkEventKeepsLink ==
  ASSUME LinkInv, NEW k \in Link,
         OnOpen(k) \/ OnRegistered(k) \/ OnHubError(k) \/ LinkEnds(k) \/ OnClose(k)
  PROVE  LinkInv'
<1> USE AgentAssumption
<1>0. k = current
  BY LiveIsCurrent
  DEF LinkInv, OnOpen, OnRegistered, OnHubError, LinkEnds, OnClose, carries
<1>1. CASE OnOpen(k)
  BY <1>0, <1>1
  DEF OnOpen, LinkInv, LinkType, LinksInTurn, ConnectedLink, BackendSocketsFollowLink, Link, carries
<1>2. CASE OnRegistered(k)
  BY <1>0, <1>2
  DEF OnRegistered, LinkInv, LinkType, LinksInTurn, ConnectedLink, BackendSocketsFollowLink, Link,
      carries
<1>3. CASE OnHubError(k)
  <2>1. CASE stop
    BY <1>3, <2>1, StopKeepsLink DEF OnHubError, LinkInv, LinkType
  <2>2. CASE UNCHANGED <<state, stopped, reconnectTimer, ready, current, wsConnections>>
    BY <1>0, <1>3, <2>2
    DEF OnHubError, LinkInv, LinkType, LinksInTurn, ConnectedLink, BackendSocketsFollowLink, Link,
        carries
  <2> QED BY <1>3, <2>1, <2>2 DEF OnHubError
<1>4. CASE LinkEnds(k)
  BY <1>0, <1>4
  DEF LinkEnds, LinkInv, LinkType, LinksInTurn, ConnectedLink, BackendSocketsFollowLink, Link, carries
<1>5. CASE OnClose(k)
  <2>1. CASE stopped
    BY <1>0, <1>5, <2>1
    DEF OnClose, LinkInv, LinkType, LinksInTurn, ConnectedLink, BackendSocketsFollowLink, Link, carries
  <2>2. CASE ~stopped
    <3>1. /\ ready' = [ready EXCEPT ![current] = "CLOSED"]
          /\ state' = "RECONNECTING"
          /\ reconnectTimer' = TRUE
          /\ closeAllWebSockets
          /\ UNCHANGED <<stopped, current, told>>
      BY <1>0, <1>5, <2>2, Zenon DEF OnClose
    <3>2. LinkType'
      <4>1. reconnectTimer' \in BOOLEAN /\ stopped' \in BOOLEAN
        BY <3>1, Zenon DEF LinkInv, LinkType
      <4> QED BY <3>1, <4>1 DEF LinkInv, LinkType, closeAllWebSockets, Link, Never
    <3>3. LinksInTurn'
      BY <1>0, <3>1 DEF LinkInv, LinkType, LinksInTurn, Link
    <3>4. BackendSocketsFollowLink'
      <4>1. \A c \in Conn : wsConnections'[c] \notin Link
        BY <3>1 DEF closeAllWebSockets, Link, Never
      <4> QED BY <4>1 DEF BackendSocketsFollowLink
    <3> QED BY <3>1, <3>2, <3>3, <3>4 DEF LinkInv, ConnectedLink
  <2> QED BY <2>1, <2>2
<1> QED BY <1>1, <1>2, <1>3, <1>4, <1>5

\* The WebSockets to the local backend.
LEMMA SocketStepKeepsLink ==
  ASSUME LinkInv, NEW c \in Conn,
         WsConnectionEnds(c) \/ \E k \in Link : OnWsOpen(k, c)
  PROVE  LinkInv'
<1> USE AgentAssumption
<1>1. UNCHANGED linkVars
  BY DEF WsConnectionEnds, OnWsOpen
<1>2. LinkType' /\ LinksInTurn' /\ ConnectedLink'
  <2>1. wsConnections' \in [Conn -> 0..MaxLinks \cup {Never}]
    <3>1. PICK x \in Link \cup {Never} : wsConnections' = [wsConnections EXCEPT ![c] = x]
      BY DEF WsConnectionEnds, OnWsOpen
    <3>2. x \in 0..MaxLinks \cup {Never}
      BY DEF Link
    <3> QED BY <3>1, <3>2 DEF LinkInv, LinkType
  <2> QED BY <1>1, <2>1 DEF linkVars, LinkInv, LinkType, LinksInTurn, ConnectedLink, carries
<1>3. BackendSocketsFollowLink'
  <2>1. CASE WsConnectionEnds(c)
    BY <1>1, <2>1
    DEF WsConnectionEnds, linkVars, LinkInv, LinkType, BackendSocketsFollowLink, Link, carries, Never
  <2>2. ASSUME NEW k \in Link, OnWsOpen(k, c) PROVE BackendSocketsFollowLink'
    BY <1>1, <2>2
    DEF OnWsOpen, linkVars, LinkInv, LinkType, BackendSocketsFollowLink, carries
  <2> QED BY <2>1, <2>2
<1> QED BY <1>2, <1>3 DEF LinkInv

\* The agent has one link at a time; it takes itself for connected only while
\* the hub has registered it on a link that has not closed; and no WebSocket
\* to the local backend outlives the link it was asked for over
\* (AgentClient.connect, onRegistered, onClose, scheduleReconnect).
THEOREM LinkCorrect == Spec => [](SingleLink /\ ConnectedHasLink /\ BackendSocketsFollowLink)
<1>1. Init => LinkInv
  <2> SUFFICES ASSUME Init PROVE LinkInv
    OBVIOUS
  <2> USE AgentAssumption
  <2>1. ~stopped /\ ~reconnectTimer /\ stopped \in BOOLEAN /\ reconnectTimer \in BOOLEAN
    BY Zenon DEF Init
  <2>2. LinkType
    BY <2>1 DEF Init, LinkType, Link
  <2>3. LinksInTurn /\ ConnectedLink
    BY <2>1 DEF Init, LinksInTurn, ConnectedLink, Link
  <2>4. BackendSocketsFollowLink
    BY DEF Init, BackendSocketsFollowLink, Link
  <2> QED BY <2>2, <2>3, <2>4 DEF LinkInv
<1>2. LinkInv /\ [Next]_vars => LinkInv'
  <2> SUFFICES ASSUME LinkInv, [Next]_vars PROVE LinkInv'
    OBVIOUS
  <2>1. CASE UNCHANGED <<linkVars, wsConnections>>
    BY <2>1
    DEF linkVars, LinkInv, LinkType, LinksInTurn, ConnectedLink, BackendSocketsFollowLink, carries
  <2>2. CASE UNCHANGED vars
    BY <2>1, <2>2 DEF vars, linkVars
  <2>3. CASE Stop
    BY <2>3, StopKeepsLink DEF Stop, LinkInv, LinkType
  <2>4. CASE Next /\ ~Stop
    BY <2>1, <2>4, AnswerStepFrame, ConnectKeepsLink, LinkEventKeepsLink, SocketStepKeepsLink DEF Next
  <2> QED BY <2>2, <2>3, <2>4
<1>3. LinkInv => SingleLink /\ ConnectedHasLink /\ BackendSocketsFollowLink
  <2> SUFFICES ASSUME LinkInv PROVE SingleLink /\ ConnectedHasLink
    BY DEF LinkInv
  <2>1. live \subseteq {current}
    BY LiveIsCurrent DEF LinkInv, live
  <2>2. reconnectTimer => live = {}
    BY <2>1 DEF LinkInv, LinksInTurn, live
  <2> QED BY <2>1, <2>2 DEF SingleLink, ConnectedHasLink, LinkInv, ConnectedLink
<1> QED BY <1>1, <1>2, <1>3, PTL DEF Spec

\* "Single WS connection" (AgentClient.ts:2): with any number of reconnects,
\* at most one link is not closed, and it is the one written to.
THEOREM SingleLinkHolds == Spec => []SingleLink
BY LinkCorrect, PTL

\* No WebSocket to the local backend is left "with nobody on the other end"
\* (AgentClient.onClose, closeAllWebSockets).
THEOREM BackendSocketsFollow == Spec => []BackendSocketsFollowLink
BY LinkCorrect, PTL
-----------------------------------------------------------------------------
(***************************************************************************)
(* The way of an answer.  A FoldLeft is a function chosen on the sets of   *)
(* indices; that it exists is shown once, for what it folds over a set.    *)
(***************************************************************************)

\* Induction over the natural numbers, for a set instead of a predicate.
LEMMA NatSetInduction ==
  ASSUME NEW S, 0 \in S, \A n \in Nat : n \in S => n + 1 \in S
  PROVE  Nat \subseteq S
<1> SUFFICES ASSUME NEW k \in Nat, k \notin S PROVE FALSE
  OBVIOUS
<1>1. IsWellFoundedOn(OpToRel(<, Nat), Nat)
  BY NatLessThanWellFounded
<1>2. Nat \ S \subseteq Nat /\ Nat \ S # {}
  OBVIOUS
<1>3. PICK x \in Nat \ S : \A y \in Nat \ S : ~(<<y, x>> \in OpToRel(<, Nat))
  BY <1>1, <1>2, WFMin
<1>4. OpToRel(<, Nat) = {ss \in Nat \X Nat : ss[1] < ss[2]}
  BY Zenon DEF OpToRel
<1>5. x \in Nat /\ x \notin S /\ x # 0
  BY <1>3
<1> DEFINE y == x - 1
<1>6. y \in Nat /\ y + 1 = x /\ y < x
  BY <1>5
<1> HIDE DEF y
<1>7. <<y, x>> \in OpToRel(<, Nat)
  BY <1>4, <1>5, <1>6
<1>8. y \in S
  BY <1>3, <1>6, <1>7
<1> QED BY <1>5, <1>6, <1>8

\* A fold goes through a set of indices from the greatest down: the function
\* that FoldLeft chooses exists, and stays in V.
FoldSteps(F, base, n, g) ==
  \A S \in SUBSET (1..n) :
    g[S] = IF S = {} THEN base ELSE F[<<Max(S), g[S \ {Max(S)}]>>]

\* The greatest index is the last.
LEMMA MaxIsLast ==
  ASSUME NEW n \in Nat, NEW S \in SUBSET (1..n + 1), n + 1 \in S
  PROVE  Max(S) = n + 1
<1>1. \A y \in S : n + 1 >= y
  OBVIOUS
<1>2. Max(S) \in S /\ \A y \in S : Max(S) >= y
  BY <1>1, Zenon DEF Max
<1>3. Max(S) >= n + 1 /\ Max(S) \in 1..n + 1
  BY <1>2
<1> QED BY <1>3

LEMMA FoldExists ==
  ASSUME NEW n \in Nat, NEW V, NEW base \in V, NEW F \in [(1..n) \X V -> V]
  PROVE  /\ \A S \in SUBSET (1..n) : S # {} => Max(S) \in 1..n
         /\ \E g \in [SUBSET (1..n) -> V] : FoldSteps(F, base, n, g)
<1> DEFINE Bounded(k) == \A S \in SUBSET (1..k) : S # {} => Max(S) \in 1..k
           Exist(k) == \E g \in [SUBSET (1..k) -> V] : FoldSteps(F, base, k, g)
           Good == {k \in Nat : k =< n => Bounded(k) /\ Exist(k)}
<1>1. 0 \in Good
  <2>1. SUBSET (1..0) = {{}}
    OBVIOUS
  <2> DEFINE g == [S \in {{}} |-> base]
  <2>2. g \in [SUBSET (1..0) -> V] /\ g[{}] = base
    BY <2>1
  <2> HIDE DEF g
  <2>3. FoldSteps(F, base, 0, g)
    BY <2>1, <2>2, Zenon DEF FoldSteps
  <2>4. Bounded(0)
    BY <2>1
  <2>5. Exist(0)
    BY <2>2, <2>3, Zenon
  <2> QED BY <2>4, <2>5, Zenon
<1> HIDE DEF Bounded, Exist, Good
<1>2. ASSUME NEW k \in Nat, k \in Good PROVE k + 1 \in Good
  <2> SUFFICES ASSUME k + 1 =< n PROVE Bounded(k + 1) /\ Exist(k + 1)
    BY DEF Good
  <2>0. Bounded(k) /\ Exist(k)
    BY <1>2 DEF Good
  <2>1. PICK g \in [SUBSET (1..k) -> V] : FoldSteps(F, base, k, g)
    BY <2>0 DEF Exist
  <2>2. \A S \in SUBSET (1..k + 1) : k + 1 \notin S => S \in SUBSET (1..k)
    OBVIOUS
  <2>3. \A S \in SUBSET (1..k + 1) : S \ {k + 1} \in SUBSET (1..k)
    OBVIOUS
  <2>4. Bounded(k + 1)
    <3> SUFFICES ASSUME NEW S \in SUBSET (1..k + 1), S # {} PROVE Max(S) \in 1..k + 1
      BY DEF Bounded
    <3>1. CASE k + 1 \in S
      BY <3>1, MaxIsLast
    <3>2. CASE k + 1 \notin S
      <4>1. Max(S) \in 1..k
        BY <2>0, <2>2, <3>2 DEF Bounded
      <4> QED BY <4>1
    <3> QED BY <3>1, <3>2
  <2> DEFINE h == [S \in SUBSET (1..k + 1) |->
                     IF k + 1 \in S THEN F[<<k + 1, g[S \ {k + 1}]>>] ELSE g[S]]
  <2>5. h \in [SUBSET (1..k + 1) -> V]
    <3> SUFFICES ASSUME NEW S \in SUBSET (1..k + 1) 
                 PROVE (IF k + 1 \in S THEN F[<<k + 1, g[S \ {k + 1}]>>] ELSE g[S]) \in V
      OBVIOUS
    <3>1. k + 1 \in 1..n
      OBVIOUS
    <3>2. CASE k + 1 \in S
      <4>1. g[S \ {k + 1}] \in V
        BY <2>3
      <4> QED BY <3>1, <3>2, <4>1
    <3>3. CASE k + 1 \notin S
      BY <2>2, <3>3
    <3> QED BY <3>2, <3>3
  <2>6. ASSUME NEW S \in SUBSET (1..k + 1)
        PROVE  h[S] = IF S = {} THEN base ELSE F[<<Max(S), h[S \ {Max(S)}]>>]
    <3>1. CASE k + 1 \in S
      <4>1. Max(S) = k + 1 /\ S # {}
        BY <3>1, MaxIsLast
      <4>2. h[S \ {k + 1}] = g[S \ {k + 1}]
        BY <2>3
      <4> QED BY <3>1, <4>1, <4>2
    <3>2. CASE k + 1 \notin S
      <4>1. S \in SUBSET (1..k) /\ h[S] = g[S]
        BY <2>2, <3>2
      <4>2. S \ {Max(S)} \in SUBSET (1..k + 1) /\ k + 1 \notin S \ {Max(S)}
        BY <3>2
      <4>3. h[S \ {Max(S)}] = g[S \ {Max(S)}]
        BY <4>2
      <4>4. g[S] = IF S = {} THEN base ELSE F[<<Max(S), g[S \ {Max(S)}]>>]
        BY <2>1, <4>1 DEF FoldSteps
      <4> QED BY <4>1, <4>3, <4>4
    <3> QED BY <3>1, <3>2
  <2> HIDE DEF h
  <2>7. FoldSteps(F, base, k + 1, h)
    BY <2>6 DEF FoldSteps
  <2> QED BY <2>4, <2>5, <2>7 DEF Exist
<1>3. n \in Good
  BY <1>1, <1>2, NatSetInduction
<1>4. Bounded(n) /\ Exist(n)
  BY <1>3 DEF Good
<1> QED BY <1>4, Zenon DEF Bounded, Exist

\* The folds of the module: what is held, and the batch, after the messages with
\* indices in S.
HoldStep(h, s, g, S) ==
  IF S = {} THEN h
  ELSE IF s[Max(S)] = Pong THEN g[S \ {Max(S)}] ELSE hold(g[S \ {Max(S)}], s[Max(S)])
Holds(h, s, g) == g = [S \in SUBSET DOMAIN s |-> HoldStep(h, s, g, S)]
Holder(h, s) == CHOOSE g : Holds(h, s, g)

LEMMA HoldAllIsLast == ASSUME NEW h, NEW s PROVE holdAll(h, s) = Holder(h, s)[DOMAIN s]
BY DEF holdAll, FoldLeft, MapThenFoldSet, HoldStep, Holds, Holder

AddStep(g, S) ==
  IF S = {} THEN batch
  ELSE IF expired(held[Max(S)]) THEN g[S \ {Max(S)}] ELSE add(g[S \ {Max(S)}], held[Max(S)].msg)
Adds(g) == g = [S \in SUBSET DOMAIN held |-> AddStep(g, S)]
Adder == CHOOSE g : Adds(g)
LEMMA AddAllIsLast == sendHeldResponses = Adder[DOMAIN held]
BY DEF sendHeldResponses, FoldLeft, MapThenFoldSet, AddStep, Adds, Adder

-----------------------------------------------------------------------------
\* No answer is twice in a sequence of messages, or among the held.
Single(s) == \A i, j \in 1..Len(s) : s[i] = s[j] /\ s[i] # Pong => i = j
HeldOnce(h) == \A i, j \in 1..Len(h) : h[i].msg = h[j].msg => i = j

\* The answers among messages.
LEMMA AnswersOf ==
  ASSUME NEW s \in Seq(Message)
  PROVE  /\ \A m : m \in answersIn(s) <=> m # Pong /\ \E i \in 1..Len(s) : m = s[i]
         /\ answersIn(s) \subseteq Request
<1>1. DOMAIN s = 1..Len(s) /\ \A i \in 1..Len(s) : s[i] \in Message
  BY LenProperties, ElementOfSeq
<1> QED BY <1>1 DEF answersIn, ToSet, Message

LEMMA NoMessages == << >> \in Seq(Message) /\ Single(<< >>) /\ answersIn(<< >>) = {}
BY DEF Single, answersIn, ToSet

\* A message more, and two sequences of messages joined.
LEMMA Appended ==
  ASSUME NEW s \in Seq(Message), NEW m \in Message, Single(s), m \notin answersIn(s)
  PROVE  /\ Append(s, m) \in Seq(Message) /\ Single(Append(s, m))
         /\ answersIn(Append(s, m)) = answersIn(s) \cup ({m} \ {Pong})
<1> DEFINE t == Append(s, m)
<1>0. Len(s) \in Nat
  BY LenProperties
<1>1. /\ t \in Seq(Message) /\ Len(t) = Len(s) + 1
      /\ \A i \in 1..Len(s) : t[i] = s[i]
      /\ t[Len(s) + 1] = m
  BY AppendProperties
<1> HIDE DEF t
<1>2. m # Pong => \A i \in 1..Len(s) : s[i] # m
  BY AnswersOf
<1>3. Single(t)
  <2> SUFFICES ASSUME NEW i \in 1..Len(t), NEW j \in 1..Len(t), t[i] = t[j], t[i] # Pong
               PROVE  i = j
    BY DEF Single
  <2>1. CASE i \in 1..Len(s) /\ j \in 1..Len(s)
    BY <1>1, <2>1 DEF Single
  <2>2. CASE i = Len(s) + 1 /\ j # Len(s) + 1
    <3>1. j \in 1..Len(s)
      BY <1>0, <1>1, <2>2
    <3> QED BY <1>1, <1>2, <2>2, <3>1
  <2>3. CASE j = Len(s) + 1 /\ i # Len(s) + 1
    <3>1. i \in 1..Len(s)
      BY <1>0, <1>1, <2>3
    <3> QED BY <1>1, <1>2, <2>3, <3>1
  <2> QED BY <1>0, <1>1, <2>1, <2>2, <2>3
<1>4. ASSUME NEW x PROVE x \in answersIn(t) <=> x \in answersIn(s) \cup ({m} \ {Pong})
  <2>1. (\E i \in 1..Len(t) : x = t[i]) <=> x = m \/ \E i \in 1..Len(s) : x = s[i]
    BY <1>0, <1>1
  <2> QED BY <1>1, <2>1, AnswersOf
<1> QED BY <1>1, <1>3, <1>4 DEF t

LEMMA Joined ==
  ASSUME NEW s \in Seq(Message), NEW t \in Seq(Message), Single(s), Single(t),
         answersIn(s) \cap answersIn(t) = {}
  PROVE  /\ s \o t \in Seq(Message) /\ Single(s \o t)
         /\ answersIn(s \o t) = answersIn(s) \cup answersIn(t)
<1> DEFINE u == s \o t
<1>0. Len(s) \in Nat /\ Len(t) \in Nat
  BY LenProperties
<1>1. /\ u \in Seq(Message) /\ Len(u) = Len(s) + Len(t)
      /\ \A i \in 1..Len(s) + Len(t) : u[i] = IF i <= Len(s) THEN s[i] ELSE t[i - Len(s)]
  BY ConcatProperties
<1> HIDE DEF u
<1>2. \A i \in 1..Len(s), j \in 1..Len(t) : s[i] = t[j] => s[i] = Pong
  BY AnswersOf
<1>3. Single(u)
  <2> SUFFICES ASSUME NEW i \in 1..Len(u), NEW j \in 1..Len(u), u[i] = u[j], u[i] # Pong
               PROVE  i = j
    BY DEF Single
  <2>1. CASE i <= Len(s) /\ j <= Len(s)
    BY <1>0, <1>1, <2>1 DEF Single
  <2>2. CASE i > Len(s) /\ j > Len(s)
    <3>1. i - Len(s) \in 1..Len(t) /\ j - Len(s) \in 1..Len(t)
      BY <1>0, <1>1, <2>2
    <3>2. t[i - Len(s)] = t[j - Len(s)] /\ t[i - Len(s)] # Pong
      BY <1>0, <1>1, <2>2
    <3>3. i - Len(s) = j - Len(s)
      BY <3>1, <3>2 DEF Single
    <3> QED BY <1>0, <1>1, <3>3
  <2>3. CASE i <= Len(s) /\ j > Len(s)
    <3>1. i \in 1..Len(s) /\ j - Len(s) \in 1..Len(t)
      BY <1>0, <1>1, <2>3
    <3>2. u[i] = s[i] /\ u[j] = t[j - Len(s)]
      BY <1>0, <1>1, <2>3
    <3> QED BY <1>2, <3>1, <3>2
  <2>4. CASE j <= Len(s) /\ i > Len(s)
    <3>1. j \in 1..Len(s) /\ i - Len(s) \in 1..Len(t)
      BY <1>0, <1>1, <2>4
    <3>2. u[j] = s[j] /\ u[i] = t[i - Len(s)]
      BY <1>0, <1>1, <2>4
    <3> QED BY <1>2, <3>1, <3>2
  <2> QED BY <1>0, <1>1, <2>1, <2>2, <2>3, <2>4
<1>4. ASSUME NEW x PROVE x \in answersIn(u) <=> x \in answersIn(s) \cup answersIn(t)
  <2>1. ASSUME NEW i \in 1..Len(u) PROVE \/ \E k \in 1..Len(s) : u[i] = s[k]
                                         \/ \E k \in 1..Len(t) : u[i] = t[k]
    <3>1. CASE i <= Len(s)
      BY <1>0, <1>1, <3>1
    <3>2. CASE i > Len(s)
      <4>1. i - Len(s) \in 1..Len(t) /\ u[i] = t[i - Len(s)]
        BY <1>0, <1>1, <3>2
      <4> QED BY <4>1
    <3> QED BY <1>0, <1>1, <3>1, <3>2
  <2>2. ASSUME NEW k \in 1..Len(s) PROVE \E i \in 1..Len(u) : u[i] = s[k]
    BY <1>0, <1>1
  <2>3. ASSUME NEW k \in 1..Len(t) PROVE \E i \in 1..Len(u) : u[i] = t[k]
    <3>1. /\ k + Len(s) \in 1..Len(u) /\ ~(k + Len(s) <= Len(s))
          /\ (k + Len(s)) - Len(s) = k
      BY <1>0, <1>1
    <3> QED BY <1>1, <3>1
  <2>4. (\E i \in 1..Len(u) : x = u[i]) <=>
          (\E k \in 1..Len(s) : x = s[k]) \/ (\E k \in 1..Len(t) : x = t[k])
    BY <2>1, <2>2, <2>3
  <2>5. x \in answersIn(u) <=> x # Pong /\ \E i \in 1..Len(u) : x = u[i]
    BY <1>1, AnswersOf
  <2>6. x \in answersIn(s) <=> x # Pong /\ \E i \in 1..Len(s) : x = s[i]
    BY AnswersOf
  <2>7. x \in answersIn(t) <=> x # Pong /\ \E i \in 1..Len(t) : x = t[i]
    BY AnswersOf
  <2> QED BY <2>4, <2>5, <2>6, <2>7, Zenon
<1> QED BY <1>1, <1>3, <1>4 DEF u

\* A batch with what has left it: each of the answers A once.
Batch == [buf : Seq(Message), out : Seq(Message), timer : BOOLEAN]
BatchOf(b, A) ==
  /\ Single(b.buf) /\ Single(b.out)
  /\ answersIn(b.buf) \cap answersIn(b.out) = {}
  /\ answersIn(b.buf) \cup answersIn(b.out) = A

LEMMA AddType ==
  ASSUME NEW b \in Batch, NEW m \in Message
  PROVE  add(b, m) \in Batch
<1>1. b.buf \in Seq(Message) /\ b.out \in Seq(Message) /\ << >> \in Seq(Message)
  BY NoMessages DEF Batch
<1>2. b.out \o b.buf \in Seq(Message)
  BY <1>1, ConcatProperties
<1> DEFINE over    == Bytes[m] > BatchMaxBytes
           first   == over \/ bytesOf(b.buf) + Bytes[m] > BatchMaxBytes
           rest    == IF first THEN << >> ELSE b.buf
           flushed == IF first THEN b.out \o b.buf ELSE b.out
<1>3. rest \in Seq(Message) /\ flushed \in Seq(Message)
  BY <1>1, <1>2
<1>4. \/ add(b, m) = [buf |-> << >>, out |-> Append(flushed, m), timer |-> FALSE]
      \/ add(b, m) = [buf |-> << >>, out |-> flushed \o Append(rest, m), timer |-> FALSE]
      \/ add(b, m) = [buf |-> Append(rest, m), out |-> flushed, timer |-> TRUE]
  BY Zenon DEF add
<1> HIDE DEF rest, flushed
<1>5. Append(flushed, m) \in Seq(Message) /\ Append(rest, m) \in Seq(Message)
  BY <1>3, AppendProperties
<1>6. flushed \o Append(rest, m) \in Seq(Message)
  BY <1>3, <1>5, ConcatProperties
<1>7. \A s, t \in Seq(Message), v \in BOOLEAN : [buf |-> s, out |-> t, timer |-> v] \in Batch
  BY DEF Batch
<1> HIDE DEF over, first
<1> QED BY <1>1, <1>3, <1>4, <1>5, <1>6, <1>7, Zenon

\* add loses and repeats nothing.
LEMMA AddKeeps ==
  ASSUME NEW b \in Batch, NEW A, BatchOf(b, A), NEW m \in Message, m \notin A
  PROVE  BatchOf(add(b, m), A \cup ({m} \ {Pong}))
<1>1. b.buf \in Seq(Message) /\ b.out \in Seq(Message)
  BY DEF Batch
<1> DEFINE over    == Bytes[m] > BatchMaxBytes
           first   == over \/ bytesOf(b.buf) + Bytes[m] > BatchMaxBytes
           rest    == IF first THEN << >> ELSE b.buf
           flushed == IF first THEN b.out \o b.buf ELSE b.out
<1>2. /\ b.out \o b.buf \in Seq(Message) /\ Single(b.out \o b.buf)
      /\ answersIn(b.out \o b.buf) = A
  <2>1. /\ Single(b.out) /\ Single(b.buf) /\ answersIn(b.out) \cap answersIn(b.buf) = {}
        /\ answersIn(b.out) \cup answersIn(b.buf) = A
    BY DEF BatchOf
  <2> QED BY <1>1, <2>1, Joined
<1>3. /\ rest \in Seq(Message) /\ flushed \in Seq(Message) /\ Single(rest) /\ Single(flushed)
      /\ answersIn(rest) \cap answersIn(flushed) = {}
      /\ answersIn(rest) \cup answersIn(flushed) = A
  <2>1. CASE first
    BY <1>2, <2>1, NoMessages
  <2>2. CASE ~first
    BY <1>1, <2>2 DEF BatchOf
  <2> QED BY <2>1, <2>2
<1>4. \/ /\ add(b, m) = [buf |-> << >>, out |-> Append(flushed, m), timer |-> FALSE]
         /\ rest = << >>
      \/ add(b, m) = [buf |-> << >>, out |-> flushed \o Append(rest, m), timer |-> FALSE]
      \/ add(b, m) = [buf |-> Append(rest, m), out |-> flushed, timer |-> TRUE]
  BY Zenon DEF add
<1> HIDE DEF rest, flushed
<1>5. /\ Append(flushed, m) \in Seq(Message) /\ Single(Append(flushed, m))
      /\ answersIn(Append(flushed, m)) = answersIn(flushed) \cup ({m} \ {Pong})
  BY <1>3, Appended
<1>6. /\ Append(rest, m) \in Seq(Message) /\ Single(Append(rest, m))
      /\ answersIn(Append(rest, m)) = answersIn(rest) \cup ({m} \ {Pong})
  BY <1>3, Appended
<1>7. answersIn(flushed) \cap answersIn(Append(rest, m)) = {}
  BY <1>3, <1>6
<1>8. /\ Single(flushed \o Append(rest, m))
      /\ answersIn(flushed \o Append(rest, m)) = answersIn(flushed) \cup answersIn(Append(rest, m))
  BY <1>3, <1>6, <1>7, Joined
<1> QED
  <2> DEFINE c == add(b, m)
  <2>1. CASE c.buf = << >> /\ c.out = Append(flushed, m) /\ rest = << >>
    BY <1>3, <1>5, <2>1, NoMessages DEF BatchOf
  <2>2. CASE c.buf = << >> /\ c.out = flushed \o Append(rest, m)
    BY <1>3, <1>6, <1>8, <2>2, NoMessages DEF BatchOf
  <2>3. CASE c.buf = Append(rest, m) /\ c.out = flushed
    BY <1>3, <1>6, <1>7, <2>3 DEF BatchOf
  <2> QED BY <1>4, <2>1, <2>2, <2>3

-----------------------------------------------------------------------------
\* trim keeps an end of what is held.
LEMMA TrimIsSuffix ==
  ASSUME NEW T, NEW h \in Seq(T)
  PROVE  \E d \in 0..Len(h) : trim(h) = SubSeq(h, d + 1, Len(h))
<1> DEFINE fits(t) ==
             /\ Len(t) <= MaxHeld
             /\ bytesOf([i \in 1..Len(t) |-> t[i].msg]) <= MaxHeldBytes \/ Len(t) <= 1
           D == {d \in 0..Len(h) : fits(SubSeq(h, d + 1, Len(h)))}
           OK(d) == /\ fits(SubSeq(h, d + 1, Len(h)))
                    /\ \A e \in 0..(d - 1) : ~fits(SubSeq(h, e + 1, Len(h)))
<1>0. Len(h) \in Nat
  BY LenProperties
<1>1. SubSeq(h, Len(h) + 1, Len(h)) = << >>
  BY <1>0, SubSeqEmpty
<1>2. fits(<< >>)
  BY AgentAssumption
<1> HIDE DEF fits
<1>3. Len(h) \in D
  <2>1. Len(h) \in 0..Len(h)
    BY <1>0
  <2> QED BY <1>1, <1>2, <2>1, Zenon
<1>4. D \subseteq Nat /\ D # {}
  BY <1>0, <1>3
<1>5. PICK x \in D : \A y \in D : ~(<<y, x>> \in OpToRel(<, Nat))
  BY <1>4, NatLessThanWellFounded, WFMin
<1>6. OpToRel(<, Nat) = {ss \in Nat \X Nat : ss[1] < ss[2]}
  BY Zenon DEF OpToRel
<1>7. \A y \in D : ~(y < x)
  BY <1>4, <1>5, <1>6
<1>8. x \in 0..Len(h) /\ OK(x)
  <2>1. x \in 0..Len(h) /\ fits(SubSeq(h, x + 1, Len(h)))
    BY <1>5, Zenon
  <2>2. \A e \in 0..(x - 1) : e \in 0..Len(h) /\ e < x
    BY <1>0, <2>1
  <2>3. \A e \in 0..Len(h) : e \notin D => ~fits(SubSeq(h, e + 1, Len(h)))
    BY Zenon
  <2>4. \A e \in 0..(x - 1) : e \notin D
    BY <1>7, <2>2
  <2> HIDE DEF D
  <2> QED BY <2>1, <2>2, <2>3, <2>4, Zenon
<1>9. trim(h) = SubSeq(h, (CHOOSE d \in 0..Len(h) : OK(d)) + 1, Len(h))
  BY Zenon DEF trim, fits
<1> HIDE DEF OK
<1> QED BY <1>8, <1>9

\* hold keeps each answer at most once, and dates the new one.
LEMMA HoldKeeps ==
  ASSUME NEW h \in Seq(Entry), NEW m \in Request, now \in 0..MaxTime
  PROVE  /\ hold(h, m) \in Seq(Entry)
         /\ \A i \in 1..Len(hold(h, m)) :
              \/ hold(h, m)[i] = [msg |-> m, heldAt |-> now]
              \/ \E j \in 1..Len(h) : hold(h, m)[i] = h[j]
         /\ HeldOnce(h) /\ m \notin heldAnswers(h) => HeldOnce(hold(h, m))
<1> DEFINE e == [msg |-> m, heldAt |-> now]
           t == Append(h, e)
<1>0. Len(h) \in Nat /\ e \in Entry /\ e.msg = m
  BY LenProperties DEF Entry
<1> HIDE DEF e
<1>1. /\ t \in Seq(Entry) /\ Len(t) = Len(h) + 1
      /\ \A i \in 1..Len(h) : t[i] = h[i]
      /\ t[Len(h) + 1] = e
  BY <1>0, AppendProperties
<1> HIDE DEF t
<1>2. PICK d \in 0..Len(t) : trim(t) = SubSeq(t, d + 1, Len(t))
  BY <1>1, TrimIsSuffix
<1> DEFINE q == SubSeq(t, d + 1, Len(t))
<1>3. \A i \in 1..Len(t) : t[i] \in Entry
  BY <1>1, ElementOfSeq
<1>4. /\ q \in Seq(Entry) /\ Len(q) = Len(t) - d
      /\ \A i \in 1..Len(t) - d : q[i] = t[d + i]
  BY <1>0, <1>1, <1>3, SubSeqProperties
<1>5. hold(h, m) = q
  BY <1>2, Zenon DEF hold, t, e
<1> HIDE DEF q
<1>6. \A i \in 1..Len(q) : d + i \in 1..Len(t) /\ q[i] = t[d + i]
  BY <1>0, <1>1, <1>4
<1>7. \A i \in 1..Len(t) : t[i] = e \/ \E j \in 1..Len(h) : t[i] = h[j]
  BY <1>0, <1>1
<1>8. ASSUME HeldOnce(h), m \notin heldAnswers(h), NEW i \in 1..Len(t), NEW j \in 1..Len(t),
             t[i].msg = t[j].msg
      PROVE  i = j
  <2>1. \A k \in 1..Len(h) : h[k].msg # m
    BY <1>8 DEF heldAnswers
  <2>2. \A k \in 1..Len(t) : k = Len(h) + 1 \/ (k \in 1..Len(h) /\ t[k] = h[k])
    BY <1>0, <1>1
  <2>3. t[Len(h) + 1].msg = m
    BY <1>0, <1>1
  <2>5. CASE i = Len(h) + 1 \/ j = Len(h) + 1
    BY <1>8, <2>1, <2>2, <2>3, <2>5
  <2>4. CASE i # Len(h) + 1 /\ j # Len(h) + 1
    BY <1>8, <2>2, <2>4 DEF HeldOnce
  <2> QED BY <2>4, <2>5
<1>9. HeldOnce(h) /\ m \notin heldAnswers(h) => HeldOnce(q)
  <2> SUFFICES ASSUME HeldOnce(h), m \notin heldAnswers(h), NEW i \in 1..Len(q), NEW j \in 1..Len(q),
                      q[i].msg = q[j].msg
               PROVE  i = j
    BY DEF HeldOnce
  <2>1. d + i = d + j
    BY <1>6, <1>8
  <2> QED BY <1>0, <1>1, <2>1
<1> QED BY <1>4, <1>5, <1>6, <1>7, <1>9 DEF e

\* FoldLeft goes through a sequence from its first element to its last.
LEMMA InitialIndices ==
  ASSUME NEW n \in Nat \ {0}
  PROVE  /\ 1..n # {} /\ Max(1..n) = n /\ (1..n) \ {n} = 1..n - 1
         /\ 1..n - 1 \in SUBSET (1..n)
<1>1. Max(1..n) = n
  <2>1. n - 1 \in Nat /\ (n - 1) + 1 = n
    OBVIOUS
  <2>2. Max(1..(n - 1) + 1) = (n - 1) + 1
    BY <2>1, MaxIsLast, SMTT(60)
  <2> QED BY <2>1, <2>2
<1> QED BY <1>1

\* holdAll, message by message.
LEMMA HolderSteps ==
  ASSUME NEW h \in Seq(Entry), NEW s \in Seq(Message), now \in 0..MaxTime
  PROVE  /\ Holder(h, s)[1..0] = h
         /\ \A n \in 1..Len(s) :
              Holder(h, s)[1..n] =
                IF s[n] = Pong THEN Holder(h, s)[1..n - 1] ELSE hold(Holder(h, s)[1..n - 1], s[n])
         /\ holdAll(h, s) = Holder(h, s)[1..Len(s)]
<1> DEFINE N == Len(s)
           V == Seq(Entry)
           F == [p \in (1..N) \X V |-> IF s[p[1]] = Pong THEN p[2] ELSE hold(p[2], s[p[1]])]
<1>0. N \in Nat /\ DOMAIN s = 1..N /\ \A i \in 1..N : s[i] \in Message
  BY LenProperties, ElementOfSeq
<1> HIDE DEF N
<1>1. F \in [(1..N) \X V -> V]
  BY <1>0, HoldKeeps DEF Message
<1>2. \A i \in 1..N, v \in V : F[<<i, v>>] = IF s[i] = Pong THEN v ELSE hold(v, s[i])
  OBVIOUS
<1> HIDE DEF F, V
<1>3. h \in V
  BY DEF V
<1>4. \A S \in SUBSET (1..N) : S # {} => Max(S) \in 1..N
  BY <1>0, <1>1, <1>3, FoldExists
<1>5. PICK g \in [SUBSET (1..N) -> V] : FoldSteps(F, h, N, g)
  BY <1>0, <1>1, <1>3, FoldExists
<1>6. ASSUME NEW S \in SUBSET (1..N) PROVE g[S] = HoldStep(h, s, g, S)
  <2>1. g[S] = IF S = {} THEN h ELSE F[<<Max(S), g[S \ {Max(S)}]>>]
    BY <1>5 DEF FoldSteps
  <2>2. CASE S = {}
    BY <2>1, <2>2 DEF HoldStep
  <2>3. CASE S # {}
    <3>1. Max(S) \in 1..N /\ g[S \ {Max(S)}] \in V
      BY <1>4, <1>5, <2>3
    <3> QED BY <1>2, <2>1, <2>3, <3>1 DEF HoldStep
  <2> QED BY <2>2, <2>3
<1>7. g = [S \in SUBSET DOMAIN s |-> HoldStep(h, s, g, S)]
  BY <1>0, <1>6
<1>8. Holds(h, s, g)
  BY <1>7 DEF Holds
<1>9. Holds(h, s, Holder(h, s))
  BY <1>8 DEF Holder
<1> DEFINE k == Holder(h, s)
<1> HIDE DEF k
<1>10. \A S \in SUBSET (1..N) : k[S] = HoldStep(h, s, k, S)
  <2>1. k = [S \in SUBSET DOMAIN s |-> HoldStep(h, s, k, S)]
    BY <1>9 DEF Holds, k
  <2> QED BY <1>0, <2>1, Zenon
<1>11. k[1..0] = h
  <2>1. 1..0 = {} /\ {} \in SUBSET (1..N)
    OBVIOUS
  <2>2. k[{}] = HoldStep(h, s, k, {})
    BY <1>10, <2>1
  <2> QED BY <2>1, <2>2, Zenon DEF HoldStep
<1>12. ASSUME NEW n \in 1..N
       PROVE  k[1..n] = IF s[n] = Pong THEN k[1..n - 1] ELSE hold(k[1..n - 1], s[n])
  <2>1. n \in Nat \ {0} /\ 1..n \in SUBSET (1..N)
    BY <1>0
  <2>2. 1..n # {} /\ Max(1..n) = n /\ (1..n) \ {n} = 1..n - 1
    BY <2>1, InitialIndices
  <2>3. k[1..n] = HoldStep(h, s, k, 1..n)
    BY <1>10, <2>1
  <2> QED BY <2>2, <2>3, Zenon DEF HoldStep
<1> QED BY <1>0, <1>11, <1>12, HoldAllIsLast DEF k, N

\* What is held after holdAll was held before or is one of the messages.
LEMMA HoldAllKeeps ==
  ASSUME NEW h \in Seq(Entry), NEW s \in Seq(Message), now \in 0..MaxTime,
         HeldOnce(h), Single(s), answersIn(s) \cap heldAnswers(h) = {}
  PROVE  /\ holdAll(h, s) \in Seq(Entry)
         /\ HeldOnce(holdAll(h, s))
         /\ \A i \in 1..Len(holdAll(h, s)) :
              \/ holdAll(h, s)[i].heldAt = now /\ holdAll(h, s)[i].msg \in answersIn(s)
              \/ \E j \in 1..Len(h) : holdAll(h, s)[i] = h[j]
<1> DEFINE N == Len(s)
           k(n) == Holder(h, s)[1..n]
           From(n) == \A i \in 1..Len(k(n)) :
                         \/ k(n)[i].heldAt = now /\ \E l \in 1..n : k(n)[i].msg = s[l] /\ s[l] # Pong
                         \/ \E j \in 1..Len(h) : k(n)[i] = h[j]
           Good(n) == k(n) \in Seq(Entry) /\ HeldOnce(k(n)) /\ From(n)
           Fine == {n \in Nat : n =< N => Good(n)}
<1>0. N \in Nat /\ \A i \in 1..N : s[i] \in Message
  BY LenProperties, ElementOfSeq
<1>1. /\ k(0) = h
      /\ \A n \in 1..N : k(n) = IF s[n] = Pong THEN k(n - 1) ELSE hold(k(n - 1), s[n])
      /\ holdAll(h, s) = k(N)
  BY HolderSteps
<1> HIDE DEF N, k
<1>2. 0 \in Fine
  BY <1>1
<1>3. ASSUME NEW n \in Nat, n \in Fine PROVE n + 1 \in Fine
  <2> SUFFICES ASSUME n + 1 =< N PROVE Good(n + 1)
    OBVIOUS
  <2>0. n + 1 \in 1..N /\ (n + 1) - 1 = n /\ Good(n)
    BY <1>0, <1>3
  <2>1. k(n + 1) = IF s[n + 1] = Pong THEN k(n) ELSE hold(k(n), s[n + 1])
    BY <1>1, <2>0
  <2>2. CASE s[n + 1] = Pong
    <3>1. k(n + 1) = k(n)
      BY <2>1, <2>2
    <3>2. From(n + 1)
      BY <2>0, <3>1
    <3> QED BY <2>0, <3>1, <3>2
  <2>3. CASE s[n + 1] # Pong
    <3> DEFINE m == s[n + 1]
    <3>1. m \in Request /\ k(n + 1) = hold(k(n), m)
      BY <1>0, <2>0, <2>1, <2>3 DEF Message
    <3>2. m \in answersIn(s)
      BY <2>0, <2>3, AnswersOf DEF N
    <3>3. m \notin heldAnswers(k(n))
      <4> SUFFICES ASSUME NEW i \in 1..Len(k(n)), k(n)[i].msg = m PROVE FALSE
        BY DEF heldAnswers
      <4>1. \A j \in 1..Len(h) : h[j].msg # m
        BY <3>2 DEF heldAnswers
      <4>2. ASSUME NEW l \in 1..n, s[l] = m PROVE FALSE
        <5>1. l \in 1..N /\ l # n + 1
          BY <1>0, <2>0
        <5>2. s[l] = s[n + 1] /\ s[l] # Pong
          BY <2>3, <4>2 DEF m
        <5> QED BY <2>0, <5>1, <5>2 DEF Single, N
      <4> QED BY <2>0, <4>1, <4>2
    <3> HIDE DEF m
    <3>4. /\ k(n + 1) \in Seq(Entry)
          /\ \A i \in 1..Len(k(n + 1)) :
               \/ k(n + 1)[i] = [msg |-> m, heldAt |-> now]
               \/ \E j \in 1..Len(k(n)) : k(n + 1)[i] = k(n)[j]
          /\ HeldOnce(k(n + 1))
      BY <2>0, <3>1, <3>3, HoldKeeps
    <3>5. From(n + 1)
      <4> SUFFICES ASSUME NEW i \in 1..Len(k(n + 1))
                   PROVE  \/ /\ k(n + 1)[i].heldAt = now
                             /\ \E l \in 1..n + 1 : k(n + 1)[i].msg = s[l] /\ s[l] # Pong
                          \/ \E j \in 1..Len(h) : k(n + 1)[i] = h[j]
        OBVIOUS
      <4>1. CASE k(n + 1)[i] = [msg |-> m, heldAt |-> now]
        <5>1. k(n + 1)[i].heldAt = now /\ k(n + 1)[i].msg = m
          BY <4>1
        <5> QED BY <2>0, <2>3, <5>1 DEF m
      <4>2. CASE \E j \in 1..Len(k(n)) : k(n + 1)[i] = k(n)[j]
        <5>1. \A l \in 1..n : l \in 1..n + 1
          OBVIOUS
        <5> QED BY <2>0, <4>2, <5>1
      <4> QED BY <3>4, <4>1, <4>2
    <3> QED BY <3>4, <3>5
  <2> QED BY <2>2, <2>3
<1>4. N \in Fine
  <2> HIDE DEF Fine
  <2> QED BY <1>0, <1>2, <1>3, NatSetInduction
<1>5. Good(N)
  BY <1>0, <1>4
<1> QED BY <1>0, <1>1, <1>5, AnswersOf DEF N

\* sendHeldResponses, entry by entry.
LEMMA AdderSteps ==
  ASSUME held \in Seq(Entry), buffer \in Seq(Message), batchTimer \in BOOLEAN
  PROVE  /\ Adder[1..0] = batch
         /\ \A n \in 1..Len(held) :
              Adder[1..n] =
                IF expired(held[n]) THEN Adder[1..n - 1] ELSE add(Adder[1..n - 1], held[n].msg)
         /\ sendHeldResponses = Adder[1..Len(held)]
<1> DEFINE N == Len(held)
           F == [p \in (1..N) \X Batch |->
                   IF expired(held[p[1]]) THEN p[2] ELSE add(p[2], held[p[1]].msg)]
<1>0. N \in Nat /\ DOMAIN held = 1..N /\ \A i \in 1..N : held[i].msg \in Message
  <2>1. N \in Nat /\ DOMAIN held = 1..N /\ \A i \in 1..N : held[i] \in Entry
    BY LenProperties, ElementOfSeq
  <2> QED BY <2>1 DEF Entry, Message
<1> HIDE DEF N
<1>1. F \in [(1..N) \X Batch -> Batch]
  <2>1. ASSUME NEW i \in 1..N, NEW v \in Batch PROVE add(v, held[i].msg) \in Batch
    BY <1>0, AddType
  <2> QED BY <2>1
<1>2. \A i \in 1..N, v \in Batch :
        F[<<i, v>>] = IF expired(held[i]) THEN v ELSE add(v, held[i].msg)
  OBVIOUS
<1> HIDE DEF F
<1>3. batch \in Batch
  BY NoMessages DEF batch, Batch
<1>4. \A S \in SUBSET (1..N) : S # {} => Max(S) \in 1..N
  BY <1>0, <1>1, <1>3, FoldExists
<1>5. PICK g \in [SUBSET (1..N) -> Batch] : FoldSteps(F, batch, N, g)
  BY <1>0, <1>1, <1>3, FoldExists
<1>6. ASSUME NEW S \in SUBSET (1..N) PROVE g[S] = AddStep(g, S)
  <2>1. g[S] = IF S = {} THEN batch ELSE F[<<Max(S), g[S \ {Max(S)}]>>]
    BY <1>5 DEF FoldSteps
  <2>2. CASE S = {}
    BY <2>1, <2>2 DEF AddStep
  <2>3. CASE S # {}
    <3>1. Max(S) \in 1..N /\ g[S \ {Max(S)}] \in Batch
      BY <1>4, <1>5, <2>3
    <3> QED BY <1>2, <2>1, <2>3, <3>1 DEF AddStep
  <2> QED BY <2>2, <2>3
<1>7. g = [S \in SUBSET DOMAIN held |-> AddStep(g, S)]
  BY <1>0, <1>6
<1>8. Adds(g)
  BY <1>7 DEF Adds
<1>9. Adds(Adder)
  BY <1>8 DEF Adder
<1> DEFINE k == Adder
<1> HIDE DEF k
<1>10. \A S \in SUBSET (1..N) : k[S] = AddStep(k, S)
  <2>1. k = [S \in SUBSET DOMAIN held |-> AddStep(k, S)]
    BY <1>9 DEF Adds, k
  <2> QED BY <1>0, <2>1, Zenon
<1>11. k[1..0] = batch
  <2>1. 1..0 = {} /\ {} \in SUBSET (1..N)
    OBVIOUS
  <2>2. k[{}] = AddStep(k, {})
    BY <1>10, <2>1
  <2> QED BY <2>1, <2>2, Zenon DEF AddStep
<1>12. ASSUME NEW n \in 1..N
       PROVE  k[1..n] = IF expired(held[n]) THEN k[1..n - 1] ELSE add(k[1..n - 1], held[n].msg)
  <2>1. n \in Nat \ {0} /\ 1..n \in SUBSET (1..N)
    BY <1>0
  <2>2. 1..n # {} /\ Max(1..n) = n /\ (1..n) \ {n} = 1..n - 1
    BY <2>1, InitialIndices
  <2>3. k[1..n] = AddStep(k, 1..n)
    BY <1>10, <2>1
  <2> QED BY <2>2, <2>3, Zenon DEF AddStep
<1> QED BY <1>0, <1>11, <1>12, AddAllIsLast DEF k, N

\* The held answers that are not too old go through the batch, each once.
LEMMA SendHeldKeeps ==
  ASSUME held \in Seq(Entry), buffer \in Seq(Message), batchTimer \in BOOLEAN,
         Single(buffer), HeldOnce(held), answersIn(buffer) \cap heldAnswers(held) = {}
  PROVE  /\ sendHeldResponses \in Batch
         /\ BatchOf(sendHeldResponses, answersIn(buffer) \cup (heldAnswers(held) \ tooOld))
<1> DEFINE N == Len(held)
           k(n) == Adder[1..n]
           Fresh(n) == {held[i].msg : i \in {l \in 1..n : ~expired(held[l])}}
           Good(n) == k(n) \in Batch /\ BatchOf(k(n), answersIn(buffer) \cup Fresh(n))
           Fine == {n \in Nat : n =< N => Good(n)}
<1>0. N \in Nat /\ DOMAIN held = 1..N /\ \A i \in 1..N : held[i].msg \in Request
  <2>1. N \in Nat /\ DOMAIN held = 1..N /\ \A i \in 1..N : held[i] \in Entry
    BY LenProperties, ElementOfSeq
  <2> QED BY <2>1 DEF Entry
<1>1. /\ k(0) = batch
      /\ \A n \in 1..N : k(n) = IF expired(held[n]) THEN k(n - 1) ELSE add(k(n - 1), held[n].msg)
      /\ sendHeldResponses = k(N)
  BY AdderSteps
<1> HIDE DEF N, k
<1>2. 0 \in Fine
  <2>0. batch \in Batch /\ BatchOf(batch, answersIn(buffer))
    BY NoMessages DEF batch, Batch, BatchOf
  <2>1. k(0) \in Batch
    BY <1>1, <2>0, Zenon
  <2>2. BatchOf(k(0), answersIn(buffer))
    BY <1>1, <2>0, Zenon
  <2>3. Fresh(0) = {}
    OBVIOUS
  <2> QED BY <2>1, <2>2, <2>3
<1>3. ASSUME NEW n \in Nat, n \in Fine PROVE n + 1 \in Fine
  <2> SUFFICES ASSUME n + 1 =< N PROVE Good(n + 1)
    OBVIOUS
  <2>0. n + 1 \in 1..N /\ (n + 1) - 1 = n /\ Good(n)
    BY <1>0, <1>3
  <2> DEFINE m == held[n + 1].msg
  <2>1. k(n + 1) = IF expired(held[n + 1]) THEN k(n) ELSE add(k(n), m)
    BY <1>1, <2>0
  <2>2. 1..n + 1 = (1..n) \cup {n + 1}
    OBVIOUS
  <2>3. CASE expired(held[n + 1])
    <3>1. Fresh(n + 1) = Fresh(n)
      BY <2>2, <2>3
    <3> HIDE DEF Fresh
    <3> QED BY <2>0, <2>1, <2>3, <3>1
  <2>4. CASE ~expired(held[n + 1])
    <3>1. Fresh(n + 1) = Fresh(n) \cup {m}
      BY <2>2, <2>4
    <3>2. m \in Request /\ m \in heldAnswers(held)
      BY <1>0, <2>0 DEF heldAnswers, N
    <3>3. \A l \in 1..n : held[l].msg # m
      <4> SUFFICES ASSUME NEW l \in 1..n, held[l].msg = m PROVE FALSE
        OBVIOUS
      <4>1. l \in 1..N /\ l # n + 1
        BY <1>0, <2>0
      <4> QED BY <2>0, <4>1 DEF HeldOnce, N
    <3>4. m \notin answersIn(buffer) \cup Fresh(n)
      BY <3>2, <3>3
    <3>5. m \in Message /\ m # Pong
      BY <3>2, AgentAssumption DEF Message
    <3> HIDE DEF Fresh, m
    <3>6. k(n) \in Batch /\ BatchOf(k(n), answersIn(buffer) \cup Fresh(n))
      BY <2>0
    <3>7. BatchOf(add(k(n), m), (answersIn(buffer) \cup Fresh(n)) \cup ({m} \ {Pong}))
      BY <3>4, <3>5, <3>6, AddKeeps
    <3>8. (answersIn(buffer) \cup Fresh(n)) \cup ({m} \ {Pong}) = answersIn(buffer) \cup Fresh(n + 1)
      BY <3>1, <3>5
    <3>9. add(k(n), m) \in Batch
      BY <3>5, <3>6, AddType
    <3> QED BY <2>1, <2>4, <3>7, <3>8, <3>9
  <2> QED BY <2>3, <2>4
<1>4. N \in Fine
  <2> HIDE DEF Fine
  <2> QED BY <1>0, <1>2, <1>3, NatSetInduction
<1>5. Good(N)
  <2> HIDE DEF Good
  <2> QED BY <1>0, <1>4
<1>6. Fresh(N) = heldAnswers(held) \ tooOld
  <2>1. \A i, j \in 1..N : held[i].msg = held[j].msg => i = j
    BY DEF HeldOnce, N
  <2>2. tooOld = {held[i].msg : i \in {l \in 1..N : expired(held[l])}}
    BY <1>0 DEF tooOld, ToSet
  <2>3. heldAnswers(held) = {held[i].msg : i \in 1..N}
    BY DEF heldAnswers, N
  <2> QED BY <2>1, <2>2, <2>3
<1> QED BY <1>1, <1>5, <1>6

-----------------------------------------------------------------------------
Gone == {r \in Request : fate[r] # "none"}
Forwarded == {r \in Request : at[r] # Never}
Fate == {"none", "sent", "lost", "expired", "crowded", "stopped"}

AnswersType ==
  /\ now \in 0..MaxTime
  /\ at \in [Request -> 0..MaxTime \cup {Never}]
  /\ serving \in SUBSET Request
  /\ buffer \in Seq(Message)
  /\ batchTimer \in BOOLEAN
  /\ held \in Seq(Entry)
  /\ fate \in [Request -> Fate]

\* A request that was forwarded, and no other, is in one place, and there once.
InOnePlace ==
  /\ Single(buffer) /\ HeldOnce(held)
  /\ serving \cap answersIn(buffer) = {}
  /\ (serving \cup answersIn(buffer)) \cap (heldAnswers(held) \cup Gone) = {}
  /\ heldAnswers(held) \cap Gone = {}
  /\ serving \cup answersIn(buffer) \cup heldAnswers(held) \cup Gone = Forwarded

\* An answer is held after its request was forwarded.
HeldSince ==
  /\ \A r \in Request : at[r] =< now
  /\ \A i \in 1..Len(held) : at[held[i].msg] =< held[i].heldAt /\ held[i].heldAt =< now
  /\ DropsOnlyGivenUp

AnswersInv == AnswersType /\ InOnePlace /\ HeldSince

\* Answers end one way.
LEMMA FateEnds ==
  ASSUME fate \in [Request -> Fate], NEW A \in SUBSET Request, NEW how \in Fate \ {"none"},
         fate' = ended(fate, A, how)
  PROVE  /\ fate' \in [Request -> Fate] /\ Gone' = Gone \cup A
         /\ how # "expired" => \A r \in Request : fate'[r] = "expired" => fate[r] = "expired"
BY DEF ended, Gone, Fate

\* Messages that leave the batch are written, or held, or end.
LEMMA SendBatchKeeps ==
  ASSUME AnswersType, HeldOnce(held), heldAnswers(held) \cap Gone = {},
         NEW s \in Seq(Message), Single(s), answersIn(s) \cap (heldAnswers(held) \cup Gone) = {},
         NEW st, sendBatch(s, st)
  PROVE  /\ held' \in Seq(Entry) /\ HeldOnce(held') /\ fate' \in [Request -> Fate]
         /\ heldAnswers(held') \cap Gone' = {}
         /\ heldAnswers(held') \cup Gone' = heldAnswers(held) \cup Gone \cup answersIn(s)
         /\ \A i \in 1..Len(held') :
              \/ held'[i].heldAt = now /\ held'[i].msg \in answersIn(s)
              \/ \E j \in 1..Len(held) : held'[i] = held[j]
         /\ \A r \in Request : fate'[r] = "expired" => fate[r] = "expired"
<1>0. answersIn(s) \subseteq Request /\ heldAnswers(held) \subseteq Request
  <2>1. \A i \in 1..Len(held) : held[i] \in Entry
    BY ElementOfSeq DEF AnswersType
  <2> QED BY <2>1, AnswersOf DEF heldAnswers, Entry
<1>1. CASE st = "CONNECTED"
  <2>1. held' = held /\ fate' = sendRaw(fate, s)
    BY <1>1 DEF sendBatch
  <2>2. PICK how \in {"sent", "stopped", "lost"} : fate' = ended(fate, answersIn(s), how)
    BY <2>1 DEF sendRaw
  <2>3. /\ fate' \in [Request -> Fate] /\ Gone' = Gone \cup answersIn(s)
        /\ \A r \in Request : fate'[r] = "expired" => fate[r] = "expired"
    BY <1>0, <2>2, FateEnds DEF AnswersType, Fate
  <2> QED BY <2>1, <2>3 DEF AnswersType
<1>2. CASE st # "CONNECTED"
  <2> DEFINE A == (heldAnswers(held) \cup answersIn(s)) \ heldAnswers(held')
  <2>1. held' = holdAll(held, s) /\ fate' = ended(fate, A, "crowded")
    BY <1>2 DEF sendBatch
  <2>2. A \subseteq Request
    BY <1>0
  <2> HIDE DEF A
  <2>3. /\ fate' \in [Request -> Fate] /\ Gone' = Gone \cup A
        /\ \A r \in Request : fate'[r] = "expired" => fate[r] = "expired"
    BY <2>1, <2>2, FateEnds DEF AnswersType, Fate
  <2>4. /\ held' \in Seq(Entry) /\ HeldOnce(held')
        /\ \A i \in 1..Len(held') :
              \/ held'[i].heldAt = now /\ held'[i].msg \in answersIn(s)
              \/ \E j \in 1..Len(held) : held'[i] = held[j]
    BY <2>1, HoldAllKeeps DEF AnswersType
  <2>5. heldAnswers(held') \subseteq heldAnswers(held) \cup answersIn(s)
    BY <2>4 DEF heldAnswers
  <2> QED BY <2>3, <2>4, <2>5 DEF A
<1> QED BY <1>1, <1>2

\* Answers move on through the batch.
LEMMA BatchSent ==
  ASSUME AnswersInv, NEW b \in Batch, NEW A, BatchOf(b, A), NEW st, sendBatch(b.out, st),
         buffer' = b.buf, batchTimer' = b.timer, UNCHANGED <<at, now>>,
         serving' \subseteq Request, serving' \cap A = {},
         serving' \cup A = serving \cup answersIn(buffer)
  PROVE  AnswersInv'
<1>1. /\ b.buf \in Seq(Message) /\ b.out \in Seq(Message) /\ b.timer \in BOOLEAN
      /\ Single(b.buf) /\ Single(b.out) /\ answersIn(b.buf) \cap answersIn(b.out) = {}
      /\ answersIn(b.buf) \cup answersIn(b.out) = A
  BY DEF Batch, BatchOf
<1>2. A \cap (heldAnswers(held) \cup Gone) = {}
  BY DEF AnswersInv, InOnePlace
<1>3. /\ held' \in Seq(Entry) /\ HeldOnce(held') /\ fate' \in [Request -> Fate]
      /\ heldAnswers(held') \cap Gone' = {}
      /\ heldAnswers(held') \cup Gone' = heldAnswers(held) \cup Gone \cup answersIn(b.out)
      /\ \A i \in 1..Len(held') :
           \/ held'[i].heldAt = now /\ held'[i].msg \in answersIn(b.out)
           \/ \E j \in 1..Len(held) : held'[i] = held[j]
      /\ \A r \in Request : fate'[r] = "expired" => fate[r] = "expired"
  BY <1>1, <1>2, SendBatchKeeps DEF AnswersInv, InOnePlace
<1>4. AnswersType'
  BY <1>1, <1>3 DEF AnswersInv, AnswersType
<1>5. InOnePlace'
  <2>1. Forwarded' = Forwarded
    BY DEF Forwarded
  <2>2. /\ serving \cap answersIn(buffer) = {}
        /\ (serving \cup answersIn(buffer)) \cap (heldAnswers(held) \cup Gone) = {}
        /\ heldAnswers(held) \cap Gone = {}
        /\ serving \cup answersIn(buffer) \cup heldAnswers(held) \cup Gone = Forwarded
    BY DEF AnswersInv, InOnePlace
  <2>3. Single(buffer') /\ answersIn(buffer') = answersIn(b.buf)
    BY <1>1
  <2>4. serving' \cap answersIn(buffer') = {}
    BY <1>1, <2>3
  <2>5. (serving' \cup answersIn(buffer')) \cap (heldAnswers(held') \cup Gone') = {}
    BY <1>1, <1>2, <1>3, <2>2, <2>3
  <2>6. serving' \cup answersIn(buffer') \cup heldAnswers(held') \cup Gone' = Forwarded'
    BY <1>1, <1>3, <2>1, <2>2, <2>3
  <2> QED BY <1>3, <2>3, <2>4, <2>5, <2>6 DEF InOnePlace
<1>6. HeldSince'
  <2>1. /\ \A r \in Request : at'[r] =< now'
        /\ DropsOnlyGivenUp'
    BY <1>3 DEF AnswersInv, HeldSince, DropsOnlyGivenUp
  <2>2. ASSUME NEW i \in 1..Len(held')
        PROVE  at[held'[i].msg] =< held'[i].heldAt /\ held'[i].heldAt =< now
    <3>1. CASE held'[i].heldAt = now /\ held'[i].msg \in answersIn(b.out)
      <4>1. held'[i].msg \in Request
        BY <1>1, <3>1, AnswersOf
      <4> QED BY <3>1, <4>1 DEF AnswersInv, AnswersType, HeldSince
    <3>2. CASE \E j \in 1..Len(held) : held'[i] = held[j]
      BY <3>2 DEF AnswersInv, HeldSince
    <3> QED BY <1>3, <3>1, <3>2
  <2> QED BY <2>1, <2>2 DEF HeldSince
<1> QED BY <1>4, <1>5, <1>6 DEF AnswersInv

\* The timer of the batch, and the link's close: the batch is emptied.
LEMMA FlushStep ==
  ASSUME AnswersInv, NEW st, sendBatch(buffer, st), buffer' = << >>, batchTimer' = FALSE,
         UNCHANGED <<now, at, serving>>
  PROVE  AnswersInv'
<1> DEFINE b == [buf |-> << >>, out |-> buffer, timer |-> FALSE]
<1>1. /\ b \in Batch /\ BatchOf(b, answersIn(buffer))
      /\ b.out = buffer /\ b.buf = << >> /\ b.timer = FALSE
  BY NoMessages DEF Batch, BatchOf, AnswersInv, AnswersType, InOnePlace
<1>2. serving \cap answersIn(buffer) = {} /\ serving \subseteq Request
  BY DEF AnswersInv, AnswersType, InOnePlace
<1> HIDE DEF b
<1> QED BY <1>1, <1>2, BatchSent

\* An answer of the local backend, or a pong, goes into the batch.
LEMMA MessageAdded ==
  ASSUME AnswersInv, NEW m \in Message, m \in serving \cup {Pong}, addMessage(m),
         serving' = serving \ {m}, UNCHANGED <<now, at>>
  PROVE  AnswersInv'
<1> DEFINE b == add(batch, m)
           A == answersIn(buffer) \cup ({m} \ {Pong})
<1>0. /\ buffer \in Seq(Message) /\ batchTimer \in BOOLEAN /\ serving \subseteq Request
      /\ Single(buffer) /\ serving \cap answersIn(buffer) = {}
  BY DEF AnswersInv, AnswersType, InOnePlace
<1>1. batch \in Batch /\ BatchOf(batch, answersIn(buffer))
  BY <1>0, NoMessages DEF batch, Batch, BatchOf
<1>2. m \notin answersIn(buffer)
  BY <1>0 DEF answersIn
<1>3. b \in Batch /\ BatchOf(b, A)
  BY <1>1, <1>2, AddType, AddKeeps
<1>4. buffer' = b.buf /\ batchTimer' = b.timer /\ sendBatch(b.out, state)
  BY DEF addMessage
<1>5. Pong \notin serving
  BY <1>0, AgentAssumption
<1>6. serving' \subseteq Request /\ serving' \cap A = {} /\ serving' \cup A = serving \cup answersIn(buffer)
  BY <1>0, <1>5
<1> HIDE DEF b, A
<1> QED BY <1>3, <1>4, <1>6, BatchSent

\* stop() gives up what is buffered or held.
LEMMA StopDrops == ASSUME AnswersInv, stop PROVE AnswersInv'
<1>0. /\ UNCHANGED <<at, now, serving>> /\ buffer' = << >> /\ batchTimer' = FALSE /\ held' = << >>
      /\ fate' = ended(fate, answersIn(buffer) \cup heldAnswers(held), "stopped")
  BY DEF stop
<1>1. answersIn(buffer) \cup heldAnswers(held) \subseteq Request
  <2>1. \A i \in 1..Len(held) : held[i] \in Entry
    BY ElementOfSeq DEF AnswersInv, AnswersType
  <2> QED BY <2>1, AnswersOf DEF AnswersInv, AnswersType, heldAnswers, Entry
<1>2. /\ fate' \in [Request -> Fate] /\ Gone' = Gone \cup (answersIn(buffer) \cup heldAnswers(held))
      /\ \A r \in Request : fate'[r] = "expired" => fate[r] = "expired"
  BY <1>0, <1>1, FateEnds DEF AnswersInv, AnswersType, Fate
<1>3. answersIn(buffer') = {} /\ Single(buffer') /\ buffer' \in Seq(Message)
  BY <1>0, NoMessages
<1>4. heldAnswers(held') = {} /\ HeldOnce(held') /\ held' \in Seq(Entry) /\ 1..Len(held') = {}
  BY <1>0 DEF heldAnswers, HeldOnce
<1>5. AnswersType'
  BY <1>0, <1>2, <1>3, <1>4 DEF AnswersInv, AnswersType
<1>6. InOnePlace'
  <2>1. Forwarded' = Forwarded
    BY <1>0 DEF Forwarded
  <2>2. /\ serving \cap answersIn(buffer) = {}
        /\ (serving \cup answersIn(buffer)) \cap (heldAnswers(held) \cup Gone) = {}
        /\ serving \cup answersIn(buffer) \cup heldAnswers(held) \cup Gone = Forwarded
    BY DEF AnswersInv, InOnePlace
  <2>3. (serving' \cup answersIn(buffer')) \cap (heldAnswers(held') \cup Gone') = {}
    BY <1>0, <1>2, <1>3, <1>4, <2>2
  <2>4. serving' \cup answersIn(buffer') \cup heldAnswers(held') \cup Gone' = Forwarded'
    BY <1>0, <1>2, <1>3, <1>4, <2>1, <2>2
  <2> QED BY <1>3, <1>4, <2>3, <2>4 DEF InOnePlace
<1>7. HeldSince'
  BY <1>0, <1>2, <1>4 DEF AnswersInv, HeldSince, DropsOnlyGivenUp
<1> QED BY <1>5, <1>6, <1>7 DEF AnswersInv

\* The agent has registered again: held answers go on, and old ones are dropped.
LEMMA RegisteredStep ==
  ASSUME AnswersInv, NEW k \in Link, OnRegistered(k)
  PROVE  AnswersInv'
<1> DEFINE b == sendHeldResponses
           H == heldAnswers(held)
           O == answersIn(b.out)
<1>0. /\ UNCHANGED <<at, now, serving>> /\ held' = << >>
      /\ buffer' = b.buf /\ batchTimer' = b.timer
      /\ fate' = sendRaw(ended(fate, tooOld, "expired"), b.out)
  BY DEF OnRegistered
<1>1. /\ held \in Seq(Entry) /\ buffer \in Seq(Message) /\ batchTimer \in BOOLEAN
      /\ Single(buffer) /\ HeldOnce(held) /\ fate \in [Request -> Fate] /\ now \in 0..MaxTime
      /\ serving \subseteq Request /\ at \in [Request -> 0..MaxTime \cup {Never}]
      /\ serving \cap answersIn(buffer) = {}
      /\ (serving \cup answersIn(buffer)) \cap (H \cup Gone) = {}
      /\ H \cap Gone = {}
      /\ serving \cup answersIn(buffer) \cup H \cup Gone = Forwarded
  BY DEF AnswersInv, AnswersType, InOnePlace
<1>2. b \in Batch /\ BatchOf(b, answersIn(buffer) \cup (H \ tooOld))
  BY <1>1, SendHeldKeeps
<1> HIDE DEF b
<1>3. /\ b.buf \in Seq(Message) /\ b.out \in Seq(Message) /\ b.timer \in BOOLEAN
      /\ Single(b.buf) /\ answersIn(b.buf) \cap O = {}
      /\ answersIn(b.buf) \cup O = answersIn(buffer) \cup (H \ tooOld)
  BY <1>2 DEF Batch, BatchOf
<1>4. \A i \in 1..Len(held) : held[i] \in Entry /\ held[i].msg \in Request /\ held[i].heldAt \in 0..MaxTime
  <2>1. \A i \in 1..Len(held) : held[i] \in Entry
    BY <1>1, ElementOfSeq
  <2> QED BY <2>1 DEF Entry
<1>5. DOMAIN held = 1..Len(held)
  BY <1>1, LenProperties
<1>6. tooOld \subseteq H /\ H \subseteq Request
  BY <1>4, <1>5 DEF tooOld, ToSet, heldAnswers
<1>7. O \subseteq Request
  BY <1>3, AnswersOf
<1>8. PICK how \in {"sent", "stopped", "lost"} :
        fate' = ended(ended(fate, tooOld, "expired"), O, how)
  BY <1>0 DEF sendRaw
<1>9. \A r \in Request :
        fate'[r] = IF r \in O THEN how ELSE IF r \in tooOld THEN "expired" ELSE fate[r]
  BY <1>8 DEF ended
<1> HIDE DEF O, H
<1>10. fate' \in [Request -> Fate]
  <2>1. \A r \in Request : fate[r] \in Fate
    BY <1>1
  <2>2. DOMAIN fate' = Request /\ fate' = [r \in Request |-> fate'[r]]
    BY <1>8 DEF ended
  <2> QED BY <1>9, <2>1, <2>2 DEF Fate
<1>11. Gone' = Gone \cup tooOld \cup O
  BY <1>6, <1>7, <1>9 DEF Gone
<1>12. heldAnswers(held') = {} /\ HeldOnce(held') /\ held' \in Seq(Entry) /\ 1..Len(held') = {}
  BY <1>0 DEF heldAnswers, HeldOnce
<1>13. AnswersType'
  BY <1>0, <1>1, <1>3, <1>10, <1>12 DEF AnswersType
<1>14. InOnePlace'
  <2>1. Forwarded' = Forwarded
    BY <1>0 DEF Forwarded
  <2>2. Single(buffer') /\ answersIn(buffer') = answersIn(b.buf)
    BY <1>0, <1>3
  <2>3. serving' \cap answersIn(buffer') = {}
    BY <1>0, <1>1, <1>3, <2>2
  <2>4. (serving' \cup answersIn(buffer')) \cap (heldAnswers(held') \cup Gone') = {}
    BY <1>0, <1>1, <1>3, <1>6, <1>11, <1>12, <2>2
  <2>5. serving' \cup answersIn(buffer') \cup heldAnswers(held') \cup Gone' = Forwarded'
    BY <1>0, <1>1, <1>3, <1>6, <1>11, <1>12, <2>1, <2>2
  <2> QED BY <1>12, <2>2, <2>3, <2>4, <2>5 DEF InOnePlace
<1>15. HeldSince'
  <2>1. \A r \in Request : at'[r] =< now'
    BY <1>0 DEF AnswersInv, HeldSince
  <2>2. ASSUME NEW r \in Request, fate'[r] = "expired"
        PROVE  now > at[r] + RequestTimeout
    <3>1. CASE r \in tooOld
      <4>1. PICK i \in 1..Len(held) : held[i].msg = r /\ expired(held[i])
        BY <1>5, <3>1 DEF tooOld, ToSet
      <4>2. at[r] =< held[i].heldAt /\ held[i].heldAt < now - RequestTimeout
        BY <4>1 DEF AnswersInv, HeldSince, expired
      <4>3. held[i].heldAt \in Int /\ at[r] \in Int /\ now \in Int /\ RequestTimeout \in Int
        BY <1>1, <1>4, AgentAssumption DEF Never
      <4> QED BY <2>2, <4>2, <4>3
    <3>2. CASE r \notin tooOld
      <4>1. fate[r] = "expired"
        BY <1>9, <2>2, <3>2
      <4> QED BY <2>2, <4>1 DEF AnswersInv, HeldSince, DropsOnlyGivenUp
    <3> QED BY <3>1, <3>2
  <2>3. DropsOnlyGivenUp'
    BY <1>0, <2>2 DEF DropsOnlyGivenUp
  <2> QED BY <1>12, <2>1, <2>3 DEF HeldSince
<1> QED BY <1>13, <1>14, <1>15 DEF AnswersInv

\* A request is forwarded, once.
LEMMA ForwardStep ==
  ASSUME AnswersInv, NEW k \in Link, NEW r \in Request, OnForward(k, r)
  PROVE  AnswersInv'
<1>0. /\ at[r] = Never /\ at' = [at EXCEPT ![r] = now] /\ serving' = serving \cup {r}
      /\ UNCHANGED <<now, buffer, batchTimer, held, fate>>
  BY DEF OnForward
<1>1. AnswersType'
  BY <1>0 DEF AnswersInv, AnswersType
<1>2. InOnePlace'
  <2>1. r \notin Forwarded
    BY <1>0 DEF Forwarded
  <2>2. Forwarded' = Forwarded \cup {r}
    BY <1>0, AgentAssumption DEF Forwarded, AnswersInv, AnswersType, Never
  <2>3. Gone' = Gone /\ heldAnswers(held') = heldAnswers(held) /\ answersIn(buffer') = answersIn(buffer)
    BY <1>0 DEF Gone
  <2> QED BY <1>0, <2>1, <2>2, <2>3 DEF AnswersInv, InOnePlace
<1>3. HeldSince'
  <2>1. \A i \in 1..Len(held) : held[i].msg \in Forwarded
    BY DEF AnswersInv, InOnePlace, heldAnswers
  <2>2. \A i \in 1..Len(held) : held[i].msg # r
    BY <1>0, <2>1 DEF Forwarded
  <2>3. \A x \in Request : fate[x] = "expired" => x # r
    BY <1>0 DEF AnswersInv, InOnePlace, Gone, Forwarded
  <2>4. /\ \A x \in Request : x # r => at'[x] = at[x]
        /\ at'[r] = now /\ now \in Int
    BY <1>0 DEF AnswersInv, AnswersType
  <2>5. \A x \in Request : at'[x] =< now'
    BY <1>0, <2>4 DEF AnswersInv, HeldSince
  <2>6. \A i \in 1..Len(held') : at'[held'[i].msg] =< held'[i].heldAt /\ held'[i].heldAt =< now'
    BY <1>0, <2>1, <2>2, <2>4 DEF AnswersInv, HeldSince, Forwarded
  <2>7. DropsOnlyGivenUp'
    BY <1>0, <2>3, <2>4 DEF AnswersInv, HeldSince, DropsOnlyGivenUp
  <2> QED BY <2>5, <2>6, <2>7 DEF HeldSince
<1> QED BY <1>1, <1>2, <1>3 DEF AnswersInv

\* Time passes, and other steps leave the answers alone.
LEMMA TickStep == ASSUME AnswersInv, Tick PROVE AnswersInv'
<1>0. UNCHANGED answerVars /\ now' = now + 1 /\ now < MaxTime
  BY DEF Tick
<1>1. AnswersType' /\ now =< now'
  BY <1>0, AgentAssumption DEF AnswersInv, AnswersType, answerVars
<1>2. InOnePlace'
  BY <1>0 DEF AnswersInv, InOnePlace, answerVars, Gone, Forwarded
<1>3. HeldSince'
  <2>1. \A r \in Request : at[r] \in Int /\ at[r] =< now
    BY DEF AnswersInv, AnswersType, HeldSince, Never
  <2>2. \A i \in 1..Len(held) :
          /\ held[i].heldAt \in Int /\ held[i].heldAt =< now
          /\ at[held[i].msg] =< held[i].heldAt
    <3>1. \A i \in 1..Len(held) : held[i] \in Entry
      BY ElementOfSeq DEF AnswersInv, AnswersType
    <3> QED BY <3>1 DEF Entry, AnswersInv, HeldSince
  <2>3. now \in Int /\ RequestTimeout \in Int
    BY AgentAssumption DEF AnswersInv, AnswersType
  <2>4. DropsOnlyGivenUp'
    BY <1>0, <2>1, <2>3 DEF AnswersInv, HeldSince, DropsOnlyGivenUp, answerVars
  <2> QED BY <1>0, <2>1, <2>2, <2>3, <2>4 DEF HeldSince, answerVars
<1> QED BY <1>1, <1>2, <1>3 DEF AnswersInv

LEMMA AnswersStay == ASSUME AnswersInv, UNCHANGED <<now, answerVars>> PROVE AnswersInv'
BY DEF AnswersInv, AnswersType, InOnePlace, HeldSince, DropsOnlyGivenUp, answerVars, Gone, Forwarded

LEMMA AnswersStep == ASSUME AnswersInv, [Next]_vars PROVE AnswersInv'
<1>1. CASE UNCHANGED <<now, answerVars>>
  BY <1>1, AnswersStay
<1>2. CASE UNCHANGED vars
  BY <1>1, <1>2 DEF vars, answerVars
<1>3. CASE Start \/ Reconnect \/ \E c \in Conn : WsConnectionEnds(c)
  BY <1>1, <1>3 DEF Start, Reconnect, WsConnectionEnds
<1>4. CASE Stop
  BY <1>4, StopDrops DEF Stop
<1>5. CASE BatchTimer
  BY <1>5, FlushStep DEF BatchTimer
<1>6. CASE Tick
  BY <1>6, TickStep
<1>7. ASSUME NEW r \in Request, OnForwardDone(r) PROVE AnswersInv'
  BY <1>7, MessageAdded DEF OnForwardDone, Message
<1>8. ASSUME NEW k \in Link, OnOpen(k) \/ LinkEnds(k) \/ \E c \in Conn : OnWsOpen(k, c)
      PROVE  AnswersInv'
  BY <1>1, <1>8 DEF OnOpen, LinkEnds, OnWsOpen
<1>9. ASSUME NEW k \in Link, OnHubError(k) PROVE AnswersInv'
  BY <1>1, <1>9, StopDrops DEF OnHubError
<1>10. ASSUME NEW k \in Link, OnPing(k) PROVE AnswersInv'
  <2>1. serving \ {Pong} = serving /\ Pong \in Message
    BY AgentAssumption DEF AnswersInv, AnswersType, Message
  <2> QED BY <1>10, <2>1, MessageAdded DEF OnPing
<1>11. ASSUME NEW k \in Link, OnClose(k) PROVE AnswersInv'
  <2>1. CASE stopped
    BY <1>1, <1>11, <2>1 DEF OnClose, answerVars
  <2>2. CASE ~stopped
    BY <1>11, <2>2, FlushStep DEF OnClose
  <2> QED BY <2>1, <2>2
<1> QED BY <1>2, <1>3, <1>4, <1>5, <1>6, <1>7, <1>8, <1>9, <1>10, <1>11,
           RegisteredStep, ForwardStep DEF Next

\* How often something is in a sequence that has it at most once.
Copies(n, f, x) == Cardinality({i \in 1..n : f[i] = x})
AtMostOnce(n, f, x) == \A i, j \in 1..n : f[i] = x /\ f[j] = x => i = j
IsIn(n, f, x) == \E i \in 1..n : f[i] = x

LEMMA CopiesOf ==
  ASSUME NEW n \in Nat, NEW f, NEW x, AtMostOnce(n, f, x)
  PROVE  Copies(n, f, x) = IF IsIn(n, f, x) THEN 1 ELSE 0
<1>1. CASE IsIn(n, f, x)
  <2>1. PICK i \in 1..n : f[i] = x
    BY <1>1 DEF IsIn
  <2>2. {j \in 1..n : f[j] = x} = {i}
    BY <2>1 DEF AtMostOnce
  <2> QED BY <1>1, <2>2, FS_Singleton DEF Copies
<1>2. CASE ~IsIn(n, f, x)
  <2>1. {j \in 1..n : f[j] = x} = {}
    BY <1>2 DEF IsIn
  <2> QED BY <1>2, <2>1, FS_EmptySet DEF Copies
<1> QED BY <1>1, <1>2

\* To be in one place there once is to be counted once.
LEMMA AccountOfAnswers == ASSUME AnswersInv PROVE AnswersAccounted
<1> SUFFICES ASSUME NEW r \in Request
             PROVE  Cardinality({i \in 1..Len(buffer) : buffer[i] = r})
                      + Cardinality({i \in 1..Len(held) : held[i].msg = r})
                      + (IF r \in serving THEN 1 ELSE 0)
                      + (IF fate[r] # "none" THEN 1 ELSE 0)
                    = IF at[r] = Never THEN 0 ELSE 1
  BY Zenon DEF AnswersAccounted
<1>0. Len(buffer) \in Nat /\ Len(held) \in Nat /\ r # Pong
  BY LenProperties, AgentAssumption DEF AnswersInv, AnswersType
<1>1. Cardinality({i \in 1..Len(buffer) : buffer[i] = r}) = IF r \in answersIn(buffer) THEN 1 ELSE 0
  <2>1. AtMostOnce(Len(buffer), buffer, r)
    BY <1>0 DEF AnswersInv, InOnePlace, Single, AtMostOnce
  <2>2. r \in answersIn(buffer) <=> IsIn(Len(buffer), buffer, r)
    BY <1>0, AnswersOf DEF AnswersInv, AnswersType, IsIn
  <2>3. Copies(Len(buffer), buffer, r) = IF r \in answersIn(buffer) THEN 1 ELSE 0
    BY <1>0, <2>1, <2>2, CopiesOf
  <2> QED BY <2>3 DEF Copies
<1>2. Cardinality({i \in 1..Len(held) : held[i].msg = r}) = IF r \in heldAnswers(held) THEN 1 ELSE 0
  <2> DEFINE f == [i \in 1..Len(held) |-> held[i].msg]
  <2>1. AtMostOnce(Len(held), f, r)
    BY DEF AnswersInv, InOnePlace, HeldOnce, AtMostOnce
  <2>2. r \in heldAnswers(held) <=> IsIn(Len(held), f, r)
    BY DEF heldAnswers, IsIn
  <2>3. {i \in 1..Len(held) : held[i].msg = r} = {i \in 1..Len(held) : f[i] = r}
    OBVIOUS
  <2> HIDE DEF f
  <2>4. Copies(Len(held), f, r) = IF r \in heldAnswers(held) THEN 1 ELSE 0
    BY <1>0, <2>1, <2>2, CopiesOf
  <2> QED BY <2>3, <2>4 DEF Copies
<1>3. /\ r \in serving => r \notin answersIn(buffer) /\ r \notin heldAnswers(held) /\ fate[r] = "none"
      /\ r \in answersIn(buffer) => r \notin heldAnswers(held) /\ fate[r] = "none"
      /\ r \in heldAnswers(held) => fate[r] = "none"
      /\ (r \in serving \/ r \in answersIn(buffer) \/ r \in heldAnswers(held) \/ fate[r] # "none")
           <=> at[r] # Never
  BY DEF AnswersInv, InOnePlace, Gone, Forwarded
<1> QED BY <1>1, <1>2, <1>3

\* AnswersInv and with it the account of answers hold throughout.
LEMMA AnswersInvariant == Spec => []AnswersInv
<1>1. Init => AnswersInv
  <2> SUFFICES ASSUME Init PROVE AnswersInv
    OBVIOUS
  <2>0. batchTimer \in BOOLEAN
    BY Zenon DEF Init
  <2>1. AnswersType
    BY <2>0, NoMessages, AgentAssumption DEF Init, AnswersType, Never, Fate
  <2>2. InOnePlace
    BY NoMessages DEF Init, InOnePlace, HeldOnce, heldAnswers, Gone, Forwarded
  <2>3. HeldSince
    BY DEF Init, HeldSince, DropsOnlyGivenUp, Never
  <2> QED BY <2>1, <2>2, <2>3 DEF AnswersInv
<1>2. AnswersInv /\ [Next]_vars => AnswersInv'
  BY AnswersStep
<1> QED BY <1>1, <1>2, PTL DEF Spec

\* No answer is duplicated and none disappears unaccounted for, through the
\* batch, the answers held while the link is down, and any number of links
\* (MessageBatcher.add, flush and flushToQueue, holdResponse,
\* sendHeldResponses, stop).
THEOREM AnswersCorrect == Spec => []AnswersAccounted
<1>1. AnswersInv => AnswersAccounted
  BY AccountOfAnswers
<1> QED BY <1>1, AnswersInvariant, PTL

\* What sendHeldResponses drops as too old was forwarded to the agent longer ago
\* than the time a hub waits by default, through any number of outages and moves
\* between the batch and the held answers.
THEOREM DropsCorrect == Spec => []DropsOnlyGivenUp
<1>1. AnswersInv => DropsOnlyGivenUp
  BY DEF AnswersInv, HeldSince
<1> QED BY <1>1, AnswersInvariant, PTL

-----------------------------------------------------------------------------
(***************************************************************************)
(* The durable queue.                                                      *)
(***************************************************************************)

Rows ==
  /\ queue = [i \in DOMAIN queue |-> queue[i]]
  /\ \A i \in DOMAIN queue :
       /\ queue[i] = [direction |-> queue[i].direction, attempts |-> queue[i].attempts,
                       nextRetryAt |-> queue[i].nextRetryAt]
       /\ queue[i].direction \in {"inbound", "outbound"}
       /\ queue[i].attempts \in Nat

\* The backend has answered what a replay is about to mark as done.
QueueInv ==
  /\ Rows /\ RowsAccounted
  /\ replay = [r \in Replays |-> [todo |-> replay[r].todo, wait |-> replay[r].wait]]
  /\ \A r \in Replays : replay[r].wait = "answered" => Head(replay[r].todo) \in ran

\* What leaves the queue in a step was answered, is dead or was a response.
Accounted ==
  \A i \in DOMAIN queue :
    queue[i].direction = "inbound" /\ i \notin DOMAIN queue' => i \in ran \/ i \in deadLetter'

LEMMA QueueStarts == QueueInit => QueueInv
<1> SUFFICES ASSUME QueueInit PROVE QueueInv
  OBVIOUS
<1>1. PICK S : queue \in [S -> [direction : {"inbound", "outbound"}, attempts : {0}, nextRetryAt : {0}]]
  BY DEF QueueInit
<1>2. /\ queue = [i \in DOMAIN queue |-> queue[i]]
      /\ \A i \in DOMAIN queue :
           queue[i] \in [direction : {"inbound", "outbound"}, attempts : {0}, nextRetryAt : {0}]
  BY <1>1
<1>3. Rows /\ \A i \in DOMAIN queue : queue[i].attempts = 0
  BY <1>2 DEF Rows
<1>4. RowsAccounted
  BY <1>3, ReplayQueueAssumption DEF QueueInit, RowsAccounted
<1> QED BY <1>3, <1>4 DEF QueueInit, QueueInv, Resting

\* Rows leave the queue, some of them for dead_letter.
LEMMA RemovedKeeps ==
  ASSUME Rows, RowsAccounted, NEW S, queue' = Removed(queue, S),
         deadLetter' \subseteq deadLetter \cup S,
         up' => up \/ \A i \in DOMAIN queue : queue[i].direction = "outbound" => i \in S
  PROVE  Rows' /\ RowsAccounted' /\ DOMAIN queue' = DOMAIN queue \ S
BY DEF Rows, RowsAccounted, Removed

\* A failed row waits for its next attempt.
LEMMA RetryKeeps ==
  ASSUME Rows, RowsAccounted, NEW i \in DOMAIN queue, NEW n \in Nat, n < MaxAttempts, NEW due,
         queue' = [queue EXCEPT ![i].attempts = n, ![i].nextRetryAt = due],
         deadLetter' = deadLetter, up' = up
  PROVE  Rows' /\ RowsAccounted' /\ DOMAIN queue' = DOMAIN queue
<1>1. PICK row : row = [direction |-> queue[i].direction, attempts |-> n, nextRetryAt |-> due]
  OBVIOUS
<1>2. [[queue[i] EXCEPT !.attempts = n] EXCEPT !.nextRetryAt = due] = row
  <2>1. PICK d, a, t : queue[i] = [direction |-> d, attempts |-> a, nextRetryAt |-> t]
    BY DEF Rows
  <2>2. [[direction |-> d, attempts |-> a, nextRetryAt |-> t] EXCEPT !.attempts = n]
          = [direction |-> d, attempts |-> n, nextRetryAt |-> t]
    OBVIOUS
  <2>3. [[direction |-> d, attempts |-> n, nextRetryAt |-> t] EXCEPT !.nextRetryAt = due]
          = [direction |-> d, attempts |-> n, nextRetryAt |-> due]
    OBVIOUS
  <2>4. queue[i].direction = d
    BY <2>1
  <2> QED BY <1>1, <2>1, <2>2, <2>3, <2>4
<1>3. queue' = [queue EXCEPT ![i] = row]
  <2>1. [queue EXCEPT ![i].attempts = n, ![i].nextRetryAt = due]
          = [queue EXCEPT ![i] = [[queue[i] EXCEPT !.attempts = n] EXCEPT !.nextRetryAt = due]]
    BY DEF Rows
  <2> QED BY <1>2, <2>1
<1>4. /\ DOMAIN queue' = DOMAIN queue /\ queue'[i] = row
      /\ \A k \in DOMAIN queue : k # i => queue'[k] = queue[k]
      /\ queue' = [k \in DOMAIN queue' |-> queue'[k]]
  BY <1>3 DEF Rows
<1>5. Rows'
  BY <1>1, <1>4 DEF Rows
<1> QED BY <1>1, <1>4, <1>5 DEF RowsAccounted

ReplayShape == replay = [r \in Replays |-> [todo |-> replay[r].todo, wait |-> replay[r].wait]]
AnsweredRan == \A r \in Replays : replay[r].wait = "answered" => Head(replay[r].todo) \in ran

\* The replay r goes on to what is to do next, or to another wait.
LEMMA ReplayMoves ==
  ASSUME QueueInv, NEW r \in Replays, NEW todo, NEW wait,
         replay' = [replay EXCEPT ![r] = [todo |-> todo, wait |-> wait]],
         ran \subseteq ran', wait = "answered" => Head(todo) \in ran'
  PROVE  ReplayShape' /\ AnsweredRan'
<1>1. /\ \A x \in Replays : x # r => replay'[x] = replay[x]
      /\ replay'[r] = [todo |-> todo, wait |-> wait]
      /\ replay' = [x \in Replays |-> replay'[x]]
  BY DEF QueueInv
<1>2. replay'[r].todo = todo /\ replay'[r].wait = wait
  BY <1>1
<1>3. \A x \in Replays : replay'[x] = [todo |-> replay'[x].todo, wait |-> replay'[x].wait]
  BY <1>1, <1>2 DEF QueueInv
<1>4. ReplayShape'
  BY <1>1, <1>3 DEF ReplayShape
<1>5. AnsweredRan'
  BY <1>1, <1>2 DEF QueueInv, AnsweredRan
<1> QED BY <1>4, <1>5

\* Changing one field of a replay is giving it both.
LEMMA ReplayField ==
  ASSUME QueueInv, NEW r \in Replays, NEW v
  PROVE  /\ [replay EXCEPT ![r].todo = v] = [replay EXCEPT ![r] = [todo |-> v, wait |-> replay[r].wait]]
         /\ [replay EXCEPT ![r].wait = v] = [replay EXCEPT ![r] = [todo |-> replay[r].todo, wait |-> v]]
<1>1. PICK t, w : replay[r] = [todo |-> t, wait |-> w]
  BY DEF QueueInv
<1>2. /\ [[todo |-> t, wait |-> w] EXCEPT !.todo = v] = [todo |-> v, wait |-> w]
      /\ [[todo |-> t, wait |-> w] EXCEPT !.wait = v] = [todo |-> t, wait |-> v]
  OBVIOUS
<1>3. replay[r].todo = t /\ replay[r].wait = w
  BY <1>1
<1> QED BY <1>1, <1>2, <1>3

\* markSuccess and markFailed: the row is gone, waits for its next attempt, or is
\* dead.
LEMMA MarksKeep ==
  ASSUME QueueInv, NEW i, up' = up,
         \/ markSuccess(i) /\ (i \in DOMAIN queue => i \in ran \/ queue[i].direction = "outbound")
         \/ markFailed(i)
  PROVE  Rows' /\ RowsAccounted' /\ Accounted
<1>1. CASE markSuccess(i) /\ (i \in DOMAIN queue => i \in ran \/ queue[i].direction = "outbound")
  <2>1. queue' = Removed(queue, {i}) /\ deadLetter' = deadLetter
    BY <1>1 DEF markSuccess
  <2>2. Rows' /\ RowsAccounted' /\ DOMAIN queue' = DOMAIN queue \ {i}
    BY <2>1, RemovedKeeps DEF QueueInv
  <2> QED BY <1>1, <2>2 DEF Accounted
<1>2. CASE markFailed(i)
  <2>1. CASE i \notin DOMAIN queue
    BY <1>2, <2>1 DEF markFailed, QueueInv, Rows, RowsAccounted, Accounted
  <2>2. CASE i \in DOMAIN queue
    <3>1. PICK n \in Nat : n = queue[i].attempts + 1
      BY <2>2 DEF QueueInv, Rows
    <3>2. CASE n >= MaxAttempts
      <4>1. deadLetter' = deadLetter \cup {i} /\ queue' = Removed(queue, {i})
        BY <1>2, <2>2, <3>1, <3>2 DEF markFailed
      <4>2. Rows' /\ RowsAccounted' /\ DOMAIN queue' = DOMAIN queue \ {i}
        BY <4>1, RemovedKeeps DEF QueueInv
      <4> QED BY <4>1, <4>2 DEF Accounted
    <3>3. CASE ~(n >= MaxAttempts)
      <4>1. PICK due : due = tick + backoff(n)
        OBVIOUS
      <4>2. /\ queue' = [queue EXCEPT ![i].attempts = n, ![i].nextRetryAt = due]
            /\ deadLetter' = deadLetter
        BY <1>2, <2>2, <3>1, <3>3, <4>1 DEF markFailed
      <4>3. n < MaxAttempts
        BY <3>3, ReplayQueueAssumption
      <4>4. Rows' /\ RowsAccounted' /\ DOMAIN queue' = DOMAIN queue
        BY <2>2, <4>2, <4>3, RetryKeeps DEF QueueInv
      <4> QED BY <4>4 DEF Accounted
    <3> QED BY <3>2, <3>3
  <2> QED BY <2>1, <2>2
<1> QED BY <1>1, <1>2

\* Every step keeps the invariant and accounts for what leaves the queue.
LEMMA QueueSteps ==
  ASSUME QueueInv, QueueNext
  PROVE  QueueInv' /\ Accounted
<1> SUFFICES Rows' /\ RowsAccounted' /\ ReplayShape' /\ AnsweredRan' /\ Accounted
  BY DEF QueueInv, ReplayShape, AnsweredRan
<1>0. ReplayShape /\ AnsweredRan /\ Rows /\ RowsAccounted
  BY DEF QueueInv, ReplayShape, AnsweredRan
<1>1. CASE Open
  <2> DEFINE S == {i \in DOMAIN queue : queue[i].direction = "outbound"}
  <2>1. /\ up' /\ queue' = Removed(queue, S) /\ deadLetter' = deadLetter
        /\ UNCHANGED <<replay, ran>>
    BY <1>1 DEF Open
  <2>2. \A i \in DOMAIN queue : queue[i].direction = "outbound" => i \in S
    OBVIOUS
  <2>3. \A i \in S : queue[i].direction = "outbound"
    OBVIOUS
  <2> HIDE DEF S
  <2>4. Rows' /\ RowsAccounted' /\ DOMAIN queue' = DOMAIN queue \ S
    BY <1>0, <2>1, <2>2, RemovedKeeps
  <2>5. Accounted
    BY <2>3, <2>4 DEF Accounted
  <2> QED BY <1>0, <2>1, <2>4, <2>5 DEF ReplayShape, AnsweredRan
<1>2. CASE StopOrCrash
  <2>1. /\ ~up' /\ UNCHANGED <<queue, deadLetter, ran>>
        /\ replay' = [r \in Replays |-> [todo |-> <<>>, wait |-> "none"]]
    BY <1>2 DEF StopOrCrash, Resting
  <2> QED BY <1>0, <2>1 DEF Rows, RowsAccounted, ReplayShape, AnsweredRan, Accounted
<1>3. CASE replayQueue
  <2>1. PICK r \in Replays :
          /\ \E s \in drainForReplay : replay' = [replay EXCEPT ![r] = [todo |-> s, wait |-> "none"]]
          /\ UNCHANGED <<queue, deadLetter, ran, up>>
    BY <1>3 DEF replayQueue
  <2>2. PICK s \in drainForReplay : replay' = [replay EXCEPT ![r] = [todo |-> s, wait |-> "none"]]
    BY <2>1
  <2>3. ReplayShape' /\ AnsweredRan'
    BY <2>1, <2>2, ReplayMoves
  <2> QED BY <1>0, <2>1, <2>3 DEF Rows, RowsAccounted, Accounted
<1>4. CASE NextItem
  <2>1. PICK r \in Replays :
          /\ replay[r].wait = "none"
          /\ IF Head(replay[r].todo) \in DOMAIN queue /\ queue[Head(replay[r].todo)].direction = "outbound"
             THEN markSuccess(Head(replay[r].todo)) /\ replay' = [replay EXCEPT ![r].todo = Tail(replay[r].todo)]
             ELSE replay' = [replay EXCEPT ![r].wait = "backend"] /\ UNCHANGED <<queue, deadLetter>>
          /\ UNCHANGED <<ran, up>>
    BY <1>4 DEF NextItem
  <2>2. CASE /\ queue[Head(replay[r].todo)].direction = "outbound"
             /\ markSuccess(Head(replay[r].todo)) /\ replay' = [replay EXCEPT ![r].todo = Tail(replay[r].todo)]
    <3>1. replay' = [replay EXCEPT ![r] = [todo |-> Tail(replay[r].todo), wait |-> replay[r].wait]]
      BY <2>2, ReplayField
    <3>2. ReplayShape' /\ AnsweredRan'
      BY <2>1, <3>1, ReplayMoves
    <3> QED BY <2>1, <2>2, <3>2, MarksKeep
  <2>3. CASE replay' = [replay EXCEPT ![r].wait = "backend"] /\ UNCHANGED <<queue, deadLetter>>
    <3>1. ran \subseteq ran' /\ ("backend" = "answered" => Head(replay[r].todo) \in ran')
      BY <2>1
    <3>2. replay' = [replay EXCEPT ![r] = [todo |-> replay[r].todo, wait |-> "backend"]]
      BY <2>3, ReplayField
    <3>3. ReplayShape' /\ AnsweredRan'
      BY <3>1, <3>2, ReplayMoves
    <3> QED BY <1>0, <2>1, <2>3, <3>3 DEF Rows, RowsAccounted, Accounted
  <2> QED BY <2>1, <2>2, <2>3
<1>5. CASE BackendAnswers
  <2>1. PICK r \in Replays :
          /\ ran' = ran \cup {Head(replay[r].todo)}
          /\ replay' = [replay EXCEPT ![r].wait = "answered"]
          /\ UNCHANGED <<queue, deadLetter, up>>
    BY <1>5 DEF BackendAnswers
  <2>2. replay' = [replay EXCEPT ![r] = [todo |-> replay[r].todo, wait |-> "answered"]]
    BY <2>1, ReplayField
  <2>3. ReplayShape' /\ AnsweredRan'
    BY <2>1, <2>2, ReplayMoves
  <2> QED BY <1>0, <2>1, <2>3 DEF Rows, RowsAccounted, Accounted
<1>6. CASE ItemSucceeds
  <2>1. PICK r \in Replays :
          /\ replay[r].wait = "answered" /\ markSuccess(Head(replay[r].todo))
          /\ replay' = [replay EXCEPT ![r] = [todo |-> Tail(replay[r].todo), wait |-> "none"]]
          /\ UNCHANGED <<ran, up>>
    BY <1>6 DEF ItemSucceeds
  <2>2. ReplayShape' /\ AnsweredRan'
    <3>1. PICK todo : todo = Tail(replay[r].todo)
      OBVIOUS
    <3>2. replay' = [replay EXCEPT ![r] = [todo |-> todo, wait |-> "none"]]
      BY <2>1, <3>1
    <3>3. ran \subseteq ran' /\ ("none" = "answered" => Head(todo) \in ran')
      BY <2>1
    <3> QED BY <3>2, <3>3, ReplayMoves
  <2>3. Head(replay[r].todo) \in ran
    BY <1>0, <2>1 DEF AnsweredRan
  <2> QED BY <2>1, <2>2, <2>3, MarksKeep
<1>7. CASE ItemFails
  <2>1. PICK r \in Replays :
          /\ markFailed(Head(replay[r].todo))
          /\ replay' = [replay EXCEPT ![r] = [todo |-> Tail(replay[r].todo), wait |-> "none"]]
          /\ UNCHANGED <<ran, up>>
    BY <1>7 DEF ItemFails
  <2>2. ReplayShape' /\ AnsweredRan'
    <3>1. PICK todo : todo = Tail(replay[r].todo)
      OBVIOUS
    <3>2. replay' = [replay EXCEPT ![r] = [todo |-> todo, wait |-> "none"]]
      BY <2>1, <3>1
    <3>3. ran \subseteq ran' /\ ("none" = "answered" => Head(todo) \in ran')
      BY <2>1
    <3> QED BY <3>2, <3>3, ReplayMoves
  <2> QED BY <2>1, <2>2, MarksKeep
<1>8. CASE QueueTick
  BY <1>0, <1>8 DEF QueueTick, Rows, RowsAccounted, ReplayShape, AnsweredRan, Accounted
<1> QED BY <1>1, <1>2, <1>3, <1>4, <1>5, <1>6, <1>7, <1>8 DEF QueueNext

\* Through crashes and overlapping replays no row is lost or retried for ever
\* (DurableQueue.ts, replayQueue), for any number of rows, replays and attempts.
THEOREM QueueCorrect == QueueSpec => ReplayAccounted
<1>1. QueueInv /\ [QueueNext]_queueVars => QueueInv'
  <2>1. QueueInv /\ UNCHANGED queueVars => QueueInv'
    BY DEF queueVars, QueueInv, Rows, RowsAccounted
  <2> QED BY <2>1, QueueSteps
<1>2. QueueInv /\ [QueueNext]_queueVars =>
        [RowsAccounted' /\ \A i \in DOMAIN queue :
           queue[i].direction = "inbound" /\ i \notin DOMAIN queue' =>
             i \in ran \/ i \in deadLetter']_queueVars
  <2> SUFFICES ASSUME QueueInv, QueueNext PROVE RowsAccounted' /\ Accounted
    BY DEF Accounted
  <2> QED BY QueueSteps DEF QueueInv
<1> QED BY <1>1, <1>2, QueueStarts, PTL DEF QueueSpec, ReplayAccounted

-----------------------------------------------------------------------------
(***************************************************************************)
(* The proxy's cache.                                                      *)
(***************************************************************************)

AnyLang == Langs \cup {NoVary}
Requests == [path : Paths, cred : Creds, lang : AnyLang]
Contents == [path : Paths, cred : Creds, version : Nat, lang : AnyLang, readAt : Nat]
CacheEntry == [key : Paths \X Creds, content : Contents, expiresAt : Nat]

\* A forward has not outlived its timeout, and what it got answers its request.
Answers(content, req) ==
  /\ content.path = req.path /\ content.cred = req.cred
  /\ content.lang \in {NoVary, req.lang}

InTime(w) == w.since =< time /\ time =< w.since + Timeout
Sent == [op : {"get", "write", "done"}, req : Requests, since : Nat]
Fetched ==
  {w \in [op : {"got"}, req : Requests, since : Nat, content : Contents] :
     Answers(w.content, w.req) /\ w.since =< w.content.readAt}

FlightOk(w) ==
  \/ w = NoForward
  \/ w \in Sent \cup Fetched /\ InTime(w)

CacheTypes ==
  /\ time \in Nat
  /\ version \in [Paths -> Nat]
  /\ \A f \in Forwards : FlightOk(flight[f])
  /\ DOMAIN flight = Forwards

\* An entry is filed under what it answers and ends in time.
Filed ==
  {e \in CacheEntry : /\ e.key = <<e.content.path, e.content.cred>>
                      /\ e.expiresAt =< e.content.readAt + Timeout + MaxAge}

KeysDistinct(q) == \A i, j \in DOMAIN q : q[i].key = q[j].key => i = j

\* The map: one entry per key, within its capacity.
StoreOk(q) == q \in Seq(Filed) /\ KeysDistinct(q) /\ Len(q) =< MaxEntries

\* While a write to a path runs, nothing read before it is left or on its way,
\* unless the two overlapped.
WritesClear ==
  \A p \in Paths \ raced : Flying("write", p) \/ Flying("done", p) =>
    /\ \A e \in ToSet(store) : e.content.path # p
    /\ ~Flying("get", p) /\ ~Flying("got", p)

\* What is stored, or was read and is on its way, is what the backend has.
Current ==
  /\ \A e \in ToSet(store) :
       e.content.path \notin raced \cup outside => e.content.version = version[e.content.path]
  /\ \A f \in Forwards : flight[f].op = "got" /\ flight[f].req.path \notin raced \cup outside =>
       flight[f].content.version = version[flight[f].req.path]

ProxyInv ==
  CacheTypes /\ StoreOk(store) /\ WritesClear /\ Current /\ AnswersItsRequest

-----------------------------------------------------------------------------
(***************************************************************************)
(* What Kept keeps, by induction on the length.                            *)
(***************************************************************************)

\* What is kept of the first n entries, from what is kept of fewer.
KeepStep(q, T, k, n) ==
  IF n = 0 THEN << >> ELSE IF q[n] \in T THEN Append(k[n - 1], q[n]) ELSE k[n - 1]
Keeps(q, T, k) == k = [n \in 0..Len(q) |-> KeepStep(q, T, k, n)]
Keeper(q, T) == CHOOSE k : Keeps(q, T, k)

LEMMA KeptIsLast == ASSUME NEW q, NEW T PROVE Kept(q, T) = Keeper(q, T)[Len(q)]
BY DEF Kept, Keeper, Keeps, KeepStep

\* Such a function exists: one that is right below each number does.
LEMMA KeeperExists ==
  ASSUME NEW S, NEW q \in Seq(S), NEW T
  PROVE  Keeps(q, T, Keeper(q, T))
<1> DEFINE N == Len(q)
           Right(k, n) == \A m \in 0..N : m < n => k[m] = KeepStep(q, T, k, m)
           Sizes == {n \in Nat : \E k : Right(k, n)}
<1>0. N \in Nat
  BY LenProperties
<1> HIDE DEF N
<1>1. 0 \in Sizes
  OBVIOUS
<1>2. ASSUME NEW n \in Nat, n \in Sizes PROVE n + 1 \in Sizes
  <2>1. PICK k : Right(k, n)
    BY <1>2
  <2> DEFINE h == [m \in 0..N |-> KeepStep(q, T, k, m)]
  <2>2. ASSUME NEW m \in 0..N, m < n + 1 PROVE h[m] = KeepStep(q, T, h, m)
    <3>1. CASE m = 0
      BY <3>1 DEF KeepStep
    <3>2. CASE m # 0
      <4>1. m - 1 \in 0..N /\ m - 1 < n
        BY <1>0, <2>2, <3>2
      <4>2. k[m - 1] = h[m - 1]
        BY <2>1, <4>1
      <4> QED BY <3>2, <4>2 DEF KeepStep
    <3> QED BY <3>1, <3>2
  <2>3. Right(h, n + 1)
    BY <2>2
  <2> HIDE DEF h, Right
  <2> QED BY <2>3
<1> HIDE DEF Sizes
<1>3. Nat \subseteq Sizes
  BY <1>1, <1>2, NatSetInduction
<1>4. N + 1 \in Sizes
  BY <1>0, <1>3
<1>5. PICK g : Right(g, N + 1)
  BY <1>4 DEF Sizes
<1>6. \A m \in 0..N : g[m] = KeepStep(q, T, g, m)
  BY <1>0, <1>5
<1> DEFINE h == [m \in 0..N |-> g[m]]
<1>7. \A m \in 0..N : g[m] = KeepStep(q, T, h, m)
  <2> SUFFICES ASSUME NEW m \in 0..N PROVE g[m] = KeepStep(q, T, h, m)
    OBVIOUS
  <2>1. m # 0 => m - 1 \in 0..N
    BY <1>0
  <2> QED BY <1>6, <2>1 DEF KeepStep
<1>8. h = [m \in 0..N |-> KeepStep(q, T, h, m)]
  BY <1>7
<1>9. Keeps(q, T, h)
  BY <1>8 DEF Keeps, N
<1> HIDE DEF h
<1> QED BY <1>9 DEF Keeper

\* Kept keeps the entries of q that are in T, each at most once for each time it
\* is in q.
LEMMA KeptProperties ==
  ASSUME NEW S, NEW q \in Seq(S), NEW T
  PROVE  /\ Kept(q, T) \in Seq(S)
         /\ \A i \in DOMAIN Kept(q, T) : Kept(q, T)[i] \in ToSet(q) \cap T
         /\ \A j \in DOMAIN q : q[j] \in T => q[j] \in ToSet(Kept(q, T))
         /\ Len(Kept(q, T)) =< Len(q)
         /\ KeysDistinct(q) => KeysDistinct(Kept(q, T))
<1> DEFINE N == Len(q)
           k == Keeper(q, T)
           From(m) == \A i \in DOMAIN k[m] : \E j \in 1..m : k[m][i] = q[j] /\ q[j] \in T
           All(m) == \A j \in 1..m : q[j] \in T => \E i \in DOMAIN k[m] : k[m][i] = q[j]
           Good(m) == /\ k[m] \in Seq(S) /\ Len(k[m]) =< m
                      /\ From(m) /\ All(m)
                      /\ KeysDistinct(q) => KeysDistinct(k[m])
           Fine == {n \in Nat : n =< N => Good(n)}
<1>0. N \in Nat /\ DOMAIN q = 1..N /\ \A j \in 1..N : q[j] \in S
  BY LenProperties, ElementOfSeq
<1> HIDE DEF k
<1>1. \A m \in 0..N : k[m] = KeepStep(q, T, k, m)
  <2>1. Keeps(q, T, k)
    BY KeeperExists DEF k
  <2>2. k = [m \in 0..N |-> KeepStep(q, T, k, m)]
    BY <2>1 DEF Keeps
  <2> QED BY <2>2, Zenon
<1> HIDE DEF N
<1>2. k[0] = << >>
  BY <1>0, <1>1 DEF KeepStep
<1>3. 0 \in Fine
  <2>1. << >> \in Seq(S) /\ Len(<< >>) = 0 /\ DOMAIN << >> = {}
    BY EmptySeq
  <2>2. From(0) /\ KeysDistinct(k[0])
    BY <1>2, <2>1, Zenon DEF KeysDistinct
  <2>3. All(0)
    OBVIOUS
  <2>4. k[0] \in Seq(S) /\ Len(k[0]) =< 0
    BY <1>2, <2>1
  <2> QED BY <2>2, <2>3, <2>4
<1>4. ASSUME NEW n \in Nat, n \in Fine PROVE n + 1 \in Fine
  <2> SUFFICES ASSUME n + 1 =< N PROVE Good(n + 1)
    OBVIOUS
  <2>1. Good(n)
    BY <1>0, <1>4
  <2>2. n + 1 \in 1..N /\ n + 1 \in 0..N /\ (n + 1) - 1 = n /\ n + 1 # 0
    BY <1>0
  <2> HIDE DEF Fine
  <2>3. k[n + 1] = IF q[n + 1] \in T THEN Append(k[n], q[n + 1]) ELSE k[n]
    <3>1. k[n + 1] = KeepStep(q, T, k, n + 1)
      BY <1>1, <2>2
    <3>2. KeepStep(q, T, k, n + 1) = IF q[n + 1] \in T THEN Append(k[n], q[n + 1]) ELSE k[n]
      BY <2>2, Zenon DEF KeepStep
    <3> QED BY <3>1, <3>2, Zenon
  <2>4. CASE q[n + 1] \notin T
    <3>1. k[n + 1] = k[n]
      BY <2>3, <2>4
    <3>2. \A j \in 1..n : j \in 1..(n + 1)
      OBVIOUS
    <3>3. From(n + 1)
      BY <2>1, <3>1, <3>2
    <3>4. All(n + 1)
      BY <2>1, <2>4, <3>1
    <3>5. Len(k[n + 1]) =< n + 1
      BY <2>1, <3>1, LenProperties
    <3> QED BY <2>1, <3>1, <3>3, <3>4, <3>5
  <2>5. CASE q[n + 1] \in T
    <3> DEFINE e == q[n + 1]
               b == k[n]
    <3>1. k[n + 1] = Append(b, e)
      BY <2>3, <2>5
    <3>2. b \in Seq(S) /\ e \in S
      BY <1>0, <2>1, <2>2
    <3> HIDE DEF b, e
    <3>3. /\ Append(b, e) \in Seq(S) /\ Len(Append(b, e)) = Len(b) + 1
          /\ \A i \in 1..Len(b) : Append(b, e)[i] = b[i]
          /\ Append(b, e)[Len(b) + 1] = e
      BY <3>2, AppendProperties
    <3>4. Len(b) \in Nat /\ DOMAIN b = 1..Len(b) /\ DOMAIN Append(b, e) = 1..(Len(b) + 1)
      BY <3>2, <3>3, LenProperties
    <3>5. From(n + 1)
      <4> SUFFICES ASSUME NEW i \in DOMAIN k[n + 1]
                   PROVE  \E j \in 1..(n + 1) : k[n + 1][i] = q[j] /\ q[j] \in T
        OBVIOUS
      <4>1. CASE i \in 1..Len(b)
        <5>1. k[n + 1][i] = b[i] /\ i \in DOMAIN b
          BY <3>1, <3>3, <3>4, <4>1
        <5>2. PICK j \in 1..n : b[i] = q[j] /\ q[j] \in T
          BY <2>1, <5>1 DEF b
        <5> QED BY <5>1, <5>2
      <4>2. CASE i = Len(b) + 1
        <5>1. k[n + 1][i] = q[n + 1]
          BY <3>1, <3>3, <4>2 DEF e
        <5>2. n + 1 \in 1..(n + 1)
          OBVIOUS
        <5> QED BY <2>5, <5>1, <5>2
      <4> QED BY <3>1, <3>4, <4>1, <4>2
    <3>6. All(n + 1)
      <4> SUFFICES ASSUME NEW j \in 1..(n + 1), q[j] \in T
                   PROVE  \E i \in DOMAIN k[n + 1] : k[n + 1][i] = q[j]
        OBVIOUS
      <4>1. CASE j = n + 1
        <5>1. Len(b) + 1 \in DOMAIN k[n + 1] /\ k[n + 1][Len(b) + 1] = q[j]
          BY <3>1, <3>3, <3>4, <4>1 DEF e
        <5> QED BY <5>1
      <4>2. CASE j \in 1..n
        <5>1. PICK i \in DOMAIN b : b[i] = q[j]
          BY <2>1, <4>2 DEF b
        <5>2. i \in DOMAIN k[n + 1] /\ k[n + 1][i] = q[j]
          BY <3>1, <3>3, <3>4, <5>1
        <5> QED BY <5>2
      <4> QED BY <4>1, <4>2
    <3>7. ASSUME KeysDistinct(q) PROVE KeysDistinct(k[n + 1])
      <4>1. \A i \in 1..Len(b) : b[i].key # e.key
        <5> SUFFICES ASSUME NEW i \in 1..Len(b) PROVE b[i].key # e.key
          OBVIOUS
        <5>1. PICK j \in 1..n : b[i] = q[j]
          BY <2>1, <3>4 DEF b
        <5>2. j \in DOMAIN q /\ n + 1 \in DOMAIN q /\ j # n + 1
          BY <1>0, <2>2
        <5>3. q[j].key # q[n + 1].key
          BY <3>7, <5>2 DEF KeysDistinct
        <5> QED BY <5>1, <5>3 DEF e
      <4>2. KeysDistinct(b)
        BY <2>1, <3>7 DEF b
      <4>3. ASSUME NEW i \in 1..(Len(b) + 1), NEW j \in 1..(Len(b) + 1),
                   Append(b, e)[i].key = Append(b, e)[j].key
            PROVE  i = j
        <5>1. CASE i \in 1..Len(b) /\ j \in 1..Len(b)
          BY <3>3, <3>4, <4>2, <4>3, <5>1 DEF KeysDistinct
        <5>2. CASE i = Len(b) + 1 /\ j \in 1..Len(b)
          BY <3>3, <4>1, <4>3, <5>2
        <5>3. CASE j = Len(b) + 1 /\ i \in 1..Len(b)
          BY <3>3, <4>1, <4>3, <5>3
        <5> QED BY <3>4, <5>1, <5>2, <5>3
      <4> QED BY <3>1, <3>4, <4>3 DEF KeysDistinct
    <3>8. Len(k[n + 1]) =< n + 1
      <4>1. Len(b) =< n
        BY <2>1 DEF b
      <4> QED BY <3>1, <3>3, <3>4, <4>1
    <3> QED BY <3>1, <3>3, <3>5, <3>6, <3>7, <3>8
  <2> QED BY <2>4, <2>5
<1> HIDE DEF Good, Fine
<1>5. Nat \subseteq Fine
  BY <1>3, <1>4, NatSetInduction
<1>6. Good(N)
  BY <1>0, <1>5 DEF Fine
<1>7. Kept(q, T) = k[N]
  BY KeptIsLast DEF N, k
<1>8. Kept(q, T) \in Seq(S) /\ Len(Kept(q, T)) =< N /\ (KeysDistinct(q) => KeysDistinct(Kept(q, T)))
  BY <1>6, <1>7 DEF Good
<1>9. \A i \in DOMAIN Kept(q, T) : Kept(q, T)[i] \in ToSet(q) \cap T
  <2>1. \A i \in DOMAIN k[N] : \E j \in 1..N : k[N][i] = q[j] /\ q[j] \in T
    BY <1>6 DEF Good
  <2> QED BY <1>0, <1>7, <2>1 DEF ToSet
<1>10. \A j \in DOMAIN q : q[j] \in T => q[j] \in ToSet(Kept(q, T))
  <2>1. \A j \in 1..N : q[j] \in T => \E i \in DOMAIN k[N] : k[N][i] = q[j]
    BY <1>6 DEF Good
  <2> QED BY <1>0, <1>7, <2>1 DEF ToSet
<1> QED BY <1>8, <1>9, <1>10 DEF N

-----------------------------------------------------------------------------

\* What is left of the store is in order.
LEMMA KeptStore ==
  ASSUME StoreOk(store), NEW T
  PROVE  /\ StoreOk(Kept(store, T))
         /\ \A e \in ToSet(Kept(store, T)) : e \in ToSet(store) /\ e \in T
<1> DEFINE q == Kept(store, T)
<1>1. store \in Seq(Filed) /\ KeysDistinct(store) /\ Len(store) =< MaxEntries
  BY DEF StoreOk
<1>2. /\ q \in Seq(Filed) /\ KeysDistinct(q) /\ Len(q) =< Len(store)
      /\ \A i \in DOMAIN q : q[i] \in ToSet(store) \cap T
  BY <1>1, KeptProperties
<1> HIDE DEF q
<1>3. Len(q) =< MaxEntries
  BY <1>1, <1>2, CacheAssumption, LenProperties
<1> QED BY <1>2, <1>3 DEF StoreOk, ToSet, q

\* The entries of the store are filed right.
LEMMA StoreElements ==
  ASSUME StoreOk(store), NEW e \in ToSet(store)
  PROVE  /\ e \in CacheEntry
         /\ e.key = <<e.content.path, e.content.cred>>
         /\ e.expiresAt =< e.content.readAt + Timeout + MaxAge
BY ElementOfSeq DEF StoreOk, ToSet, Filed

\* A response that is set takes its key's place, or comes last; the first entry
\* makes room.
LEMMA SetStore ==
  ASSUME StoreOk(store), NEW req \in Requests, NEW content \in Contents,
         [key |-> buildKey(req), content |-> content, expiresAt |-> time + MaxAge] \in Filed
  PROVE  /\ StoreOk(set(req, content))
         /\ \A e \in ToSet(set(req, content)) : e \in ToSet(store) \/ e.content = content
<1> DEFINE e == [key |-> buildKey(req), content |-> content, expiresAt |-> time + MaxAge]
<1>0. e \in Filed /\ e.content = content
  OBVIOUS
<1>1. /\ store \in Seq(Filed) /\ Len(store) =< MaxEntries /\ Len(store) \in Nat
      /\ DOMAIN store = 1..Len(store) /\ \A i \in 1..Len(store) : store[i] \in Filed
      /\ \A i, j \in 1..Len(store) : store[i].key = store[j].key => i = j
  BY LenProperties, ElementOfSeq DEF StoreOk, KeysDistinct
<1>2. set(req, content) =
        IF e.key \in Keys THEN [i \in DOMAIN store |-> IF store[i].key = e.key THEN e ELSE store[i]]
        ELSE Append(IF Len(store) >= MaxEntries THEN Tail(store) ELSE store, e)
  BY Zenon DEF set
<1> HIDE DEF e
<1>3. CASE e.key \in Keys
  <2> DEFINE q == [i \in 1..Len(store) |-> IF store[i].key = e.key THEN e ELSE store[i]]
  <2>1. set(req, content) = q
    BY <1>1, <1>2, <1>3
  <2>2. \A i \in 1..Len(store) : q[i] \in Filed /\ q[i].key = store[i].key
    BY <1>0, <1>1
  <2>3. q \in Seq(Filed) /\ Len(q) = Len(store)
    <3>1. q \in [1..Len(store) -> Filed]
      BY <1>0, <1>1
    <3> HIDE DEF q
    <3> QED BY <1>1, <3>1, SeqDef, LenProperties
  <2>4. DOMAIN q = 1..Len(store) /\ \A i \in DOMAIN q : q[i] = e \/ q[i] = store[i]
    OBVIOUS
  <2> HIDE DEF q
  <2>5. KeysDistinct(q)
    BY <1>1, <2>2, <2>4 DEF KeysDistinct
  <2> QED BY <1>0, <1>1, <2>1, <2>3, <2>4, <2>5 DEF StoreOk, ToSet
<1>4. CASE e.key \notin Keys
  <2> DEFINE b == IF Len(store) >= MaxEntries THEN Tail(store) ELSE store
  <2>1. set(req, content) = Append(b, e)
    BY <1>2, <1>4
  <2>2. /\ b \in Seq(Filed) /\ Len(b) \in Nat /\ Len(b) < MaxEntries /\ DOMAIN b = 1..Len(b)
        /\ \A i \in 1..Len(b) : b[i] \in ToSet(store)
        /\ \A i, j \in 1..Len(b) : b[i].key = b[j].key => i = j
    <3>1. CASE Len(store) >= MaxEntries
      <4>1. b = Tail(store) /\ store # << >>
        <5>1. Len(store) # 0
          BY <1>1, <3>1, CacheAssumption
        <5> QED BY <3>1, <5>1, EmptySeq
      <4>2. b \in Seq(Filed) /\ Len(b) = Len(store) - 1 /\ \A i \in 1..Len(b) : b[i] = store[i + 1]
        BY <1>1, <4>1, HeadTailProperties
      <4> HIDE DEF b
      <4>3. \A i \in 1..Len(b) : i + 1 \in 1..Len(store)
        BY <1>1, <4>2
      <4>4. Len(b) \in Nat /\ DOMAIN b = 1..Len(b)
        BY <4>2, LenProperties
      <4>5. \A i, j \in 1..Len(b) : b[i].key = b[j].key => i = j
        BY <1>1, <4>2, <4>3, <4>4
      <4>6. \A i \in 1..Len(b) : b[i] \in ToSet(store)
        BY <1>1, <4>2, <4>3 DEF ToSet
      <4>7. Len(b) < MaxEntries
        BY <1>1, <3>1, <4>2, CacheAssumption
      <4> QED BY <4>2, <4>4, <4>5, <4>6, <4>7
    <3>2. CASE ~(Len(store) >= MaxEntries)
      BY <1>1, <3>2, CacheAssumption DEF ToSet
    <3> QED BY <3>1, <3>2
  <2> HIDE DEF b
  <2>3. /\ Append(b, e) \in Seq(Filed) /\ Len(Append(b, e)) = Len(b) + 1
        /\ \A i \in 1..Len(b) : Append(b, e)[i] = b[i]
        /\ Append(b, e)[Len(b) + 1] = e
    BY <1>0, <2>2, AppendProperties
  <2>4. DOMAIN Append(b, e) = 1..(Len(b) + 1)
    BY <2>3, LenProperties
  <2>5. \A i \in 1..Len(b) : b[i].key # e.key
    BY <1>4, <2>2 DEF Keys
  <2>6. KeysDistinct(Append(b, e))
    BY <2>2, <2>3, <2>4, <2>5 DEF KeysDistinct
  <2>7. Len(Append(b, e)) =< MaxEntries
    BY <2>2, <2>3, CacheAssumption
  <2>8. ASSUME NEW x \in ToSet(Append(b, e)) PROVE x \in ToSet(store) \/ x.content = content
    <3>1. PICK i \in 1..(Len(b) + 1) : x = Append(b, e)[i]
      BY <2>4 DEF ToSet
    <3>2. i \in 1..Len(b) \/ i = Len(b) + 1
      BY <2>2
    <3> QED BY <1>0, <2>2, <2>3, <3>1, <3>2
  <2> QED BY <2>1, <2>3, <2>6, <2>7, <2>8 DEF StoreOk
<1> QED BY <1>3, <1>4

-----------------------------------------------------------------------------

\* A path begins with what invalidateCacheFor takes for its prefix.
LEMMA PrefixOfPath ==
  ASSUME NEW p \in Paths
  PROVE  IsPrefix(IF Len(p) = 1 THEN p ELSE Front(p), p)
<1> DEFINE S == ToSet(p)
           n == Len(p) - 1
<1>1. p \in Seq(S) /\ p # << >>
  BY CacheAssumption
<1> HIDE DEF S
<1>2. Len(p) \in Nat /\ Len(p) # 0
  BY <1>1, LenProperties, EmptySeq
<1>3. IsPrefix(p, p)
  BY <1>2 DEF IsPrefix
<1>4. IsPrefix(Front(p), p)
  <2>1. n \in Nat /\ n =< Len(p)
    BY <1>2
  <2>2. Front(p) = SubSeq(p, 1, n)
    BY DEF Front
  <2> HIDE DEF n
  <2>3. /\ Front(p) \in Seq(S) /\ Len(Front(p)) = n
        /\ \A i \in 1..n : Front(p)[i] = p[i]
    BY <1>1, <1>2, <2>1, <2>2, SubSeqProperties
  <2>4. SubSeq(Front(p), 1, n) \in Seq(S) /\ Len(SubSeq(Front(p), 1, n)) = n
        /\ \A i \in 1..n : SubSeq(Front(p), 1, n)[i] = Front(p)[i]
    BY <2>1, <2>3, SubSeqProperties
  <2>5. SubSeq(Front(p), 1, n) = SubSeq(p, 1, n)
    BY <2>2, <2>3, <2>4, SeqEqual
  <2> QED BY <2>1, <2>3, <2>5 DEF IsPrefix
<1> QED BY <1>3, <1>4

\* Nothing of a path is left in the store when a write to it is forwarded.
LEMMA InvalidatedPath ==
  ASSUME StoreOk(store), NEW p \in Paths
  PROVE  /\ StoreOk(invalidateCacheFor(p))
         /\ \A e \in ToSet(invalidateCacheFor(p)) : e \in ToSet(store) /\ e.content.path # p
<1> DEFINE prefix == IF Len(p) = 1 THEN p ELSE Front(p)
           T == {e \in ToSet(store) : e.key \notin {k \in Keys : IsPrefix(prefix, k[1])}}
<1>1. invalidateCacheFor(p) = Kept(store, T)
  BY DEF invalidateCacheFor, invalidatePrefix, Without
<1>2. IsPrefix(prefix, p)
  BY PrefixOfPath
<1> HIDE DEF prefix
<1>3. ASSUME NEW e \in ToSet(store), e \in T PROVE e.content.path # p
  <2>1. e.key \in Keys /\ e.key[1] = e.content.path
    BY StoreElements DEF Keys
  <2> QED BY <1>2, <1>3, <2>1
<1> HIDE DEF T
<1> QED BY <1>1, <1>3, KeptStore

\* What a lookup leaves of the store.
LEMMA AfterGet ==
  ASSUME StoreOk(store), NEW req
  PROVE  StoreOk(afterGet(req)) /\ \A e \in ToSet(afterGet(req)) : e \in ToSet(store)
BY KeptStore DEF afterGet, Without

\* A response from the cache answers the request and is not too old.
LEMMA HitAnswers ==
  ASSUME StoreOk(store), time \in Nat, NEW req \in Requests, Hit(req)
  PROVE  LET content == cached(buildKey(req)).content
         IN Answers(content, req) /\ time =< content.readAt + Timeout + MaxAge
<1> DEFINE e == cached(buildKey(req))
<1>1. e \in ToSet(store) /\ e.key = buildKey(req)
  BY DEF Hit, Keys, cached
<1>2. e.expiresAt >= time /\ (e.content.lang = NoVary \/ e.content.lang = req.lang)
  BY DEF Hit, varies
<1> HIDE DEF e
<1>3. /\ e \in CacheEntry /\ e.key = <<e.content.path, e.content.cred>>
      /\ e.expiresAt =< e.content.readAt + Timeout + MaxAge
  BY <1>1, StoreElements
<1>4. e.content.path = req.path /\ e.content.cred = req.cred
  BY <1>1, <1>3 DEF buildKey
<1>5. time =< e.content.readAt + Timeout + MaxAge
  <2>1. e.expiresAt \in Nat /\ e.content.readAt \in Nat
    BY <1>3 DEF CacheEntry, Contents
  <2> QED BY <1>2, <1>3, <2>1, CacheAssumption
<1> QED BY <1>2, <1>4, <1>5 DEF Answers, e

-----------------------------------------------------------------------------
(***************************************************************************)
(* The steps of the proxy.                                                 *)
(***************************************************************************)

\* The backend reads the version that is there.
LEMMA ReadStep ==
  ASSUME ProxyInv, BackendReads
  PROVE  ProxyInv'
<1>1. PICK f \in Forwards, l \in {NoVary, "own"} :
        /\ flight[f].op = "get"
        /\ LET req == flight[f].req
           IN flight' = [flight EXCEPT ![f] = [op |-> "got", req |-> req, since |-> flight[f].since,
                content |-> [path |-> req.path, cred |-> req.cred, version |-> version[req.path],
                             lang |-> IF l = NoVary THEN NoVary ELSE req.lang, readAt |-> time]]]
  BY DEF BackendReads
<1>2. served' = NotServed /\ UNCHANGED <<time, version, store, raced, outside>>
  BY DEF BackendReads
<1> DEFINE req == flight[f].req
           content == [path |-> req.path, cred |-> req.cred, version |-> version[req.path],
                       lang |-> IF l = NoVary THEN NoVary ELSE req.lang, readAt |-> time]
           w == [op |-> "got", req |-> req, since |-> flight[f].since, content |-> content]
<1>3. flight' = [flight EXCEPT ![f] = w]
  BY <1>1
<1>4. flight[f] \in Sent /\ InTime(flight[f])
  BY <1>1 DEF ProxyInv, CacheTypes, FlightOk, Fetched, NoForward
<1>5. req \in Requests /\ flight[f].since \in Nat
  BY <1>4 DEF Sent
<1>6. content \in Contents /\ Answers(content, req) /\ time \in Nat
  BY <1>5 DEF ProxyInv, CacheTypes, Contents, Requests, Answers, AnyLang
<1>7. w \in Fetched /\ InTime(w)
  BY <1>4, <1>5, <1>6 DEF Fetched, InTime
<1>8. w.op = "got" /\ w.req = req /\ w.content.version = version[req.path]
  OBVIOUS
<1> HIDE DEF w, content, req
<1>9. CacheTypes'
  BY <1>2, <1>3, <1>7 DEF ProxyInv, CacheTypes, FlightOk, InTime
<1>10. WritesClear'
  BY <1>1, <1>2, <1>3, <1>8 DEF ProxyInv, CacheTypes, WritesClear, Flying, req
<1>11. Current'
  BY <1>2, <1>3, <1>8 DEF ProxyInv, CacheTypes, Current
<1>12. AnswersItsRequest' /\ StoreOk(store)'
  BY <1>2 DEF ProxyInv, AnswersItsRequest, NotServed
<1> QED BY <1>9, <1>10, <1>11, <1>12 DEF ProxyInv
\* A lookup that finds nothing takes nothing out of order, and one that overlaps
\* a write is noted; one that finds an entry is given its response.
LEMMA ForwardGetStep ==
  ASSUME ProxyInv, ForwardGet
  PROVE  ProxyInv'
<1>1. PICK f \in Forwards, p \in Paths, c \in Creds, l \in Langs :
        LET req == [path |-> p, cred |-> c, lang |-> l]
        IN /\ flight[f] = NoForward
           /\ IF Hit(req)
              THEN /\ Serve(req, cached(buildKey(req)).content) /\ UNCHANGED <<flight, store, raced>>
              ELSE /\ flight' = [flight EXCEPT ![f] = [op |-> "get", req |-> req, since |-> time]]
                   /\ store' = afterGet(req) /\ served' = NotServed
                   /\ raced' = IF Flying("write", p) \/ Flying("done", p) THEN raced \cup {p} ELSE raced
           /\ UNCHANGED <<time, version, outside>>
  BY Zenon DEF ForwardGet
<1> DEFINE req == [path |-> p, cred |-> c, lang |-> l]
<1>2. req \in Requests /\ req.path = p
  BY DEF Requests, AnyLang
<1>3. flight[f] = NoForward /\ UNCHANGED <<time, version, outside>>
  BY <1>1
<1>4. /\ Hit(req) => Serve(req, cached(buildKey(req)).content) /\ UNCHANGED <<flight, store, raced>>
      /\ ~Hit(req) => /\ flight' = [flight EXCEPT ![f] = [op |-> "get", req |-> req, since |-> time]]
                      /\ store' = afterGet(req) /\ served' = NotServed
                      /\ raced' = IF Flying("write", p) \/ Flying("done", p) THEN raced \cup {p} ELSE raced
  BY <1>1
<1>5. CASE Hit(req)
  <2>1. Serve(req, cached(buildKey(req)).content) /\ UNCHANGED <<flight, store, raced>>
    BY <1>4, <1>5
  <2> HIDE DEF req
  <2>2. Answers(cached(buildKey(req)).content, req)
        /\ time =< cached(buildKey(req)).content.readAt + Timeout + MaxAge
    BY <1>2, <1>5, HitAnswers DEF ProxyInv, CacheTypes
  <2>3. AnswersItsRequest'
    BY <1>3, <2>1, <2>2 DEF AnswersItsRequest, Serve, Answers
  <2>4. CacheTypes' /\ StoreOk(store)' /\ Current'
    BY <1>3, <2>1 DEF ProxyInv, CacheTypes, FlightOk, InTime, Current
  <2>5. WritesClear'
    BY <1>3, <2>1 DEF ProxyInv, WritesClear, Flying
  <2> QED BY <2>3, <2>4, <2>5 DEF ProxyInv
<1>6. CASE ~Hit(req)
  <2> DEFINE w == [op |-> "get", req |-> req, since |-> time]
  <2>1. /\ flight' = [flight EXCEPT ![f] = w]
        /\ store' = afterGet(req) /\ served' = NotServed
        /\ raced' = IF Flying("write", p) \/ Flying("done", p) THEN raced \cup {p} ELSE raced
    BY <1>4, <1>6
  <2>2. w.op = "get" /\ w.req = req
    OBVIOUS
  <2> HIDE DEF req
  <2>3. w \in Sent /\ InTime(w)
    BY <1>2, CacheAssumption DEF Sent, InTime, ProxyInv, CacheTypes
  <2> HIDE DEF w
  <2>4. StoreOk(store') /\ \A e \in ToSet(store') : e \in ToSet(store)
    BY <2>1, AfterGet DEF ProxyInv
  <2>5. CacheTypes'
    BY <1>3, <2>1, <2>3 DEF ProxyInv, CacheTypes, FlightOk, InTime
  <2>6. raced \subseteq raced' /\ (p \notin raced' => ~Flying("write", p) /\ ~Flying("done", p))
    BY <2>1
  <2>7. \A q : /\ Flying("write", q)' => Flying("write", q)
               /\ Flying("done", q)' => Flying("done", q)
               /\ Flying("got", q)' => Flying("got", q)
               /\ Flying("get", q)' => Flying("get", q) \/ q = p
    BY <1>2, <2>1, <2>2 DEF Flying, ProxyInv, CacheTypes
  <2>8. WritesClear'
    BY <2>4, <2>6, <2>7 DEF ProxyInv, WritesClear
  <2>9. Current'
    BY <1>3, <2>1, <2>2, <2>4, <2>6 DEF ProxyInv, CacheTypes, Current
  <2>10. AnswersItsRequest'
    BY <2>1 DEF AnswersItsRequest, NotServed
  <2> QED BY <2>4, <2>5, <2>8, <2>9, <2>10 DEF ProxyInv
<1> QED BY <1>5, <1>6

\* A write to a path first takes all that is stored of it.
LEMMA ForwardWriteStep ==
  ASSUME ProxyInv, ForwardWrite
  PROVE  ProxyInv'
<1>1. PICK f \in Forwards, p \in Paths, c \in Creds :
        /\ flight[f] = NoForward
        /\ store' = invalidateCacheFor(p)
        /\ flight' = [flight EXCEPT ![f] = [op |-> "write", since |-> time,
                        req |-> [path |-> p, cred |-> c, lang |-> NoVary]]]
        /\ raced' = IF Flying("get", p) \/ Flying("got", p) THEN raced \cup {p} ELSE raced
        /\ served' = NotServed /\ UNCHANGED <<time, version, outside>>
  BY Zenon DEF ForwardWrite
<1> DEFINE w == [op |-> "write", since |-> time, req |-> [path |-> p, cred |-> c, lang |-> NoVary]]
<1>2. w.op = "write" /\ w.req.path = p
  OBVIOUS
<1>3. w \in Sent /\ InTime(w)
  BY CacheAssumption DEF Sent, InTime, Requests, AnyLang, ProxyInv, CacheTypes
<1>4. flight' = [flight EXCEPT ![f] = w]
  BY <1>1
<1> HIDE DEF w
<1>5. StoreOk(store') /\ \A e \in ToSet(store') : e \in ToSet(store) /\ e.content.path # p
  BY <1>1, InvalidatedPath DEF ProxyInv
<1>6. CacheTypes'
  BY <1>1, <1>3, <1>4 DEF ProxyInv, CacheTypes, FlightOk, InTime
<1>7. raced \subseteq raced' /\ (p \notin raced' => ~Flying("get", p) /\ ~Flying("got", p))
  BY <1>1
<1>8. \A q : /\ Flying("write", q)' => Flying("write", q) \/ q = p
             /\ Flying("done", q)' => Flying("done", q)
             /\ Flying("got", q)' => Flying("got", q)
             /\ Flying("get", q)' => Flying("get", q)
  BY <1>2, <1>4 DEF Flying, ProxyInv, CacheTypes
<1>9. WritesClear'
  BY <1>5, <1>7, <1>8 DEF ProxyInv, WritesClear
<1>10. Current'
  BY <1>1, <1>2, <1>4, <1>5, <1>7 DEF ProxyInv, CacheTypes, Current
<1>11. AnswersItsRequest'
  BY <1>1 DEF AnswersItsRequest, NotServed
<1> QED BY <1>5, <1>6, <1>9, <1>10, <1>11 DEF ProxyInv

\* When the write takes place, nothing of its path is stored or on its way.
LEMMA BackendWritesStep ==
  ASSUME ProxyInv, BackendWrites
  PROVE  ProxyInv'
<1>1. PICK f \in Forwards :
        /\ flight[f].op = "write"
        /\ version' = [version EXCEPT ![flight[f].req.path] = @ + 1]
        /\ flight' = [flight EXCEPT ![f].op = "done"]
        /\ served' = NotServed /\ UNCHANGED <<time, store, raced, outside>>
  BY Zenon DEF BackendWrites
<1> DEFINE w == [flight[f] EXCEPT !.op = "done"]
           p == flight[f].req.path
<1>2. flight[f] \in Sent /\ InTime(flight[f])
  BY <1>1 DEF ProxyInv, CacheTypes, FlightOk, Fetched, NoForward
<1>3. w \in Sent /\ InTime(w) /\ w.op = "done" /\ w.req.path = p /\ p \in Paths
  BY <1>2 DEF Sent, InTime, Requests
<1>4. flight' = [flight EXCEPT ![f] = w] /\ version' = [version EXCEPT ![p] = @ + 1]
  BY <1>1
<1>5. Flying("write", p)
  BY <1>1 DEF Flying
<1> HIDE DEF w, p
<1>6. CacheTypes'
  <2>1. version' \in [Paths -> Nat] /\ time' \in Nat
    BY <1>1, <1>3, <1>4 DEF ProxyInv, CacheTypes
  <2>2. DOMAIN flight' = Forwards /\ \A g \in Forwards : flight'[g] = IF g = f THEN w ELSE flight[g]
    BY <1>4 DEF ProxyInv, CacheTypes
  <2>3. \A g \in Forwards : FlightOk(flight[g])'
    BY <1>1, <1>3, <2>2 DEF ProxyInv, CacheTypes, FlightOk, InTime
  <2> QED BY <2>1, <2>2, <2>3 DEF CacheTypes
<1>7. \A q : /\ Flying("write", q)' => Flying("write", q)
             /\ Flying("done", q)' => Flying("done", q) \/ q = p
             /\ Flying("got", q)' => Flying("got", q)
             /\ Flying("get", q)' => Flying("get", q)
  BY <1>3, <1>4 DEF Flying, ProxyInv, CacheTypes
<1>8. WritesClear'
  <2> SUFFICES ASSUME NEW q \in Paths \ raced, Flying("write", q)' \/ Flying("done", q)'
               PROVE  /\ \A e \in ToSet(store) : e.content.path # q
                      /\ ~Flying("get", q)' /\ ~Flying("got", q)'
    BY <1>1 DEF WritesClear
  <2>1. Flying("write", q) \/ Flying("done", q)
    BY <1>5, <1>7
  <2>2. (\A e \in ToSet(store) : e.content.path # q) /\ ~Flying("get", q) /\ ~Flying("got", q)
    BY <2>1 DEF ProxyInv, WritesClear
  <2> QED BY <1>7, <2>2
<1>9. Current'
  <2>1. p \notin raced => (\A e \in ToSet(store) : e.content.path # p) /\ ~Flying("got", p)
    BY <1>3, <1>5 DEF ProxyInv, WritesClear
  <2>2. \A e \in ToSet(store) : e.content.path \in Paths
    BY StoreElements DEF ProxyInv, CacheEntry, Contents
  <2>3. \A q \in Paths : q # p => version'[q] = version[q]
    BY <1>4 DEF ProxyInv, CacheTypes
  <2>4. ASSUME NEW e \in ToSet(store'), e.content.path \notin raced' \cup outside'
        PROVE  e.content.version = version'[e.content.path]
    <3>1. e \in ToSet(store) /\ e.content.path \notin raced \cup outside
      BY <1>1, <2>4
    <3> QED BY <2>1, <2>2, <2>3, <3>1 DEF ProxyInv, Current
  <2>5. ASSUME NEW g \in Forwards, flight'[g].op = "got", flight'[g].req.path \notin raced' \cup outside'
        PROVE  flight'[g].content.version = version'[flight'[g].req.path]
    <3>1. flight'[g] = flight[g] /\ flight[g].op = "got"
      BY <1>3, <1>4, <2>5 DEF ProxyInv, CacheTypes
    <3>2. flight[g].req.path \in Paths
      BY <3>1 DEF ProxyInv, CacheTypes, FlightOk, Fetched, Sent, NoForward, Requests
    <3>3. flight[g].req.path # p
      BY <1>1, <2>1, <2>5, <3>1 DEF Flying
    <3>4. flight[g].content.version = version[flight[g].req.path]
      BY <1>1, <2>5, <3>1 DEF ProxyInv, Current
    <3> QED BY <2>3, <3>1, <3>2, <3>3, <3>4
  <2> QED BY <2>4, <2>5 DEF Current
<1>10. AnswersItsRequest' /\ StoreOk(store)'
  BY <1>1 DEF ProxyInv, AnswersItsRequest, NotServed
<1> QED BY <1>6, <1>8, <1>9, <1>10 DEF ProxyInv
\* A change that no write through the agent made.
LEMMA BackendChangesStep ==
  ASSUME ProxyInv, BackendChanges
  PROVE  ProxyInv'
<1>1. PICK p \in Paths :
        /\ version' = [version EXCEPT ![p] = @ + 1] /\ outside' = outside \cup {p}
        /\ served' = NotServed /\ UNCHANGED <<time, store, flight, raced>>
  BY Zenon DEF BackendChanges
<1>2. CacheTypes'
  BY <1>1 DEF ProxyInv, CacheTypes, FlightOk, InTime
<1>3. \A q \in Paths \ outside' : version'[q] = version[q]
  BY <1>1 DEF ProxyInv, CacheTypes
<1>4. Current'
  <2>1. \A e \in ToSet(store) : e.content.path \in Paths
    BY StoreElements DEF ProxyInv, CacheEntry, Contents
  <2>2. \A g \in Forwards : flight[g].op = "got" => flight[g].req.path \in Paths
    BY DEF ProxyInv, CacheTypes, FlightOk, Fetched, Sent, NoForward, Requests
  <2> QED BY <1>1, <1>3, <2>1, <2>2 DEF ProxyInv, Current
<1>5. WritesClear'
  BY <1>1 DEF ProxyInv, WritesClear, Flying
<1>6. AnswersItsRequest' /\ StoreOk(store)'
  BY <1>1 DEF ProxyInv, AnswersItsRequest, NotServed
<1> QED BY <1>2, <1>4, <1>5, <1>6 DEF ProxyInv

\* A response is given to the request it was fetched for, and may be stored.
LEMMA GetAnsweredStep ==
  ASSUME ProxyInv, GetAnswered
  PROVE  ProxyInv'
<1>1. PICK f \in Forwards :
        /\ flight[f].op = "got"
        /\ store' \in {store, set(flight[f].req, flight[f].content)}
        /\ Serve(flight[f].req, flight[f].content)
        /\ flight' = [flight EXCEPT ![f] = NoForward]
        /\ UNCHANGED <<time, version, raced, outside>>
  BY Zenon DEF GetAnswered
<1> DEFINE req == flight[f].req
           content == flight[f].content
           e == [key |-> buildKey(req), content |-> content, expiresAt |-> time + MaxAge]
<1>2. flight[f] \in Fetched /\ InTime(flight[f])
  BY <1>1 DEF ProxyInv, CacheTypes, FlightOk, Sent, NoForward
<1>3. /\ req \in Requests /\ content \in Contents /\ Answers(content, req)
      /\ time =< content.readAt + Timeout
  <2>1. /\ req \in Requests /\ content \in Contents /\ Answers(content, req)
        /\ flight[f].since \in Nat /\ flight[f].since =< content.readAt
    BY <1>2 DEF Fetched
  <2>2. time =< flight[f].since + Timeout /\ time \in Nat
    BY <1>2 DEF InTime, ProxyInv, CacheTypes
  <2>3. content.readAt \in Nat
    BY <2>1 DEF Contents
  <2> QED BY <2>1, <2>2, <2>3, CacheAssumption
<1>4. Flying("got", req.path)
  BY <1>1 DEF Flying
<1>5. req.path \notin raced \cup outside => content.version = version[req.path]
  BY <1>1 DEF ProxyInv, Current
<1>6. store' = store \/ store' = set(req, content)
  BY <1>1
<1>7. Serve(req, content)
  BY <1>1
<1> HIDE DEF req, content
<1>8. e \in Filed
  <2>1. buildKey(req) = <<content.path, content.cred>> /\ buildKey(req) \in Paths \X Creds
    BY <1>3 DEF buildKey, Answers, Requests
  <2>2. content.readAt \in Nat /\ time \in Nat /\ time + MaxAge \in Nat
    BY <1>3, CacheAssumption DEF Contents, ProxyInv, CacheTypes
  <2>3. time + MaxAge =< content.readAt + Timeout + MaxAge
    BY <1>3, <2>2, CacheAssumption
  <2> QED BY <1>3, <2>1, <2>2, <2>3 DEF Filed, CacheEntry
<1> HIDE DEF e
<1>9. /\ StoreOk(store')
      /\ \A x \in ToSet(store') : x \in ToSet(store) \/ x.content = content
  <2>1. /\ StoreOk(set(req, content))
        /\ \A x \in ToSet(set(req, content)) : x \in ToSet(store) \/ x.content = content
    BY <1>3, <1>8, SetStore DEF ProxyInv, e
  <2> QED BY <1>6, <2>1 DEF ProxyInv
<1>10. CacheTypes'
  BY <1>1 DEF ProxyInv, CacheTypes, FlightOk, InTime
<1>11. \A q, op : op # "free" => (Flying(op, q)' => Flying(op, q))
  BY <1>1 DEF Flying, ProxyInv, CacheTypes, NoForward
<1>12. content.path = req.path
  BY <1>3 DEF Answers
<1>13. WritesClear'
  <2> SUFFICES ASSUME NEW q \in Paths \ raced, Flying("write", q)' \/ Flying("done", q)'
               PROVE  /\ \A x \in ToSet(store') : x.content.path # q
                      /\ ~Flying("get", q)' /\ ~Flying("got", q)'
    BY <1>1 DEF WritesClear
  <2>1. Flying("write", q) \/ Flying("done", q)
    BY <1>11
  <2>2. (\A x \in ToSet(store) : x.content.path # q) /\ ~Flying("get", q) /\ ~Flying("got", q)
    BY <2>1 DEF ProxyInv, WritesClear
  <2>3. content.path # q
    BY <1>4, <1>12, <2>2
  <2> QED BY <1>9, <1>11, <2>2, <2>3
<1>14. Current'
  <2>1. \A x \in ToSet(store') :
          x.content.path \notin raced \cup outside => x.content.version = version[x.content.path]
    BY <1>5, <1>9, <1>12 DEF ProxyInv, Current
  <2>2. \A g \in Forwards : flight'[g].op = "got" => flight'[g] = flight[g]
    BY <1>1 DEF ProxyInv, CacheTypes, NoForward
  <2> QED BY <1>1, <2>1, <2>2 DEF ProxyInv, Current
<1>15. AnswersItsRequest'
  <2>1. content.readAt \in Nat /\ time \in Nat
    BY <1>3 DEF Contents, ProxyInv, CacheTypes
  <2>2. time =< content.readAt + Timeout + MaxAge
    BY <1>3, <2>1, CacheAssumption
  <2> QED BY <1>3, <1>7, <2>2 DEF AnswersItsRequest, Serve, Answers
<1> QED BY <1>9, <1>10, <1>13, <1>14, <1>15 DEF ProxyInv

\* The end of a forward, the periodic eviction and the clock.
LEMMA QuietStep ==
  ASSUME ProxyInv, ForwardEnds \/ evictExpired \/ CacheTick
  PROVE  ProxyInv'
<1>1. CASE ForwardEnds
  <2>1. PICK f \in Forwards :
          /\ flight' = [flight EXCEPT ![f] = NoForward]
          /\ served' = NotServed /\ UNCHANGED <<time, version, store, raced, outside>>
    BY <1>1, Zenon DEF ForwardEnds
  <2>2. CacheTypes'
    BY <2>1 DEF ProxyInv, CacheTypes, FlightOk, InTime
  <2>3. \A q, op : op # "free" => (Flying(op, q)' => Flying(op, q))
    BY <2>1 DEF Flying, ProxyInv, CacheTypes, NoForward
  <2>4. WritesClear'
    BY <2>1, <2>3 DEF ProxyInv, WritesClear
  <2>5. Current'
    BY <2>1 DEF ProxyInv, CacheTypes, NoForward, Current
  <2>6. AnswersItsRequest' /\ StoreOk(store)'
    BY <2>1 DEF ProxyInv, AnswersItsRequest, NotServed
  <2> QED BY <2>2, <2>4, <2>5, <2>6 DEF ProxyInv
<1>2. CASE evictExpired
  <2>1. /\ store' = Kept(store, {e \in ToSet(store) : time =< e.expiresAt})
        /\ served' = NotServed /\ UNCHANGED <<time, version, flight, raced, outside>>
    BY <1>2 DEF evictExpired
  <2>2. StoreOk(store') /\ \A e \in ToSet(store') : e \in ToSet(store)
    BY <2>1, KeptStore DEF ProxyInv
  <2>3. CacheTypes'
    BY <2>1 DEF ProxyInv, CacheTypes, FlightOk, InTime
  <2>4. WritesClear' /\ Current'
    BY <2>1, <2>2 DEF ProxyInv, WritesClear, Flying, Current
  <2>5. AnswersItsRequest'
    BY <2>1 DEF AnswersItsRequest, NotServed
  <2> QED BY <2>2, <2>3, <2>4, <2>5 DEF ProxyInv
<1>3. CASE CacheTick
  <2>1. /\ \A f \in Forwards : flight[f].op # "free" => time < flight[f].since + Timeout
        /\ time' = time + 1
        /\ served' = NotServed /\ UNCHANGED <<version, store, flight, raced, outside>>
    BY <1>3 DEF CacheTick
  <2>2. ASSUME NEW f \in Forwards PROVE FlightOk(flight[f])'
    <3>1. CASE flight[f] = NoForward
      BY <2>1, <3>1 DEF FlightOk
    <3>2. CASE flight[f] # NoForward
      <4>1. flight[f] \in Sent \cup Fetched /\ InTime(flight[f])
        BY <3>2 DEF ProxyInv, CacheTypes, FlightOk
      <4>2. flight[f].op # "free" /\ flight[f].since \in Nat
        BY <4>1 DEF Sent, Fetched
      <4>3. time < flight[f].since + Timeout /\ time \in Nat
        BY <2>1, <4>2 DEF ProxyInv, CacheTypes
      <4>4. InTime(flight[f])'
        BY <2>1, <4>1, <4>2, <4>3, CacheAssumption DEF InTime
      <4> QED BY <2>1, <4>1, <4>4 DEF FlightOk
    <3> QED BY <3>1, <3>2
  <2>3. CacheTypes'
    BY <2>1, <2>2 DEF ProxyInv, CacheTypes
  <2>4. WritesClear' /\ Current' /\ StoreOk(store)'
    BY <2>1 DEF ProxyInv, WritesClear, Flying, Current
  <2>5. AnswersItsRequest'
    BY <2>1 DEF AnswersItsRequest, NotServed
  <2> QED BY <2>3, <2>4, <2>5 DEF ProxyInv
<1> QED BY <1>1, <1>2, <1>3

LEMMA ProxyStarts == CacheInit => ProxyInv
<1> SUFFICES ASSUME CacheInit PROVE ProxyInv
  OBVIOUS
<1>1. store = << >> /\ \A f \in Forwards : flight[f] = NoForward
  BY DEF CacheInit
<1>2. StoreOk(store) /\ ToSet(store) = {}
  <2>1. << >> \in Seq(Filed) /\ Len(<< >>) = 0 /\ DOMAIN << >> = {}
    BY EmptySeq
  <2>2. Len(store) =< MaxEntries
    BY <1>1, <2>1, CacheAssumption
  <2> QED BY <1>1, <2>1, <2>2 DEF StoreOk, KeysDistinct, ToSet
<1>3. CacheTypes
  BY <1>1 DEF CacheInit, CacheTypes, FlightOk
<1>4. WritesClear /\ Current
  BY <1>1, <1>2 DEF WritesClear, Current, Flying, NoForward
<1>5. AnswersItsRequest
  BY DEF CacheInit, AnswersItsRequest, NotServed
<1> QED BY <1>2, <1>3, <1>4, <1>5 DEF ProxyInv

\* A store in order has as many keys as entries.
LEMMA OneEntryPerKey ==
  ASSUME StoreOk(store)
  PROVE  Cardinality(Keys) = Len(store) /\ Len(store) =< MaxEntries
<1> DEFINE n == Len(store)
           f == [i \in 1..n |-> store[i].key]
<1>1. n \in Nat /\ DOMAIN store = 1..n /\ n =< MaxEntries
  BY LenProperties DEF StoreOk
<1>2. \A i, j \in 1..n : store[i].key = store[j].key => i = j
  BY <1>1 DEF StoreOk, KeysDistinct
<1>3. Keys = {store[i].key : i \in 1..n}
  BY <1>1 DEF Keys, ToSet
<1> HIDE DEF n
<1>4. f \in Bijection(1..n, Keys)
  BY <1>2, <1>3 DEF Bijection, Injection, Surjection, IsInjective
<1>5. ExistsBijection(1..n, Keys)
  BY <1>4 DEF ExistsBijection
<1>6. Cardinality(Keys) = n
  BY <1>1, <1>5, FS_CountingElements
<1> QED BY <1>1, <1>6 DEF n

\* CacheHonest: a response, from the backend or from the cache, answers the
\* request it is given to and is no older than its max-age and its fetch; no
\* response that is older than a write through the agent stays in the cache, but
\* where a read overlapped the write; and the cache keeps one entry per key,
\* within its capacity.
THEOREM CacheOfProxyCorrect == CacheSpec => []CacheHonest
<1>1. ASSUME ProxyInv, [CacheNext]_cacheVars PROVE ProxyInv'
  <2>1. CASE UNCHANGED cacheVars
    BY <1>1, <2>1 DEF cacheVars, ProxyInv, CacheTypes, FlightOk, InTime, WritesClear, Flying,
         Current, AnswersItsRequest
  <2> QED BY <1>1, <2>1, ForwardGetStep, ForwardWriteStep, ReadStep, BackendWritesStep,
             BackendChangesStep, GetAnsweredStep, QuietStep DEF CacheNext
<1>2. ASSUME ProxyInv PROVE CacheHonest
  <2>1. OwnWritesSeen
    <3>1. \A e \in ToSet(store) :
            /\ e.content.version \in Nat /\ e.content.path \in Paths
            /\ e.content.path \notin raced \cup outside => e.content.version = version[e.content.path]
      BY <1>2, StoreElements DEF ProxyInv, Current, CacheEntry, Contents
    <3>2. \A e \in ToSet(store) : e.content.path \notin raced \cup outside =>
            ~(e.content.version < version[e.content.path])
      BY <3>1
    <3>3. Cardinality(Keys) = Len(store) /\ Len(store) =< MaxEntries
      BY <1>2, OneEntryPerKey DEF ProxyInv
    <3> QED BY <3>2, <3>3 DEF OwnWritesSeen
  <2> QED BY <1>2, <2>1 DEF ProxyInv, CacheHonest
<1> QED BY <1>1, <1>2, ProxyStarts, PTL DEF CacheSpec
=============================================================================
