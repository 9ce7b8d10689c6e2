---------------------------- MODULE AgentClient ----------------------------
(***************************************************************************)
(* The agent on the developer's machine (packages/agent/src): its link to  *)
(* the hub with its reconnects (AgentClient.ts), and the way of an answer  *)
(* from the local backend to that link, through the batch                  *)
(* (batcher/MessageBatcher.ts) and, while the link is down, through the    *)
(* responses held in memory.  The agent also opens a WebSocket to the local*)
(* backend for every browser WebSocket (proxy/BackendProxy.ts).            *)
(*                                                                         *)
(* Left out: the response cache, and the durable queue, in which nothing is*)
(* put any more.                                                           *)
(*                                                                         *)
(* The hub and the network are the environment: links open, carry messages *)
(* and close as they please.  The agent is a Node.js process, so a handler *)
(* is one step.                                                            *)
(***************************************************************************)
EXTENDS Integers, Sequences, FiniteSets, SequencesExt

CONSTANTS Request,        \* requests the hub may forward
          Conn,           \* browser WebSockets the hub may relay
          Pong,           \* an agent:pong message
          Bytes,          \* message -> its size
          BatchMaxBytes,  \* BATCH_MAX_BYTES
          BatchMaxSize,   \* TIMING.BATCH_MAX_SIZE
          MaxHeld,        \* MAX_HELD_RESPONSES
          MaxHeldBytes,   \* MAX_HELD_BYTES
          RequestTimeout, \* TIMING.REQUEST_TIMEOUT_MS, for which answers are held
          MaxTime,        \* bound on the clock
          MaxLinks        \* bound on the links opened

Message == Request \cup {Pong}
Link    == 1..MaxLinks
Never   == -1

ASSUME AgentAssumption ==
  /\ Pong \notin Request
  /\ Bytes \in [Message -> Nat]
  /\ {BatchMaxBytes, MaxHeldBytes, RequestTimeout, MaxTime} \subseteq Nat
  /\ {BatchMaxSize, MaxHeld, MaxLinks} \subseteq Nat \ {0}

VARIABLES
  state,          \* AgentState
  stopped,
  reconnectTimer, \* armed
  ready,          \* link -> readyState of its WebSocket
  current,        \* the link in this.ws; 0 before the first
  told,           \* link -> what the hub said to agent:register
  now,            \* the clock
  at,             \* request -> when it was forwarded
  serving,        \* requests the local backend is handling
  buffer,         \* messages in the batch
  batchTimer,     \* armed
  held,           \* answers held, each with the time
  fate,           \* request -> how its answer left the agent
  wsConnections   \* connection -> the link it was asked for over, while its
                  \* WebSocket is open; 0 before that and Never after

vars == <<state, stopped, reconnectTimer, ready, current, told, now, at, serving,
          buffer, batchTimer, held, fate, wsConnections>>

Entry == [msg : Request, heldAt : 0..MaxTime]

TypeOK ==
  /\ state \in {"IDLE", "CONNECTING", "AUTHENTICATING", "CONNECTED", "RECONNECTING", "STOPPED"}
  /\ stopped \in BOOLEAN
  /\ reconnectTimer \in BOOLEAN
  /\ ready \in [Link -> {"none", "CONNECTING", "OPEN", "CLOSING", "CLOSED"}]
  /\ current \in 0..MaxLinks
  /\ told \in [Link -> {"nothing", "registered", "error"}]
  /\ now \in 0..MaxTime
  /\ at \in [Request -> 0..MaxTime \cup {Never}]
  /\ serving \in SUBSET Request
  /\ buffer \in Seq(Message)
  /\ batchTimer \in BOOLEAN
  /\ held \in Seq(Entry)
  /\ fate \in [Request -> {"none", "sent", "lost", "expired", "crowded", "stopped"}]
  /\ wsConnections \in [Conn -> 0..MaxLinks \cup {Never}]

Init ==
  /\ state = "IDLE"
  /\ stopped = FALSE
  /\ reconnectTimer = FALSE
  /\ ready = [k \in Link |-> "none"]
  /\ current = 0
  /\ told = [k \in Link |-> "nothing"]
  /\ now = 0
  /\ at = [r \in Request |-> Never]
  /\ serving = {}
  /\ buffer = << >>
  /\ batchTimer = FALSE
  /\ held = << >>
  /\ fate = [r \in Request |-> "none"]
  /\ wsConnections = [c \in Conn |-> 0]

linkVars   == <<state, stopped, reconnectTimer, ready, current, told>>
answerVars == <<at, serving, buffer, batchTimer, held, fate>>

-----------------------------------------------------------------------------
(***************************************************************************)
(* Answers: the batch and the held responses.                              *)
(***************************************************************************)

bytesOf(s) == FoldLeft(LAMBDA sum, m : sum + Bytes[m], 0, s)

answersIn(s) == ToSet(s) \ {Pong}

\* fate, with the answers of s ended one way.
ended(f, s, how) == [r \in Request |-> IF r \in s THEN how ELSE f[r]]

\* The held answers within the bounds: the newest ones.
trim(h) ==
  LET fits(t) ==
        /\ Len(t) <= MaxHeld
        /\ bytesOf([i \in 1..Len(t) |-> t[i].msg]) <= MaxHeldBytes \/ Len(t) <= 1
      drop == CHOOSE d \in 0..Len(h) :
                /\ fits(SubSeq(h, d + 1, Len(h)))
                /\ \A e \in 0..(d - 1) : ~fits(SubSeq(h, e + 1, Len(h)))
  IN SubSeq(h, drop + 1, Len(h))

\* holdResponse.
hold(h, m) == trim(Append(h, [msg |-> m, heldAt |-> now]))

\* holdResponse for what is not a pong.
holdAll(h, s) == FoldLeft(LAMBDA g, m : IF m = Pong THEN g ELSE hold(g, m), h, s)

heldAnswers(h) == {h[i].msg : i \in 1..Len(h)}

\* sendRaw: messages are written to the link, and dropped unless it is open.
sendRaw(f, s) ==
  ended(f, answersIn(s),
        IF ready[current] = "OPEN" THEN "sent" ELSE IF stopped THEN "stopped" ELSE "lost")

\* MessageBatcher.send, for messages that leave the batch while the agent's
\* state is st: they are written to the link, or they are held, pongs not.
sendBatch(s, st) ==
  IF st = "CONNECTED"
  THEN /\ fate' = sendRaw(fate, s)
       /\ UNCHANGED held
  ELSE /\ held' = holdAll(held, s)
       /\ fate' = ended(fate, (heldAnswers(held) \cup answersIn(s)) \ heldAnswers(held'), "crowded")

\* Mutant of add: the timer is not armed again after a flush for bytes.
addNotRearmed(b, m) ==
  LET over    == Bytes[m] > BatchMaxBytes
      first   == over \/ bytesOf(b.buf) + Bytes[m] > BatchMaxBytes
      rest    == IF first THEN << >> ELSE b.buf
      flushed == IF first THEN b.out \o b.buf ELSE b.out
  IN IF over THEN [buf |-> << >>, out |-> Append(flushed, m), timer |-> FALSE]
     ELSE IF Len(rest) + 1 >= BatchMaxSize
     THEN [buf |-> << >>, out |-> flushed \o Append(rest, m), timer |-> FALSE]
     ELSE [buf |-> Append(rest, m), out |-> flushed, timer |-> ~first]

\* MessageBatcher.add: b is the batch, the messages that have left it, and
\* whether its timer is armed.
add(b, m) ==
  LET over    == Bytes[m] > BatchMaxBytes
      first   == over \/ bytesOf(b.buf) + Bytes[m] > BatchMaxBytes
      rest    == IF first THEN << >> ELSE b.buf
      flushed == IF first THEN b.out \o b.buf ELSE b.out
  IN IF over THEN [buf |-> << >>, out |-> Append(flushed, m), timer |-> FALSE]
     ELSE IF Len(rest) + 1 >= BatchMaxSize
     THEN [buf |-> << >>, out |-> flushed \o Append(rest, m), timer |-> FALSE]
     ELSE [buf |-> Append(rest, m), out |-> flushed, timer |-> TRUE]

batch == [buf |-> buffer, out |-> << >>, timer |-> batchTimer]

\* add() for one message.
addMessage(m) ==
  LET b == add(batch, m) IN
  /\ buffer' = b.buf
  /\ batchTimer' = b.timer
  /\ sendBatch(b.out, state)

\* The batch's timer: flush().
BatchTimer ==
  /\ batchTimer
  /\ batchTimer' = FALSE
  /\ buffer' = << >>
  /\ sendBatch(buffer, state)
  /\ UNCHANGED <<linkVars, now, at, serving, wsConnections>>

\* The local backend answers, or fails and an error is answered for it.
OnForwardDone(r) ==
  /\ r \in serving
  /\ serving' = serving \ {r}
  /\ addMessage(r)
  /\ UNCHANGED <<linkVars, now, at, wsConnections>>

-----------------------------------------------------------------------------
(***************************************************************************)
(* The link.                                                               *)
(***************************************************************************)
live == {k \in Link : ready[k] \in {"CONNECTING", "OPEN", "CLOSING"}}

\* A link carries messages from the hub until it has closed, also while it
\* is closing.
carries(k) == ready[k] \in {"OPEN", "CLOSING"}

\* connect().
connect ==
  /\ current < MaxLinks
  /\ current' = current + 1
  /\ ready' = [ready EXCEPT ![current + 1] = "CONNECTING"]
  /\ state' = "CONNECTING"

Start ==
  /\ state = "IDLE"
  /\ connect
  /\ UNCHANGED <<stopped, reconnectTimer, told, now, answerVars, wsConnections>>

\* The timer of scheduleReconnect.
Reconnect ==
  /\ reconnectTimer
  /\ reconnectTimer' = FALSE
  /\ connect
  /\ UNCHANGED <<stopped, told, now, answerVars, wsConnections>>

closeAllWebSockets ==
  wsConnections' = [c \in Conn |-> IF wsConnections[c] \in Link THEN Never ELSE wsConnections[c]]

\* stop(): what is buffered or held is given up, the link is closed.
stop ==
  /\ stopped' = TRUE
  /\ state' = "STOPPED"
  /\ fate' = ended(fate, answersIn(buffer) \cup heldAnswers(held), "stopped")
  /\ buffer' = << >>
  /\ batchTimer' = FALSE
  /\ held' = << >>
  /\ reconnectTimer' = FALSE
  /\ ready' = [k \in Link |->
                 IF k = current /\ ready[k] \in {"CONNECTING", "OPEN"} THEN "CLOSING" ELSE ready[k]]
  /\ closeAllWebSockets
  /\ UNCHANGED <<current, now, at, serving>>

\* The owner of the agent calls stop().
Stop ==
  /\ ~stopped
  /\ stop
  /\ UNCHANGED told

\* onOpen: agent:register is sent.
OnOpen(k) ==
  /\ ready[k] = "CONNECTING"
  /\ ready' = [ready EXCEPT ![k] = "OPEN"]
  /\ state' = "AUTHENTICATING"
  /\ UNCHANGED <<stopped, reconnectTimer, current, told, now, answerVars, wsConnections>>

\* Mutant of expired: the length of the wait is left out.
expiredAtOnce(e) == e.heldAt < now

\* sendHeldResponses: the answer has been held for longer than the hub, by
\* default, waits for one.
expired(e) == e.heldAt < now - RequestTimeout

\* The batch, with the held answers that are not too old, and the others.
sendHeldResponses == FoldLeft(LAMBDA b, e : IF expired(e) THEN b ELSE add(b, e.msg), batch, held)
tooOld == {e.msg : e \in {x \in ToSet(held) : expired(x)}}

\* Mutant of OnRegistered: the held answers are not taken off the list.
OnRegisteredKeepsHeld(k) ==
  LET b == sendHeldResponses IN
  /\ carries(k)
  /\ told[k] = "nothing"
  /\ told' = [told EXCEPT ![k] = "registered"]
  /\ state' = "CONNECTED"
  /\ buffer' = b.buf
  /\ batchTimer' = b.timer
  /\ fate' = sendRaw(ended(fate, tooOld, "expired"), b.out)
  /\ UNCHANGED <<stopped, reconnectTimer, ready, current, now, at, serving, held, wsConnections>>

\* onRegistered: the answers held and not too old go into the batch.
OnRegistered(k) ==
  LET b == sendHeldResponses IN
  /\ carries(k)
  /\ told[k] = "nothing"
  /\ told' = [told EXCEPT ![k] = "registered"]
  /\ state' = "CONNECTED"
  /\ held' = << >>
  /\ buffer' = b.buf
  /\ batchTimer' = b.timer
  /\ fate' = sendRaw(ended(fate, tooOld, "expired"), b.out)
  /\ UNCHANGED <<stopped, reconnectTimer, ready, current, now, at, serving, wsConnections>>

\* Mutant of OnHubError: a reconnect is scheduled before the link has closed.
OnHubErrorReconnects(k) ==
  /\ carries(k)
  /\ told[k] = "nothing"
  /\ told' = [told EXCEPT ![k] = "error"]
  /\ \/ stop
     \/ /\ reconnectTimer' = ~stopped
        /\ UNCHANGED <<state, stopped, ready, current, now, answerVars, wsConnections>>

\* onHubError in answer to agent:register: a refused key or version stops the
\* agent; after any other error it waits for the link to close.
OnHubError(k) ==
  /\ carries(k)
  /\ told[k] = "nothing"
  /\ told' = [told EXCEPT ![k] = "error"]
  /\ \/ stop
     \/ UNCHANGED <<state, stopped, reconnectTimer, ready, current, now, answerVars, wsConnections>>

\* onForward, up to the call of the local backend.
OnForward(k, r) ==
  /\ carries(k)
  /\ told[k] = "registered"
  /\ at[r] = Never
  /\ at' = [at EXCEPT ![r] = now]
  /\ serving' = serving \cup {r}
  /\ UNCHANGED <<linkVars, now, buffer, batchTimer, held, fate, wsConnections>>

OnPing(k) ==
  /\ carries(k)
  /\ told[k] = "registered"
  /\ addMessage(Pong)
  /\ UNCHANGED <<linkVars, now, at, serving, wsConnections>>

\* onWsOpen: a WebSocket to the local backend.
OnWsOpen(k, c) ==
  /\ carries(k)
  /\ told[k] = "registered"
  /\ wsConnections[c] = 0
  /\ wsConnections' = [wsConnections EXCEPT ![c] = k]
  /\ UNCHANGED <<linkVars, now, answerVars>>

\* It ends: the backend closes it or fails, and the hub is told, or the hub
\* closes it (onWsClose).
WsConnectionEnds(c) ==
  /\ wsConnections[c] \in Link
  /\ wsConnections' = [wsConnections EXCEPT ![c] = Never]
  /\ UNCHANGED <<linkVars, now, answerVars>>

\* The WebSocket learns that the link is going: a close frame, an end or an
\* error.  The close event comes later.
LinkEnds(k) ==
  /\ ready[k] = "OPEN"
  /\ ready' = [ready EXCEPT ![k] = "CLOSING"]
  /\ UNCHANGED <<state, stopped, reconnectTimer, current, told, now, answerVars, wsConnections>>

\* Mutant of OnClose: the state changes only when the reconnect begins.
OnCloseStateKept(k) ==
  /\ ready[k] \in {"CONNECTING", "CLOSING"}
  /\ ready' = [ready EXCEPT ![k] = "CLOSED"]
  /\ IF stopped
     THEN UNCHANGED <<reconnectTimer, buffer, batchTimer, held, fate, wsConnections>>
     ELSE /\ reconnectTimer' = TRUE
          /\ closeAllWebSockets
          /\ buffer' = << >>
          /\ batchTimer' = FALSE
          /\ sendBatch(buffer, "RECONNECTING")
  /\ UNCHANGED <<state, stopped, current, told, now, at, serving>>

\* Mutant of OnClose: the backend WebSockets are left open.
OnCloseSocketsKept(k) ==
  /\ ready[k] \in {"CONNECTING", "CLOSING"}
  /\ ready' = [ready EXCEPT ![k] = "CLOSED"]
  /\ IF stopped
     THEN UNCHANGED <<state, reconnectTimer, buffer, batchTimer, held, fate>>
     ELSE /\ state' = "RECONNECTING"
          /\ reconnectTimer' = TRUE
          /\ buffer' = << >>
          /\ batchTimer' = FALSE
          /\ sendBatch(buffer, "RECONNECTING")
  /\ UNCHANGED <<stopped, current, told, now, at, serving, wsConnections>>

\* onClose: what is buffered is held, and a reconnect scheduled.
OnClose(k) ==
  /\ ready[k] \in {"CONNECTING", "CLOSING"}
  /\ ready' = [ready EXCEPT ![k] = "CLOSED"]
  /\ IF stopped
     THEN UNCHANGED <<state, reconnectTimer, buffer, batchTimer, held, fate, wsConnections>>
     ELSE /\ state' = "RECONNECTING"
          /\ reconnectTimer' = TRUE
          /\ closeAllWebSockets
          /\ buffer' = << >>
          /\ batchTimer' = FALSE
          /\ sendBatch(buffer, "RECONNECTING")
  /\ UNCHANGED <<stopped, current, told, now, at, serving>>

Tick ==
  /\ now < MaxTime
  /\ now' = now + 1
  /\ UNCHANGED <<linkVars, answerVars, wsConnections>>

Next ==
  \/ Start \/ Reconnect \/ Stop \/ BatchTimer \/ Tick
  \/ \E r \in Request : OnForwardDone(r)
  \/ \E c \in Conn : WsConnectionEnds(c)
  \/ \E k \in Link :
       \/ OnOpen(k) \/ OnRegistered(k) \/ OnHubError(k) \/ OnPing(k)
       \/ LinkEnds(k) \/ OnClose(k)
       \/ \E r \in Request : OnForward(k, r)
       \/ \E c \in Conn : OnWsOpen(k, c)

Spec == Init /\ [][Next]_vars

\* The batch's timer fires.
FairSpec == Spec /\ WF_vars(BatchTimer)

-----------------------------------------------------------------------------
\* No answer is duplicated and none disappears unaccounted for: a request
\* that was forwarded is with the backend, or its answer is once in the batch,
\* or once among the held, or it has left the agent, and only one of these
\* (MessageBatcher.add, flush and flushToQueue, holdResponse,
\* sendHeldResponses).
AnswersAccounted ==
  \A r \in Request :
    LET copies == Cardinality({i \in 1..Len(buffer) : buffer[i] = r})
                    + Cardinality({i \in 1..Len(held) : held[i].msg = r})
                    + (IF r \in serving THEN 1 ELSE 0)
                    + (IF fate[r] # "none" THEN 1 ELSE 0)
    IN copies = IF at[r] = Never THEN 0 ELSE 1

\* "Single WS connection" (AgentClient.ts:2): at most one link is not closed,
\* it is the one messages are written to, and no reconnect is scheduled while
\* there is one.
SingleLink ==
  /\ live \subseteq {current}
  /\ reconnectTimer => live = {}

\* The state the batch goes by (isConnected) is CONNECTED only with a link on
\* which the hub has registered the agent and whose close event has not come,
\* unless the agent was stopped.
ConnectedHasLink ==
  state = "CONNECTED" /\ ~stopped => carries(current) /\ told[current] = "registered"

\* sendHeldResponses: an answer is dropped as too old only when its request was
\* forwarded more than TIMING.REQUEST_TIMEOUT_MS ago, whatever outages it was
\* held through.  A hub that waits as long, the default, "has already given up
\* on" it; one configured to wait longer (TUNNEL_REQUEST_TIMEOUT_MS) has not.
DropsOnlyGivenUp ==
  \A r \in Request : fate[r] = "expired" => now > at[r] + RequestTimeout

\* A WebSocket to the local backend does not outlive the link it was asked for
\* over, or it would stay open "with nobody on the other end" (onClose),
\* unless the agent was stopped.
BackendSocketsFollowLink ==
  \A c \in Conn : wsConnections[c] \in Link /\ ~stopped => carries(wsConnections[c])

\* An answer does not stay in the batch (MessageBatcher.add, flush).
AnswersLeaveBatch ==
  \A r \in Request : r \in ToSet(buffer) ~> r \notin ToSet(buffer)

-----------------------------------------------------------------------------
(***************************************************************************)
(* What comments and documentation say and the code does not keep.         *)
(***************************************************************************)

\* AgentClient.ts: "Never leave a request unanswered", and
\* MessageBatcher.ts: what is buffered when the link drops is held.
NoAnswerLost == \A r \in Request : fate[r] # "lost"
=============================================================================
