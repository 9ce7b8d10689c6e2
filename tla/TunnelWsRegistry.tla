------------------------- MODULE TunnelWsRegistry -------------------------
(***************************************************************************)
(* The browser WebSockets that are tunnelled to an agent                   *)
(* (apps/hub/src/registry/TunnelWs.registry.ts): the owner of each         *)
(* connection, the reverse index that finds an agent's connections, and    *)
(* the state of each browser socket.                                       *)
(***************************************************************************)
CONSTANTS Socket,        \* agent connections, which stand for agentIds
          Conn,          \* tunnelled browser connections
          None           \* no entry

VARIABLES byConnection,  \* connectionId -> the agentId that owns it
          ofAgent,       \* agentId -> its connectionIds
          browser        \* state of the browser's socket

TypeOK ==
  /\ byConnection \in [Conn -> Socket \cup {None}]
  /\ ofAgent \in [Socket -> SUBSET Conn]
  /\ browser \in [Conn -> {"none", "open", "closed"}]

Init ==
  /\ byConnection = [c \in Conn |-> None]
  /\ ofAgent = [w \in Socket |-> {}]
  /\ browser = [c \in Conn |-> "none"]

add(c, w) ==
  /\ byConnection' = [byConnection EXCEPT ![c] = w]
  /\ ofAgent' = [ofAgent EXCEPT ![w] = @ \cup {c}]
  /\ browser' = [browser EXCEPT ![c] = "open"]

\* Mutant of teardown: the connection stays in the agent's index.
teardownKeepsIndex(cs) ==
  LET found == {c \in cs : byConnection[c] # None} IN
  /\ byConnection' = [c \in Conn |-> IF c \in found THEN None ELSE byConnection[c]]
  /\ browser' = [c \in Conn |-> IF c \in found THEN "closed" ELSE browser[c]]
  /\ UNCHANGED ofAgent

\* delete() followed by the close of the browser's socket: a teardown.  A
\* connection without an entry has been torn down before: nothing happens.
teardown(cs) ==
  LET found == {c \in cs : byConnection[c] # None} IN
  /\ byConnection' = [c \in Conn |-> IF c \in found THEN None ELSE byConnection[c]]
  /\ ofAgent' = [w \in Socket |-> ofAgent[w] \ {c \in found : byConnection[c] = w}]
  /\ browser' = [c \in Conn |-> IF c \in found THEN "closed" ELSE browser[c]]

\* closeAllForAgent() for each agentId of ws: the connections are the ones
\* the reverse index has.
closeAllForAgent(ws) == teardown(UNION {ofAgent[w] : w \in ws})
=============================================================================
