--------------------------- MODULE AgentRegistry ---------------------------
(***************************************************************************)
(* The hub's in-memory registry of connected agents                        *)
(* (apps/hub/src/registry/Agent.registry.ts): the sessions by account and  *)
(* label, and the two reverse indexes the rest of the hub looks them up by.*)
(*                                                                         *)
(* A session is created once per agent connection, with a fresh agentId,   *)
(* so the connection's socket stands for the session, for its agentId and  *)
(* for the socket itself: byAgentId and byWs are the sets of sockets those *)
(* maps have an entry for.  The operations are the effects of the methods  *)
(* on this state; the hub's handlers conjoin them with their own.          *)
(***************************************************************************)
EXTENDS Naturals, FiniteSets

CONSTANTS Account,   \* accounts
          Label,     \* agent labels
          Socket,    \* agent connections
          None       \* no session

VARIABLES accounts,  \* account and label -> the session registered there
          byAgentId, \* agentIds that findByAgentId finds
          byWs       \* sockets that findByWs finds

\* An account and a label: what a session is filed under, and, through the
\* account's unique slug, what a tunnel host name stands for.
Name == Account \X Label

TypeOK ==
  /\ accounts \in [Name -> Socket \cup {None}]
  /\ byAgentId \in SUBSET Socket
  /\ byWs \in SUBSET Socket

Init ==
  /\ accounts = [n \in Name |-> None]
  /\ byAgentId = {}
  /\ byWs = {}

allSessions == {w \in Socket : \E n \in Name : accounts[n] = w}

sessionsOf(a) == {w \in Socket : \E l \in Label : accounts[<<a, l>>] = w}

countByAccount(a) == Cardinality(sessionsOf(a))

\* Mutant of register: the replaced session's socket stays in byWs.
registerKeepsOldSocket(w, n) ==
  /\ accounts' = [accounts EXCEPT ![n] = w]
  /\ byAgentId' = (byAgentId \ {accounts[n]}) \cup {w}
  /\ byWs' = byWs \cup {w}

\* A session with the same label is dropped from every map first.
register(w, n) ==
  /\ accounts' = [accounts EXCEPT ![n] = w]
  /\ byAgentId' = (byAgentId \ {accounts[n]}) \cup {w}
  /\ byWs' = (byWs \ {accounts[n]}) \cup {w}

\* The sessions that evict(accountId, label) removes, for each name of ns:
\* whatever is registered there now.
evicted(ns) == {w \in Socket : \E n \in ns : accounts[n] = w}

\* evict() for each name of ns, in one synchronous block.
evict(ns) ==
  /\ accounts' = [n \in Name |-> IF n \in ns THEN None ELSE accounts[n]]
  /\ byAgentId' = byAgentId \ evicted(ns)
  /\ byWs' = byWs \ evicted(ns)
=============================================================================
