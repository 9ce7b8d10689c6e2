-------------------------- MODULE PendingRegistry --------------------------
(***************************************************************************)
(* The requests that wait for an agent's answer                            *)
(* (apps/hub/src/registry/Pending.registry.ts).  Each entry has the account*)
(* and label it was sent to, a timer, and the two callbacks that write the *)
(* answer to the caller; replies counts, per request, the answers written  *)
(* by the callbacks and by the handlers' own error replies.  The mirror of *)
(* the map in Redis (hub:pending keys) is written and never read: left out.*)
(***************************************************************************)
EXTENDS Naturals

CONSTANTS Name,      \* account and label pairs
          Request,   \* requests
          None       \* no entry

VARIABLES pending,   \* request -> the name it is waiting under
          timers,    \* requests whose timer is armed
          replies    \* request -> answers written to its caller

TypeOK ==
  /\ pending \in [Request -> Name \cup {None}]
  /\ timers \in SUBSET Request
  /\ replies \in [Request -> Nat]

Init ==
  /\ pending = [r \in Request |-> None]
  /\ timers = {}
  /\ replies = [r \in Request |-> 0]

\* Mutant of enqueue: no timer is armed.
enqueueWithoutTimer(r, n) ==
  /\ pending' = [pending EXCEPT ![r] = n]
  /\ UNCHANGED <<timers, replies>>

enqueue(r, n) ==
  /\ pending' = [pending EXCEPT ![r] = n]
  /\ timers' = timers \cup {r}
  /\ UNCHANGED replies

\* Mutant of settle: the timer is not cleared.
settleWithoutClearing(r) ==
  LET found == pending[r] # None IN
  /\ pending' = [pending EXCEPT ![r] = None]
  /\ replies' = [replies EXCEPT ![r] = IF found THEN @ + 1 ELSE @]
  /\ UNCHANGED timers

\* resolve(requestId) and reject(requestId): one callback runs and the entry
\* goes, or nothing happens because the entry has already gone.
settle(r) ==
  LET found == pending[r] # None IN
  /\ pending' = [pending EXCEPT ![r] = None]
  /\ timers' = IF found THEN timers \ {r} ELSE timers
  /\ replies' = [replies EXCEPT ![r] = IF found THEN @ + 1 ELSE @]

\* The entries rejectAllForAgent rejects, for each name of ns.
waitingFor(ns) == {r \in Request : pending[r] \in ns}

rejectAllForAgent(ns) ==
  /\ pending' = [r \in Request |-> IF r \in waitingFor(ns) THEN None ELSE pending[r]]
  /\ timers' = timers \ waitingFor(ns)
  /\ replies' = [r \in Request |-> IF r \in waitingFor(ns) THEN replies[r] + 1 ELSE replies[r]]

\* A handler answers the caller itself (an error reply); no entry is involved.
answer(r) ==
  /\ replies' = [replies EXCEPT ![r] = @ + 1]
  /\ UNCHANGED <<pending, timers>>
=============================================================================
