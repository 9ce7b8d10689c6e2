------------------------- MODULE SubdomainRegistry -------------------------
(***************************************************************************)
(* The routing table from a tunnel's host name to the agent that serves it *)
(* (apps/hub/src/services/SubdomainRegistry.service.ts).  The table is in  *)
(* Redis; a per-key promise chain (withLock) runs the hub's register and   *)
(* unregister calls for a name one at a time, in the order they were made. *)
(* register is one Redis command, unregister two: a read, and a delete if  *)
(* the entry read is the caller's.                                         *)
(***************************************************************************)
EXTENDS Naturals, Sequences

CONSTANTS Name,     \* account and label pairs; the key is made from them
          Socket,   \* agent connections, which stand for agentIds
          Request,  \* HTTP requests, whose stale-entry cleanup unregisters
          None      \* no entry, no request

VARIABLES redis,    \* name -> agentId of the entry
          locks     \* name -> calls running (the first) and waiting

\* A call: what it does, for which agentId, the HTTP request that awaits it
\* if any, and whether an unregister has decided to delete.
Call == [op : {"register", "unregister"}, agent : Socket,
         req : Request \cup {None}, deleting : BOOLEAN]

TypeOK ==
  /\ redis \in [Name -> Socket \cup {None}]
  /\ locks \in [Name -> Seq(Call)]

Init ==
  /\ redis = [n \in Name |-> None]
  /\ locks = [n \in Name |-> << >>]

\* withLock: the call waits for the ones before it.
withLock(n, call) == locks' = [locks EXCEPT ![n] = Append(@, call)]

register(n, w) ==
  /\ withLock(n, [op |-> "register", agent |-> w, req |-> None, deleting |-> FALSE])
  /\ UNCHANGED redis

unregister(n, w, r) ==
  /\ withLock(n, [op |-> "unregister", agent |-> w, req |-> r, deleting |-> FALSE])
  /\ UNCHANGED redis

\* The next call may run only when the one before it has settled.
running(n) == Head(locks[n])

settled(n) == locks' = [locks EXCEPT ![n] = Tail(@)]

\* register: the entry is written whatever was there.
Set(n) ==
  /\ locks[n] # << >>
  /\ running(n).op = "register"
  /\ redis' = [redis EXCEPT ![n] = running(n).agent]
  /\ settled(n)

\* unregister, the read: no entry, or one of another agent, ends the call.
GetOther(n) ==
  /\ locks[n] # << >>
  /\ running(n).op = "unregister"
  /\ ~running(n).deleting
  /\ redis[n] # running(n).agent
  /\ settled(n)
  /\ UNCHANGED redis

\* Mutant of GetOwn: whichever entry there is, is deleted.
GetAny(n) ==
  /\ locks[n] # << >>
  /\ running(n).op = "unregister"
  /\ ~running(n).deleting
  /\ redis[n] # None
  /\ locks' = [locks EXCEPT ![n][1].deleting = TRUE]
  /\ UNCHANGED redis

\* unregister, the read finds the caller's own entry.
GetOwn(n) ==
  /\ locks[n] # << >>
  /\ running(n).op = "unregister"
  /\ ~running(n).deleting
  /\ redis[n] = running(n).agent
  /\ locks' = [locks EXCEPT ![n][1].deleting = TRUE]
  /\ UNCHANGED redis

\* unregister, the delete.
Del(n) ==
  /\ locks[n] # << >>
  /\ running(n).deleting
  /\ redis' = [redis EXCEPT ![n] = None]
  /\ settled(n)

\* A Redis command fails: the call rejects and the next one runs.
Fail(n) ==
  /\ locks[n] # << >>
  /\ settled(n)
  /\ UNCHANGED redis
=============================================================================
