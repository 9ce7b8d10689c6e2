---------------------------- MODULE ResponseCache ----------------------------
(***************************************************************************)
(* The agent's proxy to the local backend and its cache of GET responses.  *)
(*                                                                         *)
(* What the backend answers depends on the path, on the caller's           *)
(* credentials and on the version of the resource, and on one more request *)
(* header where it says so in Vary.  A response names what it was made     *)
(* from; its body is left out.                                             *)
(***************************************************************************)
EXTENDS Naturals, Sequences, SequencesExt, FiniteSets

CONSTANTS Paths,       \* paths of resources, as sequences of segments
          Creds,       \* values of the credential headers
          Langs,       \* values of a header the backend may vary on
          Forwards,    \* requests in flight
          MaxAge,      \* max-age of a cacheable response
          Timeout,     \* timeoutMs of a forward
          MaxEntries,  \* MAX_ENTRIES
          MaxNow,      \* bound on the clock
          MaxVersion   \* bound on the changes of a resource

ASSUME CacheAssumption ==
  /\ MaxAge \in Nat \ {0} /\ Timeout \in Nat /\ MaxEntries \in Nat \ {0}
  /\ MaxNow \in Nat /\ MaxVersion \in Nat
  /\ \A p \in Paths : p # <<>> /\ p \in Seq(ToSet(p))

VARIABLES
  time,
  version,   \* version of the resource at each path
  store,     \* ResponseCache.store, in the order of insertion
  flight,    \* forwards in flight
  served,    \* the response given last, with the request it answers
  raced,     \* paths read while a write through the agent was under way
  outside    \* paths changed other than by a write to them through the agent

cacheVars == <<time, version, store, flight, served, raced, outside>>

NoForward == [op |-> "free"]
NotServed == [op |-> "none"]
NoVary == "any"              \* a response that does not vary on the header

CacheInit ==
  /\ time = 0 /\ version = [p \in Paths |-> 0] /\ store = <<>>
  /\ flight = [f \in Forwards |-> NoForward] /\ served = NotServed
  /\ raced = {} /\ outside = {}

-----------------------------------------------------------------------------
(* The cache. *)

buildKeyPathOnly(req) == <<req.path>>
buildKey(req) == <<req.path, req.cred>>

Keys == {e.key : e \in ToSet(store)}
cached(key) == CHOOSE e \in ToSet(store) : e.key = key

\* The entries of q that are in T, in their order.
Kept(q, T) ==
  LET kept[n \in 0..Len(q)] ==
        IF n = 0 THEN <<>> ELSE IF q[n] \in T THEN Append(kept[n - 1], q[n]) ELSE kept[n - 1]
  IN kept[Len(q)]
Without(S) == Kept(store, {e \in ToSet(store) : e.key \notin S})

varies(e, req) == e.content.lang # NoVary /\ e.content.lang # req.lang
Hit(req) ==
  /\ buildKey(req) \in Keys
  /\ cached(buildKey(req)).expiresAt >= time
  /\ ~varies(cached(buildKey(req)), req)

\* get: an entry past its time is dropped by the lookup that finds it.
afterGet(req) ==
  IF buildKey(req) \in Keys /\ time > cached(buildKey(req)).expiresAt
  THEN Without({buildKey(req)}) ELSE store

\* set: not for what the backend does not allow; the oldest entry makes room.
\* A key that is there keeps its place.
set(req, content) ==
  LET e == [key |-> buildKey(req), content |-> content, expiresAt |-> time + MaxAge]
  IN IF e.key \in Keys THEN [i \in DOMAIN store |-> IF store[i].key = e.key THEN e ELSE store[i]]
     ELSE Append(IF Len(store) >= MaxEntries THEN Tail(store) ELSE store, e)

invalidatePrefix(prefix) == Without({k \in Keys : IsPrefix(prefix, k[1])})

\* invalidateCacheFor: everything under the parent of the path.
invalidateParentOnly(path) == Without({k \in Keys : k[1] = Front(path)})
invalidateCacheFor(path) ==
  invalidatePrefix(IF Len(path) = 1 THEN path ELSE Front(path))

-----------------------------------------------------------------------------
(* Forwards.  onForward invalidates, then forward() looks the request up;  *)
(* there is no await between the two.                                      *)

Serve(req, content) == served' = [op |-> "served", req |-> req, content |-> content, at |-> time]

Flying(op, p) == \E f \in Forwards : flight[f].op = op /\ flight[f].req.path = p

ForwardGet ==
  \E f \in Forwards, p \in Paths, c \in Creds, l \in Langs :
    LET req == [path |-> p, cred |-> c, lang |-> l]
    IN /\ flight[f] = NoForward
       /\ IF Hit(req)
          THEN /\ Serve(req, cached(buildKey(req)).content) /\ UNCHANGED <<flight, store, raced>>
          ELSE /\ flight' = [flight EXCEPT ![f] = [op |-> "get", req |-> req, since |-> time]]
               /\ store' = afterGet(req) /\ served' = NotServed
               /\ raced' = IF Flying("write", p) \/ Flying("done", p) THEN raced \cup {p} ELSE raced
       /\ UNCHANGED <<time, version, outside>>

ForwardWrite ==
  \E f \in Forwards, p \in Paths, c \in Creds :
    /\ flight[f] = NoForward
    /\ store' = invalidateCacheFor(p)
    /\ flight' = [flight EXCEPT ![f] = [op |-> "write", since |-> time,
                    req |-> [path |-> p, cred |-> c, lang |-> NoVary]]]
    /\ raced' = IF Flying("get", p) \/ Flying("got", p) THEN raced \cup {p} ELSE raced
    /\ served' = NotServed /\ UNCHANGED <<time, version, outside>>

\* The backend reads or changes the resource some time before it answers.
BackendReads ==
  \E f \in Forwards, l \in {NoVary, "own"} :
    /\ flight[f].op = "get"
    /\ LET req == flight[f].req
       IN flight' = [flight EXCEPT ![f] = [op |-> "got", req |-> req, since |-> flight[f].since,
            content |-> [path |-> req.path, cred |-> req.cred, version |-> version[req.path],
                         lang |-> IF l = NoVary THEN NoVary ELSE req.lang, readAt |-> time]]]
    /\ served' = NotServed /\ UNCHANGED <<time, version, store, raced, outside>>

BackendWrites ==
  \E f \in Forwards :
    /\ flight[f].op = "write" /\ version[flight[f].req.path] < MaxVersion
    /\ version' = [version EXCEPT ![flight[f].req.path] = @ + 1]
    /\ flight' = [flight EXCEPT ![f].op = "done"]
    /\ served' = NotServed /\ UNCHANGED <<time, store, raced, outside>>

\* A cron job, another client of the backend, a write to another path.
BackendChanges ==
  \E p \in Paths :
    /\ version[p] < MaxVersion /\ version' = [version EXCEPT ![p] = @ + 1]
    /\ outside' = outside \cup {p}
    /\ served' = NotServed /\ UNCHANGED <<time, store, flight, raced>>

\* max-age on a 2xx, and none of no-store, no-cache, private, Set-Cookie, Vary: *.
GetAnswered ==
  \E f \in Forwards :
    /\ flight[f].op = "got"
    /\ store' \in {store, set(flight[f].req, flight[f].content)}
    /\ Serve(flight[f].req, flight[f].content)
    /\ flight' = [flight EXCEPT ![f] = NoForward]
    /\ UNCHANGED <<time, version, raced, outside>>

\* The write is answered, or the backend cannot be reached or is too slow.
ForwardEnds ==
  \E f \in Forwards :
    /\ flight[f].op \in {"done", "write", "get"}
    /\ flight' = [flight EXCEPT ![f] = NoForward]
    /\ served' = NotServed /\ UNCHANGED <<time, version, store, raced, outside>>

evictExpired ==
  /\ store' = Kept(store, {e \in ToSet(store) : time =< e.expiresAt}) /\ store' # store
  /\ served' = NotServed /\ UNCHANGED <<time, version, flight, raced, outside>>

\* No forward outlives its timeout.
CacheTick ==
  /\ time < MaxNow /\ \A f \in Forwards : flight[f].op # "free" => time < flight[f].since + Timeout
  /\ time' = time + 1
  /\ served' = NotServed /\ UNCHANGED <<version, store, flight, raced, outside>>

CacheNext ==
  \/ ForwardGet \/ ForwardWrite \/ BackendReads \/ BackendWrites \/ BackendChanges
  \/ GetAnswered \/ ForwardEnds \/ evictExpired \/ CacheTick
CacheSpec == CacheInit /\ [][CacheNext]_cacheVars

-----------------------------------------------------------------------------
(* Properties. *)

\* A response, cached or not, answers the request it is given to: it was made
\* for this path, for these credentials and, where the backend varies on the
\* header, for this value of it; and it is never older than max-age and the
\* time its fetch took.
AnswersItsRequest ==
  served.op = "served" =>
    /\ served.content.path = served.req.path
    /\ served.content.cred = served.req.cred
    /\ served.content.lang \in {NoVary, served.req.lang}
    /\ served.at =< served.content.readAt + Timeout + MaxAge

\* A write that goes through the agent leaves no older response of its path in
\* the cache, whoever it was cached for, unless a read of the path overlapped
\* the write; and the cache keeps one entry per key, within its capacity.
OwnWritesSeen ==
  /\ \A e \in ToSet(store) :
       e.content.version < version[e.content.path]
         /\ e.content.path \notin raced \cup outside =>
       \E f \in Forwards : flight[f].op = "done" /\ flight[f].req.path = e.content.path
  /\ Cardinality(Keys) = Len(store) /\ Len(store) =< MaxEntries

\* The agent's cache (ResponseCache, AgentClient.onForward) gives no request a
\* response that is not its own, and no write of its own is forgotten.
CacheHonest == AnswersItsRequest /\ OwnWritesSeen

=============================================================================
