----------------------------- MODULE ReplayQueue -----------------------------
(***************************************************************************)
(* The agent's durable queue and its replay after every registration.      *)
(* Nothing puts a request into the queue any more: what a replay finds are *)
(* rows left on disk by an earlier agent, of both directions.  The agent   *)
(* may stop or crash in the middle of a replay, and may register again     *)
(* while an earlier replay still waits for the backend.                    *)
(***************************************************************************)
EXTENDS Naturals, Sequences, SequencesExt, FiniteSets

CONSTANTS Items,         \* rows of the queue
          Replays,       \* replays
          MaxAttempts,   \* max_attempts of a row
          MaxTicksR      \* bound on the clock

ASSUME ReplayQueueAssumption == MaxAttempts \in Nat \ {0} /\ MaxTicksR \in Nat

VARIABLES
  tick,
  queue,       \* rows: direction, attempts, nextRetryAt; absent once deleted
  deadLetter,  \* rows of dead_letter
  replay,      \* rows each replay has still to process, and what it awaits
  ran,         \* rows whose request the backend has answered
  up           \* the agent runs and its queue is open

queueVars == <<tick, queue, deadLetter, replay, ran, up>>

Resting == [todo |-> <<>>, wait |-> "none"]

QueueInit ==
  /\ tick = 0 /\ deadLetter = {} /\ up = FALSE
  /\ \E S \in SUBSET Items :
       queue \in [S -> [direction : {"inbound", "outbound"}, attempts : {0}, nextRetryAt : {0}]]
  /\ replay = [r \in Replays |-> Resting]
  /\ ran = {}

Removed(q, S) == [i \in DOMAIN q \ S |-> q[i]]

\* The constructor deletes the responses older agents left.
Open ==
  /\ ~up /\ up' = TRUE
  /\ queue' = Removed(queue, {i \in DOMAIN queue : queue[i].direction = "outbound"})
  /\ UNCHANGED <<tick, deadLetter, replay, ran>>

\* A stop closes the database; like a crash, it ends every replay: the next
\* markSuccess or markFailed throws.
StopOrCrash ==
  /\ up /\ up' = FALSE /\ replay' = [r \in Replays |-> Resting]
  /\ UNCHANGED <<tick, queue, deadLetter, ran>>

\* drainForReplay: rows that are due, outbound first, then the oldest.
drainForReplay == {s \in SetToSeqs({i \in DOMAIN queue : queue[i].nextRetryAt =< tick}) :
  \A a, b \in DOMAIN s : a < b =>
    ~(queue[s[a]].direction = "inbound" /\ queue[s[b]].direction = "outbound")}

\* onRegistered.
replayQueue ==
  \E r \in Replays :
    /\ up /\ replay[r] = Resting
    /\ \E s \in drainForReplay : s # <<>> /\ replay' = [replay EXCEPT ![r] = [todo |-> s, wait |-> "none"]]
    /\ UNCHANGED <<tick, queue, deadLetter, ran, up>>

markSuccess(i) == queue' = Removed(queue, {i}) /\ UNCHANGED deadLetter

backoff(attempts) == 2^(attempts - 1)
markFailedRetry(i) ==
  IF i \notin DOMAIN queue THEN UNCHANGED <<queue, deadLetter>>
  ELSE LET n == queue[i].attempts + 1
       IN /\ queue' = [queue EXCEPT ![i].attempts = n, ![i].nextRetryAt = tick + backoff(n)]
          /\ UNCHANGED deadLetter
markFailed(i) ==
  IF i \notin DOMAIN queue THEN UNCHANGED <<queue, deadLetter>>
  ELSE LET n == queue[i].attempts + 1
       IN IF n >= MaxAttempts
          THEN deadLetter' = deadLetter \cup {i} /\ queue' = Removed(queue, {i})
          ELSE /\ queue' = [queue EXCEPT ![i].attempts = n, ![i].nextRetryAt = tick + backoff(n)]
               /\ UNCHANGED deadLetter

\* The next row: a response left by an older agent is deleted unsent, a
\* request is forwarded to the backend.
NextItem ==
  \E r \in Replays :
    /\ replay[r].todo # <<>> /\ replay[r].wait = "none"
    /\ LET i == Head(replay[r].todo)
       IN IF i \in DOMAIN queue /\ queue[i].direction = "outbound"
          THEN markSuccess(i) /\ replay' = [replay EXCEPT ![r].todo = Tail(@)]
          ELSE replay' = [replay EXCEPT ![r].wait = "backend"] /\ UNCHANGED <<queue, deadLetter>>
    /\ UNCHANGED <<tick, ran, up>>

\* The backend has answered; the response is sent (dropped when the socket is
\* down) and the row marked in one go.
BackendAnswers ==
  \E r \in Replays :
    /\ replay[r].wait = "backend"
    /\ ran' = ran \cup {Head(replay[r].todo)}
    /\ replay' = [replay EXCEPT ![r].wait = "answered"]
    /\ UNCHANGED <<tick, queue, deadLetter, up>>

ItemSucceeds ==
  \E r \in Replays :
    /\ replay[r].wait = "answered" /\ markSuccess(Head(replay[r].todo))
    /\ replay' = [replay EXCEPT ![r] = [todo |-> Tail(@.todo), wait |-> "none"]]
    /\ UNCHANGED <<tick, ran, up>>

ItemFails ==
  \E r \in Replays :
    /\ replay[r].wait = "backend" /\ markFailed(Head(replay[r].todo))
    /\ replay' = [replay EXCEPT ![r] = [todo |-> Tail(@.todo), wait |-> "none"]]
    /\ UNCHANGED <<tick, ran, up>>

QueueTick == tick < MaxTicksR /\ tick' = tick + 1 /\ UNCHANGED <<queue, deadLetter, replay, ran, up>>

QueueNext ==
  \/ Open \/ StopOrCrash \/ replayQueue \/ NextItem
  \/ BackendAnswers \/ ItemSucceeds \/ ItemFails \/ QueueTick
QueueSpec == QueueInit /\ [][QueueNext]_queueVars

-----------------------------------------------------------------------------

\* Through crashes and overlapping replays, no row is lost or retried for ever:
\* a request leaves the queue only when the backend answered it or, after
\* max_attempts, for dead_letter, never for both places; a row in the queue
\* has attempts left; and the responses of older agents are not kept once the
\* agent runs.
RowsAccounted ==
  /\ DOMAIN queue \cap deadLetter = {}
  /\ \A i \in DOMAIN queue : queue[i].attempts < MaxAttempts
  /\ up => \A i \in DOMAIN queue : queue[i].direction = "inbound"
ReplayAccounted ==
  [][RowsAccounted' /\ \A i \in DOMAIN queue :
       queue[i].direction = "inbound" /\ i \notin DOMAIN queue' =>
         i \in ran \/ i \in deadLetter']_queueVars

=============================================================================
