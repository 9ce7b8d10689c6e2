----------------------------- MODULE RequestLog -----------------------------
(***************************************************************************)
(* The hub's log of tunnelled SDK requests: TunnelRequest rows, written by *)
(* calls nobody waits for.  create first looks the agent's session row up, *)
(* which an upsert as little waited for may not have written yet; the      *)
(* outcome is written by an update that finds the row or not.  Calls reach *)
(* the database in any order, and each may fail.                           *)
(***************************************************************************)
EXTENDS FiniteSets

CONSTANTS LogRequests   \* requestIds, of different SDK calls

VARIABLES
  sessionRow,  \* the agent's TunnelSession row has been written
  pending,     \* requests the hub waits for
  answered,    \* what the agent sent for each request
  calls,       \* database calls on their way
  rows         \* TunnelRequest rows: status and errorCode

logVars == <<sessionRow, pending, answered, calls, rows>>

Null == "null"
Outcomes == {"response", "error"}

LogInit ==
  /\ sessionRow = FALSE /\ pending = {} /\ calls = {}
  /\ answered = [r \in LogRequests |-> "new"]
  /\ rows = [r \in {} |-> Null]

\* The upsert of handleAgentRegister, done at last.
SessionUpserted == ~sessionRow /\ sessionRow' = TRUE /\ UNCHANGED <<pending, answered, calls, rows>>

\* handleSdkRequest: registered, sent, logged.
SdkRequest ==
  \E r \in LogRequests :
    /\ answered[r] = "new"
    /\ answered' = [answered EXCEPT ![r] = "none"]
    /\ pending' = pending \cup {r}
    /\ calls' = calls \cup {[op |-> "create", id |-> r]}
    /\ UNCHANGED <<sessionRow, rows>>

RequestTimesOut ==
  \E r \in pending : pending' = pending \ {r} /\ UNCHANGED <<sessionRow, answered, calls, rows>>

recordAlways(r) == calls' = calls \cup {[op |-> "response", id |-> r]}
recordResolved(r) ==
  calls' = IF r \in pending THEN calls \cup {[op |-> "response", id |-> r]} ELSE calls

\* handleTunnelResponse: only a response somebody still waits for is recorded.
TunnelResponse ==
  \E r \in LogRequests :
    /\ answered[r] = "none"
    /\ answered' = [answered EXCEPT ![r] = IF r \in pending THEN "response" ELSE "late"]
    /\ recordResolved(r)
    /\ pending' = pending \ {r}
    /\ UNCHANGED <<sessionRow, rows>>

\* handleTunnelAgentError: recorded in any case.
TunnelAgentError ==
  \E r \in LogRequests :
    /\ answered[r] = "none" /\ answered' = [answered EXCEPT ![r] = "error"]
    /\ calls' = calls \cup {[op |-> "error", id |-> r]}
    /\ pending' = pending \ {r}
    /\ UNCHANGED <<sessionRow, rows>>

Row(status, errorCode) == [status |-> status, errorCode |-> errorCode]

\* create: the session is looked up, then the row inserted.
CreateFindsSession ==
  \E c \in calls :
    /\ c.op = "create"
    /\ calls' = (calls \ {c}) \cup (IF sessionRow THEN {[op |-> "insert", id |-> c.id]} ELSE {})
    /\ UNCHANGED <<sessionRow, pending, answered, rows>>

CreateInserts ==
  \E c \in calls :
    /\ c.op = "insert" /\ calls' = calls \ {c}
    /\ rows' = [r \in DOMAIN rows \cup {c.id} |-> IF r = c.id THEN Row(Null, Null) ELSE rows[r]]
    /\ UNCHANGED <<sessionRow, pending, answered>>

\* recordResponse: updateMany; a status or code that is null is left alone.
recordResponse ==
  \E c \in calls :
    /\ c.op \in Outcomes /\ calls' = calls \ {c}
    /\ rows' = [r \in DOMAIN rows |->
         IF r # c.id THEN rows[r]
         ELSE IF c.op = "response" THEN [rows[r] EXCEPT !.status = "status"]
                                   ELSE [rows[r] EXCEPT !.errorCode = "code"]]
    /\ UNCHANGED <<sessionRow, pending, answered>>

CallFails == \E c \in calls : calls' = calls \ {c} /\ UNCHANGED <<sessionRow, pending, answered, rows>>

LogNext ==
  \/ SessionUpserted \/ SdkRequest \/ RequestTimesOut \/ TunnelResponse \/ TunnelAgentError
  \/ CreateFindsSession \/ CreateInserts \/ recordResponse \/ CallFails
LogSpec == LogInit /\ [][LogNext]_logVars

-----------------------------------------------------------------------------

\* The log never claims what did not happen, whatever order its calls reach
\* the database in: a row with a status belongs to a request whose response
\* its caller was given, a row with an error code to one the agent failed, and
\* no row has both.
LogTruthful ==
  \A r \in DOMAIN rows :
    /\ rows[r].status # Null => answered[r] = "response"
    /\ rows[r].errorCode # Null => answered[r] = "error"

=============================================================================
