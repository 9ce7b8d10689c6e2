-------------------------------- MODULE Inbox --------------------------------
(***************************************************************************)
(* The bell's in-app notifications and the feedback tickets admins triage. *)
(*                                                                         *)
(* A handler that reads a row and later saves it does so in two steps; the *)
(* save writes every field the repository's update names, as the handler   *)
(* read or set them.                                                       *)
(***************************************************************************)
EXTENDS Naturals

CONSTANTS Notes,       \* in-app notifications
          Tickets,     \* feedback
          Handlers,    \* requests in flight
          NoTime,      \* readAt or resolvedAt null
          MaxHour      \* bound on the clock

ASSUME InboxAssumption == NoTime \notin Nat /\ MaxHour \in Nat

VARIABLES
  clockHour,
  note,      \* notification rows
  ticket,    \* feedback rows
  mailedAdmin, \* tickets a feedbackReceived mail was delivered for
  handler    \* in-flight handlers

inboxVars == <<clockHour, note, ticket, mailedAdmin, handler>>

NoNote == [exists |-> FALSE, status |-> "SENT", readAt |-> NoTime]
NoTicket == [exists |-> FALSE, status |-> "OPEN", resolvedAt |-> NoTime, priority |-> "MEDIUM"]
Free == [op |-> "idle"]

InboxInit ==
  /\ clockHour = 0
  /\ note = [n \in Notes |-> NoNote]
  /\ ticket = [t \in Tickets |-> NoTicket] /\ mailedAdmin = {}
  /\ handler = [h \in Handlers |-> Free]

HourPasses ==
  /\ clockHour < MaxHour /\ clockHour' = clockHour + 1
  /\ UNCHANGED <<note, ticket, mailedAdmin, handler>>

-----------------------------------------------------------------------------
(* The bell. *)

CreateInApp ==
  \E n \in Notes :
    /\ ~note[n].exists
    /\ note' = [note EXCEPT ![n] = [NoNote EXCEPT !.exists = TRUE]]
    /\ UNCHANGED <<clockHour, ticket, mailedAdmin, handler>>

markReadDateOnly(n) == IF n.readAt = NoTime THEN [n EXCEPT !.readAt = clockHour] ELSE n
markRead(n) == IF n.readAt = NoTime THEN [n EXCEPT !.readAt = clockHour, !.status = "READ"] ELSE n

MarkNotificationReadFinds ==
  \E h \in Handlers, n \in Notes :
    /\ handler[h] = Free /\ note[n].exists
    /\ handler' = [handler EXCEPT ![h] = [op |-> "markRead", id |-> n, row |-> markRead(note[n])]]
    /\ UNCHANGED <<clockHour, note, ticket, mailedAdmin>>

\* save: status and readAt.
MarkNotificationReadSaves ==
  \E h \in Handlers :
    /\ handler[h].op = "markRead"
    /\ note' = [note EXCEPT ![handler[h].id] = handler[h].row]
    /\ handler' = [handler EXCEPT ![h] = Free]
    /\ UNCHANGED <<clockHour, ticket, mailedAdmin>>

\* One updateMany over the unread rows.
MarkAllNotificationsRead ==
  /\ \E n \in Notes : note[n].exists
  /\ note' = [n \in Notes |-> IF note[n].exists THEN markRead(note[n]) ELSE note[n]]
  /\ UNCHANGED <<clockHour, ticket, mailedAdmin, handler>>

-----------------------------------------------------------------------------
(* Feedback. *)

\* The row is saved first; the mail to the admin is sent afterwards and may
\* fail, or there is no address to send it to.
SubmitFeedback ==
  \E t \in Tickets :
    /\ ~ticket[t].exists
    /\ ticket' = [ticket EXCEPT ![t] = [NoTicket EXCEPT !.exists = TRUE]]
    /\ mailedAdmin' \in {mailedAdmin, mailedAdmin \cup {t}}
    /\ UNCHANGED <<clockHour, note, handler>>

FeedbackStatuses == {"OPEN", "UNDER_REVIEW", "RESOLVED"}
updateStatus(row, status) ==
  [row EXCEPT !.status = status, !.resolvedAt = IF status = "RESOLVED" THEN clockHour ELSE @]
updatePriority(row) == [row EXCEPT !.priority = "HIGH"]

\* The form sends a status, a priority or both.
AdminUpdateFeedbackFinds ==
  \E h \in Handlers, t \in Tickets :
    /\ handler[h] = Free /\ ticket[t].exists
    /\ \E status \in FeedbackStatuses :
         \E row \in {updateStatus(ticket[t], status), updatePriority(ticket[t]),
                     updatePriority(updateStatus(ticket[t], status))} :
           handler' = [handler EXCEPT ![h] = [op |-> "update", id |-> t, row |-> row]]
    /\ UNCHANGED <<clockHour, note, ticket, mailedAdmin>>

\* save: status, priority, adminNotes and resolvedAt of the row as it was read.
saveStatusOnly(old, row) == [old EXCEPT !.status = row.status, !.priority = row.priority]
saveFeedback(old, row) == row

AdminUpdateFeedbackSaves ==
  \E h \in Handlers :
    /\ handler[h].op = "update"
    /\ ticket' = [ticket EXCEPT ![handler[h].id] = saveFeedback(@, handler[h].row)]
    /\ handler' = [handler EXCEPT ![h] = Free]
    /\ UNCHANGED <<clockHour, note, mailedAdmin>>

InboxNext ==
  \/ HourPasses \/ CreateInApp \/ MarkNotificationReadFinds
  \/ MarkNotificationReadSaves \/ MarkAllNotificationsRead
  \/ SubmitFeedback \/ AdminUpdateFeedbackFinds \/ AdminUpdateFeedbackSaves
InboxSpec == InboxInit /\ [][InboxNext]_inboxVars

-----------------------------------------------------------------------------
(* Properties. *)

\* Whatever requests overlap, the bell and the tickets stay consistent: a
\* notification is READ exactly when it has a readAt and never becomes unread
\* again, and a resolved ticket has the hour it was resolved at, although each
\* save writes a row another request may have changed since it was read.
RowsConsistent ==
  /\ \A n \in Notes : (note[n].status = "READ") <=> (note[n].readAt # NoTime)
  /\ \A t \in Tickets : ticket[t].status = "RESOLVED" => ticket[t].resolvedAt # NoTime
InboxConsistent ==
  [][RowsConsistent' /\ \A n \in Notes : note[n].readAt # NoTime => note'[n].readAt # NoTime]_inboxVars

=============================================================================
