---------------------------- MODULE ProductProofs ----------------------------
(***************************************************************************)
(* Proofs about what people work with beside a tunnel: the bell and the    *)
(* tickets (Inbox), the mails (Mails), the data the dashboard and the      *)
(* console keep (QueryCache), their forms (Forms), the browser's session   *)
(* (WebSession), the usage counted and the public paths limited            *)
(* (UsageFlush), the charts of it (UsageChart), and the lists the tables   *)
(* page through (Listing).                                                 *)
(***************************************************************************)
EXTENDS Listing, UsageChart, Inbox, Mails, QueryCache, Forms, WebSession, UsageFlush,
        FiniteSetTheorems, SequenceTheorems, WellFoundedInduction, TLAPS

-----------------------------------------------------------------------------
(* The bell and the tickets.  A handler in flight holds the row it will save. *)

NoteRows ==
  {n \in [exists : BOOLEAN, status : {"SENT", "READ"}, readAt : Nat \cup {NoTime}] :
     /\ (n.status = "READ") <=> (n.readAt # NoTime)
     /\ n.readAt # NoTime => n.exists}
SeenRows == {n \in NoteRows : n.readAt # NoTime}
TicketRows ==
  {t \in [exists : BOOLEAN, status : FeedbackStatuses, resolvedAt : Nat \cup {NoTime},
          priority : {"MEDIUM", "HIGH"}] :
     t.status = "RESOLVED" => t.resolvedAt # NoTime}

\* What the handlers in flight will save keeps the rows as they must be.
InboxInv ==
  /\ clockHour \in Nat
  /\ note \in [Notes -> NoteRows]
  /\ ticket \in [Tickets -> TicketRows]
  /\ handler \in [Handlers -> {Free} \cup [op : {"markRead"}, id : Notes, row : SeenRows]
                                     \cup [op : {"update"}, id : Tickets, row : TicketRows]]

\* markRead gives a notification that exists a consistent row that is read.
LEMMA MarkReadReads ==
  ASSUME NEW n \in NoteRows, n.exists, clockHour \in Nat
  PROVE  markRead(n) \in SeenRows
BY InboxAssumption DEF markRead, SeenRows, NoteRows

\* updateStatus and updatePriority keep a ticket consistent.
LEMMA UpdatesKeepTickets ==
  ASSUME NEW t \in TicketRows, clockHour \in Nat
  PROVE  /\ \A s \in FeedbackStatuses : updateStatus(t, s) \in TicketRows
         /\ updatePriority(t) \in TicketRows
BY InboxAssumption DEF updateStatus, updatePriority, TicketRows, FeedbackStatuses

LEMMA InboxStarts == InboxInit => InboxInv
BY InboxAssumption DEF InboxInit, InboxInv, NoNote, NoTicket, Free, NoteRows, TicketRows, FeedbackStatuses

\* Every step keeps the rows, and what is read stays read.
LEMMA InboxSteps ==
  ASSUME InboxInv, InboxNext
  PROVE  /\ InboxInv'
         /\ \A n \in Notes : note[n].readAt # NoTime => note'[n].readAt # NoTime
<1> USE DEF InboxInv
<1>1. CASE HourPasses
  BY <1>1 DEF HourPasses
<1>2. CASE CreateInApp
  <2>1. PICK n \in Notes : /\ ~note[n].exists
                           /\ note' = [note EXCEPT ![n] = [NoNote EXCEPT !.exists = TRUE]]
                           /\ UNCHANGED <<clockHour, ticket, mailedAdmin, handler>>
    BY <1>2 DEF CreateInApp
  <2>2. [NoNote EXCEPT !.exists = TRUE] \in NoteRows
    BY InboxAssumption DEF NoNote, NoteRows
  <2>3. note[n].readAt = NoTime
    BY <2>1 DEF NoteRows
  <2> QED BY <2>1, <2>2, <2>3
<1>3. CASE MarkNotificationReadFinds
  <2>1. PICK h \in Handlers, n \in Notes :
          /\ note[n].exists
          /\ handler' = [handler EXCEPT ![h] = [op |-> "markRead", id |-> n, row |-> markRead(note[n])]]
          /\ UNCHANGED <<clockHour, note, ticket, mailedAdmin>>
    BY <1>3 DEF MarkNotificationReadFinds
  <2>2. markRead(note[n]) \in SeenRows
    BY <2>1, MarkReadReads
  <2> QED BY <2>1, <2>2
<1>4. CASE MarkNotificationReadSaves
  <2>1. PICK h \in Handlers :
          /\ handler[h].op = "markRead"
          /\ note' = [note EXCEPT ![handler[h].id] = handler[h].row]
          /\ handler' = [handler EXCEPT ![h] = Free]
          /\ UNCHANGED <<clockHour, ticket, mailedAdmin>>
    BY <1>4 DEF MarkNotificationReadSaves
  <2>2. handler[h].id \in Notes /\ handler[h].row \in SeenRows
    BY <2>1 DEF Free
  <2>3. handler[h].row \in NoteRows /\ handler[h].row.readAt # NoTime
    BY <2>2 DEF SeenRows
  <2> QED BY <2>1, <2>2, <2>3
<1>5. CASE MarkAllNotificationsRead
  <2>1. \A n \in Notes : IF note[n].exists THEN markRead(note[n]) \in SeenRows ELSE note[n].readAt = NoTime
    BY MarkReadReads DEF NoteRows
  <2>2. /\ note' = [n \in Notes |-> IF note[n].exists THEN markRead(note[n]) ELSE note[n]]
        /\ UNCHANGED <<clockHour, ticket, mailedAdmin, handler>>
    BY <1>5 DEF MarkAllNotificationsRead
  <2> QED BY <2>1, <2>2 DEF SeenRows
<1>6. CASE SubmitFeedback
  <2>1. [NoTicket EXCEPT !.exists = TRUE] \in TicketRows
    BY InboxAssumption DEF NoTicket, TicketRows, FeedbackStatuses
  <2> QED BY <1>6, <2>1 DEF SubmitFeedback
<1>7. CASE AdminUpdateFeedbackFinds
  <2>0. PICK h \in Handlers, t \in Tickets :
          /\ \E status \in FeedbackStatuses :
               \E row \in {updateStatus(ticket[t], status), updatePriority(ticket[t]),
                          updatePriority(updateStatus(ticket[t], status))} :
                 handler' = [handler EXCEPT ![h] = [op |-> "update", id |-> t, row |-> row]]
          /\ UNCHANGED <<clockHour, note, ticket, mailedAdmin>>
    BY <1>7, Zenon DEF AdminUpdateFeedbackFinds
  <2>1. PICK status \in FeedbackStatuses :
          \E row \in {updateStatus(ticket[t], status), updatePriority(ticket[t]),
                     updatePriority(updateStatus(ticket[t], status))} :
            handler' = [handler EXCEPT ![h] = [op |-> "update", id |-> t, row |-> row]]
    BY <2>0
  <2>2. updateStatus(ticket[t], status) \in TicketRows /\ updatePriority(ticket[t]) \in TicketRows
    BY UpdatesKeepTickets
  <2>3. updatePriority(updateStatus(ticket[t], status)) \in TicketRows
    BY <2>2, UpdatesKeepTickets
  <2> QED BY <2>0, <2>1, <2>2, <2>3
<1>8. CASE AdminUpdateFeedbackSaves
  <2>1. PICK h \in Handlers :
          /\ handler[h].op = "update"
          /\ ticket' = [ticket EXCEPT ![handler[h].id] = handler[h].row]
          /\ handler' = [handler EXCEPT ![h] = Free]
          /\ UNCHANGED <<clockHour, note, mailedAdmin>>
    BY <1>8 DEF AdminUpdateFeedbackSaves, saveFeedback
  <2>2. handler[h].id \in Tickets /\ handler[h].row \in TicketRows
    BY <2>1 DEF Free
  <2> QED BY <2>1, <2>2
<1> QED BY <1>1, <1>2, <1>3, <1>4, <1>5, <1>6, <1>7, <1>8 DEF InboxNext

\* The rows the invariant allows are the consistent ones.
LEMMA InboxRows == InboxInv => RowsConsistent
BY DEF InboxInv, RowsConsistent, NoteRows, TicketRows

\* Whatever requests overlap, a notification is READ exactly when it has a readAt
\* and never becomes unread again, and a resolved ticket has the hour it was
\* resolved at (MarkNotificationRead, MarkAllNotificationsRead,
\* AdminUpdateFeedback), for any number of rows and of requests in flight.
THEOREM InboxCorrect == InboxSpec => InboxConsistent
<1>1. InboxInv /\ [InboxNext]_inboxVars => InboxInv'
  BY InboxSteps DEF InboxInv, inboxVars
<1>2. InboxInv /\ [InboxNext]_inboxVars =>
        [RowsConsistent' /\ \A n \in Notes : note[n].readAt # NoTime => note'[n].readAt # NoTime]_inboxVars
  <2> SUFFICES ASSUME InboxInv, InboxNext
               PROVE  RowsConsistent' /\ \A n \in Notes : note[n].readAt # NoTime => note'[n].readAt # NoTime
    OBVIOUS
  <2>1. InboxInv'
    BY InboxSteps
  <2>2. RowsConsistent'
    BY <2>1, InboxRows, PTL
  <2> QED BY <2>2, InboxSteps
<1> QED BY <1>1, <1>2, InboxStarts, PTL DEF InboxSpec, InboxConsistent

-----------------------------------------------------------------------------
(* The mails. *)

LinkTemplate == [verify |-> "emailVerification", invite |-> "accountInvitation",
                 reset |-> "passwordResetRequest"]
LinkKind == {"verify", "invite", "reset"}
Tokens == [kind : {"none"} \cup LinkKind, of : People \cup {"nobody"}, expires : Nat,
           status : {"none", "unused", "PENDING", "used", "deleted", "ACCEPTED", "CANCELED"}]

\* A token that is open has not ended, and is a link's of its kind.
TokenOk(l) ==
  /\ token[l].kind # "none" =>
       (l \in ended <=> token[l].status # (IF token[l].kind = "invite" THEN "PENDING" ELSE "unused"))
  /\ token[l].kind = "invite" => token[l].status # "unused"
  /\ token[l].kind = "none" => l \notin ended

\* A mail with a link was sent with the link's token, to whom the token is for,
\* and states its end.
MailOk(m) ==
  \A kind \in LinkKind :
    m.template = LinkTemplate[kind] =>
      /\ m.link \in Links /\ token[m.link].kind = kind
      /\ m.until = token[m.link].expires /\ m.to = token[m.link].of

MailsInv ==
  /\ hour \in Nat
  /\ token \in [Links -> Tokens]
  /\ using \subseteq {l \in Links : token[l].kind # "none"}
  /\ \A l \in Links : TokenOk(l)
  /\ \A m \in mail : MailOk(m)

WordKept ==
  followed' # followed =>
    (followed'.ok <=> /\ ~followed'.ended /\ followed'.at < followed'.until
                      /\ followed'.fit)

LEMMA MailsStart == MailsInit => MailsInv
<1> SUFFICES ASSUME MailsInit PROVE MailsInv
  OBVIOUS
<1>1. NoToken \in Tokens /\ NoToken.kind = "none"
  BY DEF NoToken, Tokens
<1>2. token \in [Links -> Tokens] /\ \A l \in Links : token[l] = NoToken
  BY <1>1 DEF MailsInit
<1> QED BY <1>1, <1>2 DEF MailsInit, MailsInv, TokenOk, MailOk

\* Tokens that end, without a change of what was mailed of them, keep the invariant.
LEMMA EndingKeeps ==
  ASSUME MailsInv, NEW gone \in SUBSET Links,
         hour' = hour, using' \subseteq using, ended' = ended \cup gone,
         token' \in [Links -> Tokens],
         \A l \in Links \ gone : token'[l] = token[l],
         \A l \in gone : /\ token[l].kind # "none" /\ token'[l].kind = token[l].kind
                         /\ token'[l].of = token[l].of /\ token'[l].expires = token[l].expires
                         /\ token'[l].status \notin {"unused", "PENDING"},
         \A m \in mail' : m \in mail \/ \A kind \in LinkKind : m.template # LinkTemplate[kind]
  PROVE  MailsInv'
<1>1. \A l \in Links : /\ token'[l].kind = token[l].kind /\ token'[l].of = token[l].of
                       /\ token'[l].expires = token[l].expires
  OBVIOUS
<1>2. ASSUME NEW l \in Links PROVE TokenOk(l)'
  <2>1. CASE l \in gone
    BY <2>1 DEF MailsInv, TokenOk
  <2>2. CASE l \notin gone
    BY <2>2 DEF MailsInv, TokenOk
  <2> QED BY <2>1, <2>2
<1>3. ASSUME NEW m \in mail' PROVE MailOk(m)'
  <2> SUFFICES ASSUME NEW kind \in LinkKind, m.template = LinkTemplate[kind]
               PROVE  /\ m.link \in Links /\ token'[m.link].kind = kind
                      /\ m.until = token'[m.link].expires /\ m.to = token'[m.link].of
    BY DEF MailOk
  <2>1. m \in mail
    BY <1>3
  <2>2. /\ m.link \in Links /\ token[m.link].kind = kind
        /\ m.until = token[m.link].expires /\ m.to = token[m.link].of
    BY <2>1 DEF MailsInv, MailOk
  <2> QED BY <1>1, <2>2
<1>4. using' \subseteq {l \in Links : token'[l].kind # "none"}
  BY <1>1 DEF MailsInv
<1> QED BY <1>2, <1>3, <1>4 DEF MailsInv

\* A new token with the mail that states its end and its owner.
LEMMA NewTokenKeeps ==
  ASSUME MailsInv, NEW l \in Links, NEW kind \in LinkKind, NEW p \in People,
         token[l] = NoToken, token' = [token EXCEPT ![l] = NewToken(kind, p)],
         UNCHANGED <<hour, using, ended>>,
         NEW m, send(m), m.template = LinkTemplate[kind], m.link = l, m.to = p,
         m.until = hour + ttlHours[kind]
  PROVE  MailsInv'
<1>1. PICK e \in Nat : e = hour + ttlHours[kind]
  <2>1. ttlHours[kind] \in Nat
    BY DEF ttlHours, LinkKind
  <2> QED BY <2>1 DEF MailsInv
<1>2. PICK s \in {"unused", "PENDING"} : s = (IF kind = "invite" THEN "PENDING" ELSE "unused")
  OBVIOUS
<1>3. PICK new \in Tokens : new = [kind |-> kind, of |-> p, expires |-> e, status |-> s]
  BY Zenon DEF Tokens
<1>4. new = NewToken(kind, p)
  BY <1>1, <1>2, <1>3 DEF NewToken
<1>5. /\ token' \in [Links -> Tokens] /\ token'[l] = new
      /\ \A k \in Links \ {l} : token'[k] = token[k]
  BY <1>3, <1>4 DEF MailsInv
<1>6. token[l].kind = "none" /\ new.kind = kind /\ new.of = p /\ new.expires = e /\ new.status = s
  BY <1>3 DEF NoToken
<1>7. ASSUME NEW k \in Links PROVE TokenOk(k)'
  <2>1. CASE k = l
    BY <1>2, <1>5, <1>6, <2>1 DEF MailsInv, TokenOk, LinkKind
  <2>2. CASE k # l
    BY <1>5, <2>2 DEF MailsInv, TokenOk
  <2> QED BY <2>1, <2>2
<1>8. \A j \in LinkKind : LinkTemplate[j] = LinkTemplate[kind] => j = kind
  BY DEF LinkKind, LinkTemplate
<1>9. ASSUME NEW o \in mail' PROVE MailOk(o)'
  <2>1. CASE o = m
    BY <1>1, <1>5, <1>6, <1>8, <2>1 DEF MailOk
  <2>2. CASE o \in mail
    <3> SUFFICES ASSUME NEW j \in LinkKind, o.template = LinkTemplate[j]
                 PROVE  /\ o.link \in Links /\ token'[o.link].kind = j
                        /\ o.until = token'[o.link].expires /\ o.to = token'[o.link].of
      BY DEF MailOk
    <3>1. /\ o.link \in Links /\ token[o.link].kind = j
          /\ o.until = token[o.link].expires /\ o.to = token[o.link].of
      BY <2>2 DEF MailsInv, MailOk
    <3>2. o.link # l
      BY <1>6, <3>1 DEF LinkKind
    <3> QED BY <1>5, <3>1, <3>2
  <2> QED BY <1>9, <2>1, <2>2 DEF send
<1>10. using' \subseteq {k \in Links : token'[k].kind # "none"}
  BY <1>5, <1>6 DEF MailsInv, LinkKind
<1> QED BY <1>5, <1>7, <1>9, <1>10 DEF MailsInv

\* A token that replaces its owner's others of the kind, with its mail.
LEMMA IssueKeeps ==
  ASSUME MailsInv, NEW l \in Links, NEW kind \in {"verify", "reset"}, NEW p \in People,
         IssueAnew(l, kind, p), NEW m, send(m), m.template = LinkTemplate[kind], m.link = l,
         m.to = p, m.until = hour + ttlHours[kind]
  PROVE  MailsInv'
<1>1. PICK gone \in SUBSET Links : gone = TokensOf(p, kind)
  BY DEF TokensOf
<1>2. l \notin gone
  BY <1>1 DEF IssueAnew, TokensOf, NoToken
<1>3. PICK e \in Nat : e = hour + ttlHours[kind]
  <2>1. ttlHours[kind] \in Nat
    BY DEF ttlHours
  <2> QED BY <2>1 DEF MailsInv
<1>4. PICK new \in Tokens : new = [kind |-> kind, of |-> p, expires |-> e, status |-> "unused"]
  BY Zenon DEF Tokens, LinkKind
<1>5. new = NewToken(kind, p)
  BY <1>3, <1>4 DEF NewToken
<1>6. \A k \in gone : [token[k] EXCEPT !.status = "deleted"] \in Tokens
  BY DEF MailsInv, Tokens
<1>7. /\ token' \in [Links -> Tokens] /\ token'[l] = new
      /\ \A k \in Links \ (gone \cup {l}) : token'[k] = token[k]
      /\ \A k \in gone : token'[k] = [token[k] EXCEPT !.status = "deleted"]
  <2>1. token' = [k \in Links |-> IF k = l THEN new
                                  ELSE IF k \in gone THEN [token[k] EXCEPT !.status = "deleted"]
                                  ELSE token[k]]
    BY <1>1, <1>2, <1>5 DEF IssueAnew, deleteAllByUserId
  <2> QED BY <1>2, <1>4, <1>6, <2>1 DEF MailsInv
<1>8. \A k \in gone : /\ token'[k].kind = token[k].kind /\ token'[k].of = token[k].of
                      /\ token'[k].expires = token[k].expires /\ token'[k].status = "deleted"
                      /\ token[k].kind = kind
  BY <1>1, <1>7 DEF MailsInv, Tokens, TokensOf
<1>9. /\ token[l].kind = "none" /\ hour' = hour /\ using' = using /\ ended' = ended \cup gone
      /\ new.kind = kind /\ new.of = p /\ new.expires = e /\ new.status = "unused"
  BY <1>1, <1>4 DEF IssueAnew, NoToken
<1>10. ASSUME NEW k \in Links PROVE TokenOk(k)'
  <2>1. CASE k = l
    BY <1>2, <1>7, <1>9, <2>1 DEF MailsInv, TokenOk
  <2>2. CASE k \in gone
    BY <1>8, <1>9, <2>2 DEF TokenOk
  <2>3. CASE k \notin gone \cup {l}
    BY <1>7, <1>9, <2>3 DEF MailsInv, TokenOk
  <2> QED BY <2>1, <2>2, <2>3
<1>11. \A j \in LinkKind : LinkTemplate[j] = LinkTemplate[kind] => j = kind
  BY DEF LinkKind, LinkTemplate
<1>12. ASSUME NEW o \in mail' PROVE MailOk(o)'
  <2>1. CASE o = m
    BY <1>3, <1>7, <1>9, <1>11, <2>1 DEF MailOk
  <2>2. CASE o \in mail
    <3> SUFFICES ASSUME NEW j \in LinkKind, o.template = LinkTemplate[j]
                 PROVE  /\ o.link \in Links /\ token'[o.link].kind = j
                        /\ o.until = token'[o.link].expires /\ o.to = token'[o.link].of
      BY DEF MailOk
    <3>1. /\ o.link \in Links /\ token[o.link].kind = j
          /\ o.until = token[o.link].expires /\ o.to = token[o.link].of
      BY <2>2 DEF MailsInv, MailOk
    <3>2. o.link # l
      BY <1>9, <3>1 DEF LinkKind
    <3>3. /\ token'[o.link].kind = token[o.link].kind /\ token'[o.link].of = token[o.link].of
          /\ token'[o.link].expires = token[o.link].expires
      BY <1>7, <1>8, <3>1, <3>2
    <3> QED BY <3>1, <3>3
  <2> QED BY <1>12, <2>1, <2>2 DEF send
<1>13. using' \subseteq {k \in Links : token'[k].kind # "none"}
  BY <1>7, <1>8, <1>9 DEF MailsInv
<1> QED BY <1>7, <1>9, <1>10, <1>12, <1>13 DEF MailsInv

\* An answer decides as the mail has said, and leaves the tokens alone.
LEMMA AnswerKeeps ==
  ASSUME MailsInv, NEW m \in mail, NEW kind \in LinkKind, m.template = LinkTemplate[kind],
         NEW fit \in BOOLEAN, NEW ok \in BOOLEAN, Answer(m, fit, ok),
         ok <=> /\ token[m.link].status = (IF kind = "invite" THEN "PENDING" ELSE "unused")
                /\ token[m.link].expires > hour /\ fit
  PROVE  MailsInv' /\ WordKept
<1>1. /\ m.link \in Links /\ token[m.link].kind = kind /\ kind # "none"
      /\ m.until = token[m.link].expires /\ token[m.link] \in Tokens /\ hour \in Nat
  BY DEF MailsInv, MailOk, LinkKind
<1>2. /\ UNCHANGED <<hour, token, mail, ended>>
      /\ using' \subseteq {l \in Links : token[l].kind # "none"}
  BY <1>1 DEF Answer, MailsInv
<1>3. MailsInv'
  BY <1>2 DEF MailsInv, TokenOk, MailOk
<1>4. m.link \in ended <=> token[m.link].status # (IF kind = "invite" THEN "PENDING" ELSE "unused")
  BY <1>1 DEF MailsInv, TokenOk
<1>5. /\ followed'.ok = ok /\ followed'.ended = (m.link \in ended) /\ followed'.until = m.until
      /\ followed'.at = hour /\ followed'.fit = fit
  BY DEF Answer
<1>6. token[m.link].expires \in Nat
  BY <1>1 DEF Tokens
<1> QED BY <1>1, <1>3, <1>4, <1>5, <1>6 DEF WordKept

\* Every step keeps the mails true, and the answer to a link is what its mail said.
LEMMA MailsSteps ==
  ASSUME MailsInv, MailsNext
  PROVE  MailsInv' /\ WordKept
<1>1. CASE TimePasses
  BY <1>1, MailsAssumption DEF TimePasses, MailsInv, TokenOk, MailOk, WordKept
<1>2. CASE IssueVerification
  <2>1. PICK l \in Links, p \in People :
          /\ IssueAnew(l, "verify", p) /\ send(Template("emailVerification", p, l, hour + 24))
    BY <1>2 DEF IssueVerification, SendEmailVerification, emailVerification
  <2> DEFINE m == Template("emailVerification", p, l, hour + 24)
  <2>2. /\ m.link = l /\ m.to = p /\ m.until = hour + ttlHours["verify"]
        /\ m.template = LinkTemplate["verify"]
    BY DEF Template, ttlHours, LinkTemplate
  <2> HIDE DEF m
  <2>3. MailsInv'
    BY <2>1, <2>2, IssueKeeps DEF m
  <2> QED BY <2>1, <2>3 DEF IssueAnew, WordKept
<1>3. CASE IssueInvitation
  <2>1. PICK l \in Links, p \in People :
          /\ token[l] = NoToken /\ token' = [token EXCEPT ![l] = NewToken("invite", p)]
          /\ send(Template("accountInvitation", p, l, hour + 24 * 3))
          /\ UNCHANGED <<hour, using, followed, ended>>
    BY <1>3 DEF IssueInvitation, SendInvitation, accountInvitation
  <2> DEFINE m == Template("accountInvitation", p, l, hour + 24 * 3)
  <2>2. /\ m.link = l /\ m.to = p /\ m.until = hour + ttlHours["invite"]
        /\ m.template = LinkTemplate["invite"] /\ "invite" \in LinkKind
    BY DEF Template, ttlHours, LinkTemplate, LinkKind
  <2> HIDE DEF m
  <2>3. MailsInv'
    BY <2>1, <2>2, NewTokenKeeps DEF m
  <2> QED BY <2>1, <2>3 DEF WordKept
<1>4. CASE IssueReset
  <2>1. PICK l \in Links, p \in People :
          /\ IssueAnew(l, "reset", p) /\ send(Template("passwordResetRequest", p, l, hour + 1))
    BY <1>4 DEF IssueReset, SendPasswordReset, passwordResetRequest
  <2> DEFINE m == Template("passwordResetRequest", p, l, hour + 1)
  <2>2. /\ m.link = l /\ m.to = p /\ m.until = hour + ttlHours["reset"]
        /\ m.template = LinkTemplate["reset"]
    BY DEF Template, ttlHours, LinkTemplate
  <2> HIDE DEF m
  <2>3. MailsInv'
    BY <2>1, <2>2, IssueKeeps DEF m
  <2> QED BY <2>1, <2>3 DEF IssueAnew, WordKept
<1>5. CASE CancelInvitation
  <2>1. PICK l \in Links :
          /\ token[l].kind = "invite"
          /\ token' = [token EXCEPT ![l] = [token[l] EXCEPT !.status = "CANCELED"]]
          /\ ended' = ended \cup {l} /\ UNCHANGED <<hour, mail, using, followed>>
    BY <1>5 DEF CancelInvitation
  <2>2. PICK new : new = [token[l] EXCEPT !.status = "CANCELED"]
    OBVIOUS
  <2>3. /\ new \in Tokens /\ new.kind = token[l].kind /\ new.of = token[l].of
        /\ new.expires = token[l].expires /\ new.status = "CANCELED"
    BY <2>2 DEF MailsInv, Tokens
  <2>4. /\ token' \in [Links -> Tokens] /\ token'[l] = new
        /\ \A k \in Links \ {l} : token'[k] = token[k]
    BY <2>1, <2>2, <2>3 DEF MailsInv
  <2>5. PICK gone \in SUBSET Links : gone = {l}
    OBVIOUS
  <2>6. MailsInv'
    BY <2>1, <2>3, <2>4, <2>5, EndingKeeps
  <2> QED BY <2>1, <2>6 DEF WordKept
<1>6. CASE VerifyEmail
  <2>1. PICK m \in mail : /\ m.template = "emailVerification"
                          /\ Answer(m, TRUE, ensureTokenValid(token[m.link]))
    BY <1>6 DEF VerifyEmail
  <2>2. /\ "verify" \in LinkKind /\ m.template = LinkTemplate["verify"]
        /\ ensureTokenValid(token[m.link]) \in BOOLEAN
    BY <2>1 DEF LinkKind, LinkTemplate, ensureTokenValid
  <2> QED BY <2>1, <2>2, AnswerKeeps DEF ensureTokenValid
<1>7. CASE ResetPassword
  <2>1. PICK m \in mail : /\ m.template = "passwordResetRequest"
                          /\ Answer(m, TRUE, ensureTokenValid(token[m.link]))
    BY <1>7 DEF ResetPassword
  <2>2. /\ "reset" \in LinkKind /\ m.template = LinkTemplate["reset"]
        /\ ensureTokenValid(token[m.link]) \in BOOLEAN
    BY <2>1 DEF LinkKind, LinkTemplate, ensureTokenValid
  <2> QED BY <2>1, <2>2, AnswerKeeps DEF ensureTokenValid
<1>8. CASE AcceptInvitation
  <2>1. PICK m \in mail, email \in People, member \in BOOLEAN, canAccept \in BOOLEAN :
          /\ m.template = "accountInvitation"
          /\ Answer(m, email = m.to /\ ~member /\ canAccept,
                    /\ ensureInvitationValid(token[m.link])
                    /\ email = token[m.link].of /\ ~member /\ canAccept)
    BY <1>8 DEF AcceptInvitation
  <2>2. "invite" \in LinkKind /\ m.template = LinkTemplate["invite"]
    BY <2>1 DEF LinkKind, LinkTemplate
  <2>3. m.to = token[m.link].of
    BY <2>2 DEF MailsInv, MailOk
  <2>4. PICK fit \in BOOLEAN : fit = (email = m.to /\ ~member /\ canAccept)
    OBVIOUS
  <2>5. PICK ok \in BOOLEAN : ok = (/\ ensureInvitationValid(token[m.link])
                                    /\ email = token[m.link].of /\ ~member /\ canAccept)
    BY DEF ensureInvitationValid
  <2>6. Answer(m, fit, ok)
    BY <2>1, <2>4, <2>5
  <2>7. ok <=> /\ token[m.link].status = "PENDING" /\ token[m.link].expires > hour /\ fit
    BY <2>3, <2>4, <2>5 DEF ensureInvitationValid
  <2> QED BY <2>2, <2>6, <2>7, AnswerKeeps
<1>9. CASE UseCommits
  <2>1. PICK l \in using :
          /\ using' = using \ {l}
          /\ \/ /\ token' = [token EXCEPT ![l] = markUsed(token[l])]
                /\ ended' = ended \cup {l}
                /\ IF token[l].kind = "reset" THEN SendPasswordResetSuccess(token[l].of)
                   ELSE UNCHANGED mail
             \/ UNCHANGED <<token, ended, mail>>
          /\ UNCHANGED <<hour, followed>>
    BY <1>9 DEF UseCommits
  <2>2. l \in Links /\ token[l].kind # "none" /\ token[l] \in Tokens
    BY DEF MailsInv
  <2>3. CASE UNCHANGED <<token, ended, mail>>
    <3>1. MailsInv'
      BY <2>1, <2>3 DEF MailsInv, TokenOk, MailOk
    <3> QED BY <2>1, <3>1 DEF WordKept
  <2>4. CASE token' = [token EXCEPT ![l] = markUsed(token[l])] /\ ended' = ended \cup {l}
             /\ IF token[l].kind = "reset" THEN SendPasswordResetSuccess(token[l].of)
                ELSE UNCHANGED mail
    <3>1. PICK new : new = markUsed(token[l])
      OBVIOUS
    <3>2. /\ new \in Tokens /\ new.kind = token[l].kind /\ new.of = token[l].of
          /\ new.expires = token[l].expires /\ new.status \in {"used", "ACCEPTED"}
      BY <2>2, <3>1 DEF markUsed, Tokens
    <3>3. /\ token' \in [Links -> Tokens] /\ token'[l] = new
          /\ \A k \in Links \ {l} : token'[k] = token[k]
      BY <2>2, <2>4, <3>1, <3>2 DEF MailsInv
    <3>4. \A m \in mail' : m \in mail \/ \A kind \in LinkKind : m.template # LinkTemplate[kind]
      BY <2>4 DEF SendPasswordResetSuccess, send, passwordResetSuccess, Template,
         LinkKind, LinkTemplate
    <3>5. PICK gone \in SUBSET Links : gone = {l}
      BY <2>2
    <3>6. using' \subseteq using /\ hour' = hour
      BY <2>1
    <3>7. MailsInv'
      BY <2>2, <2>4, <3>2, <3>3, <3>4, <3>5, <3>6, EndingKeeps
    <3> QED BY <2>1, <3>7 DEF WordKept
  <2> QED BY <2>1, <2>3, <2>4
<1>10. CASE SubscriptionDeleted
  <2>1. UNCHANGED <<hour, token, using, followed, ended>>
    BY <1>10 DEF SubscriptionDeleted
  <2>2. \A m \in mail' : m \in mail \/ \A kind \in LinkKind : m.template # LinkTemplate[kind]
    BY <1>10 DEF SubscriptionDeleted, SendSubscriptionCanceled, send, subscriptionCanceled,
       Template, LinkKind, LinkTemplate
  <2>3. PICK gone \in SUBSET Links : gone = {}
    OBVIOUS
  <2>4. MailsInv'
    BY <2>1, <2>2, <2>3, EndingKeeps DEF MailsInv
  <2> QED BY <2>1, <2>4 DEF WordKept
<1> QED BY <1>1, <1>2, <1>3, <1>4, <1>5, <1>6, <1>7, <1>8, <1>9, <1>10 DEF MailsNext

\* A link works until the hour its mail gives, and no longer, unless it has been
\* used, canceled or replaced, and an invitation's while its addressee may join
\* (NotificationService's mails against the tokens of Register, InviteMember and
\* RequestPasswordReset), for any number of links and people and any hours they
\* are followed at.
THEOREM MailsCorrect == MailsSpec => MailsKeepTheirWord
<1>1. MailsInv /\ [MailsNext]_mailVars => MailsInv'
  BY MailsSteps DEF MailsInv, TokenOk, MailOk, mailVars
<1>2. MailsInv /\ [MailsNext]_mailVars =>
        [followed' # followed =>
           (followed'.ok <=> /\ ~followed'.ended /\ followed'.at < followed'.until
                             /\ followed'.fit)]_mailVars
  BY MailsSteps DEF WordKept
<1> QED BY <1>1, <1>2, MailsStart, PTL DEF MailsSpec, MailsKeepTheirWord

-----------------------------------------------------------------------------
(* The query cache. *)

\* The entries that an invalidation of a key reaches.
LEMMA KeyFacts ==
  /\ IsPrefix(memberKeys.list, useMembersData)
  /\ IsPrefix(memberKeys.list, useMembersTableListKey)
  /\ IsPrefix(memberKeys.lists, useMembersData)
  /\ IsPrefix(memberKeys.lists, useMembersTableListKey)
  /\ IsPrefix(useInvitations, useInvitations)
  /\ IsPrefix(meKeys_detail, useMe) /\ IsPrefix(meKeys_detail, useMyAccounts)
  /\ IsPrefix(meKeys_detail, useMyProfile)
  /\ IsPrefix(useOrgDetail, useOrgDetail)
  /\ IsPrefix(apiKeyKeys.lists, useApiKeys)
  /\ IsPrefix(apiKeyKeys.lists, useApiKeysTableListKey)
  /\ IsPrefix(apiKeyKeys.all, useApiKeys)
  /\ IsPrefix(apiKeyKeys.all, useApiKeysTableListKey)
  /\ IsPrefix(apiKeyKeys.all, useApiKey)
  /\ IsPrefix(notificationKeys.all, useNotifications)
  /\ IsPrefix(feedbackKeys.lists, useMyFeedback)
  /\ IsPrefix(adminUserKeys.all, useAdminUsers)
  /\ IsPrefix(adminUserKeys.all, useAdminUserDetail)
  /\ IsPrefix(adminRoleKeys.all, useAdminRolesList)
  /\ IsPrefix(adminRoleKeys.all, useAdminRoleDetail)
  /\ IsPrefix(roleAbilitiesKey, useRoleAbilities)
  /\ IsPrefix(adminAbilityKeys.all, useAdminAbilitiesList)
  /\ IsPrefix(adminFeedbackKeys.lists, useAdminFeedbackTableListKey)
  /\ IsPrefix(adminFeedbackKeys.detail, useAdminFeedbackDetail)
<1>1. IsPrefix(memberKeys.list, useMembersData)
  BY DEF IsPrefix, createQueryKeys, memberKeys, useMembersData
<1>2. IsPrefix(memberKeys.list, useMembersTableListKey)
  BY DEF IsPrefix, createQueryKeys, memberKeys, useMembersTableListKey
<1>3. IsPrefix(memberKeys.lists, useMembersData)
  BY DEF IsPrefix, createQueryKeys, memberKeys, useMembersData
<1>4. IsPrefix(memberKeys.lists, useMembersTableListKey)
  BY DEF IsPrefix, createQueryKeys, memberKeys, useMembersTableListKey
<1>5. IsPrefix(useInvitations, useInvitations)
  BY DEF IsPrefix, useInvitations
<1>6. /\ IsPrefix(meKeys_detail, useMe) /\ IsPrefix(meKeys_detail, useMyAccounts)
      /\ IsPrefix(meKeys_detail, useMyProfile)
  BY DEF IsPrefix, meKeys_detail, useMe, useMyAccounts, useMyProfile
<1>7. IsPrefix(useOrgDetail, useOrgDetail)
  BY DEF IsPrefix, useOrgDetail
<1>8. IsPrefix(apiKeyKeys.lists, useApiKeys)
  BY DEF IsPrefix, apiKeyKeys, useApiKeys
<1>9. IsPrefix(apiKeyKeys.lists, useApiKeysTableListKey)
  BY DEF IsPrefix, apiKeyKeys, useApiKeysTableListKey
<1>10. IsPrefix(apiKeyKeys.all, useApiKeys)
  BY DEF IsPrefix, apiKeyKeys, useApiKeys
<1>11. IsPrefix(apiKeyKeys.all, useApiKeysTableListKey)
  BY DEF IsPrefix, apiKeyKeys, useApiKeysTableListKey
<1>12. IsPrefix(apiKeyKeys.all, useApiKey)
  BY DEF IsPrefix, apiKeyKeys, useApiKey
<1>13. IsPrefix(notificationKeys.all, useNotifications)
  BY DEF IsPrefix, notificationKeys, useNotifications
<1>14. IsPrefix(feedbackKeys.lists, useMyFeedback)
  BY DEF IsPrefix, createQueryKeys, feedbackKeys, useMyFeedback
<1>15. IsPrefix(adminUserKeys.all, useAdminUsers)
  BY DEF IsPrefix, adminUserKeys, createQueryKeys, useAdminUsers
<1>16. IsPrefix(adminUserKeys.all, useAdminUserDetail)
  BY DEF IsPrefix, adminUserKeys, createQueryKeys, useAdminUserDetail
<1>17. IsPrefix(adminRoleKeys.all, useAdminRolesList)
  BY DEF IsPrefix, adminRoleKeys, createQueryKeys, useAdminRolesList
<1>18. IsPrefix(adminRoleKeys.all, useAdminRoleDetail)
  BY DEF IsPrefix, adminRoleKeys, createQueryKeys, useAdminRoleDetail
<1>19. IsPrefix(roleAbilitiesKey, useRoleAbilities)
  BY DEF IsPrefix, roleAbilitiesKey, useRoleAbilities
<1>20. IsPrefix(adminAbilityKeys.all, useAdminAbilitiesList)
  BY DEF IsPrefix, adminAbilityKeys, createQueryKeys, useAdminAbilitiesList
<1>21. IsPrefix(adminFeedbackKeys.lists, useAdminFeedbackTableListKey)
  BY DEF IsPrefix, adminFeedbackKeys, createQueryKeys, useAdminFeedbackTableListKey
<1>22. IsPrefix(adminFeedbackKeys.detail, useAdminFeedbackDetail)
  BY DEF IsPrefix, adminFeedbackKeys, createQueryKeys, useAdminFeedbackDetail
<1> QED BY <1>1, <1>2, <1>3, <1>4, <1>5, <1>6, <1>7, <1>8, <1>9, <1>10, <1>11, <1>12, <1>13, <1>14, <1>15, <1>16, <1>17, <1>18, <1>19, <1>20, <1>21, <1>22

\* What a hook must do so that its mutation leaves no entry behind that is not
\* listed in leavesStale: its optimistic write is invalidated when it settles,
\* every entry its call changes is invalidated when it succeeds, and it writes
\* its response only to an entry that is listed.
HookOk(h) ==
  /\ h.onMutate \subseteq h.onSettled
  /\ \A e \in h.call :
       (\E k \in h.onSuccess \cup h.onSettled : IsPrefix(k, e)) \/ <<h, e>> \in leavesStale
  /\ \A e \in Entries : (\E k \in h.writes : IsPrefix(k, e)) => e \in h.call /\ <<h, e>> \in leavesStale

LEMMA MutationOk ==
  ASSUME NEW h, NEW call, NEW keys, h = Mutation(call, keys),
         \A e \in call : (\E k \in keys : IsPrefix(k, e)) \/ <<h, e>> \in leavesStale
  PROVE  HookOk(h)
<1>1. h.call = call /\ h.onMutate = {} /\ h.writes = {} /\ h.onSuccess = keys /\ h.onSettled = {}
  BY DEF Mutation
<1> QED BY <1>1, Zenon DEF HookOk

LEMMA OptimisticOk ==
  ASSUME NEW h, NEW call, NEW key, h = Optimistic(call, key),
         \A e \in call : IsPrefix(key, e) \/ <<h, e>> \in leavesStale
  PROVE  HookOk(h)
<1>1. h.call = call /\ h.onMutate = {key} /\ h.writes = {} /\ h.onSuccess = {} /\ h.onSettled = {key}
  BY DEF Optimistic
<1> QED BY <1>1, Zenon DEF HookOk

\* Membership in leavesStale, entry by entry.
LEMMA StaleFacts ==
  /\ \A e \in {useInvitations, useMe, useApiKey} \cup keyTables \cup counts :
       <<useRemoveMember, e>> \in leavesStale
  /\ <<useTransferOwnership, usePermissions>> \in leavesStale
  /\ \A e \in memberTables : <<useUpdateProfile, e>> \in leavesStale
  /\ \A e \in counts : <<useCreateApiKey, e>> \in leavesStale
  /\ <<useUpdateApiKey, useApiKey>> \in leavesStale
  /\ \A e \in counts \cup {useApiKey} : <<useRevokeApiKey, e>> \in leavesStale
  /\ \A h \in adminHooks : <<h, useAdminAuditLogListKey>> \in leavesStale
  /\ <<useUpdateRole, useAdminUserDetail>> \in leavesStale
  /\ <<useDeleteAbility, useRoleAbilities>> \in leavesStale
BY Zenon DEF leavesStale

\* Every hook of the dashboard and the console does.
LEMMA HooksOk == \A h \in Hooks : HookOk(h)
<1>1. HookOk(useInviteMember)
  <2>1. useInviteMember = Mutation({useInvitations}, {memberKeys.list, useInvitations})
    BY DEF useInviteMember, memberService
  <2>2. \A e \in {useInvitations} : (\E k \in {memberKeys.list, useInvitations} : IsPrefix(k, e)) \/ <<useInviteMember, e>> \in leavesStale
    BY KeyFacts, StaleFacts
  <2> QED BY <2>1, <2>2, MutationOk
<1>2. HookOk(useChangeMemberRole)
  <2>1. useChangeMemberRole = Mutation(memberTables, {memberKeys.list})
    BY DEF useChangeMemberRole, memberService
  <2>2. \A e \in memberTables : (\E k \in {memberKeys.list} : IsPrefix(k, e)) \/ <<useChangeMemberRole, e>> \in leavesStale
    BY KeyFacts, StaleFacts DEF memberTables
  <2> QED BY <2>1, <2>2, MutationOk
<1>3. HookOk(useRemoveMember)
  <2>1. useRemoveMember = Optimistic(memberTables \cup {useInvitations, useMe, useApiKey} \cup keyTables \cup counts, memberKeys.lists)
    BY DEF useRemoveMember, memberService
  <2>2. \A e \in memberTables \cup {useInvitations, useMe, useApiKey} \cup keyTables \cup counts : IsPrefix(memberKeys.lists, e) \/ <<useRemoveMember, e>> \in leavesStale
    BY KeyFacts, StaleFacts DEF memberTables, keyTables
  <2> QED BY <2>1, <2>2, OptimisticOk
<1>4. HookOk(useTransferOwnership)
  <2>1. useTransferOwnership = Mutation(memberTables \cup {useMe, usePermissions}, {memberKeys.list, meKeys_detail})
    BY DEF useTransferOwnership, memberService
  <2>2. \A e \in memberTables \cup {useMe, usePermissions} : (\E k \in {memberKeys.list, meKeys_detail} : IsPrefix(k, e)) \/ <<useTransferOwnership, e>> \in leavesStale
    BY KeyFacts, StaleFacts DEF memberTables
  <2> QED BY <2>1, <2>2, MutationOk
<1>5. HookOk(useAcceptInvitation)
  <2>1. useAcceptInvitation = Mutation({useMyAccounts}, {meKeys_detail})
    BY DEF useAcceptInvitation, memberService
  <2>2. \A e \in {useMyAccounts} : (\E k \in {meKeys_detail} : IsPrefix(k, e)) \/ <<useAcceptInvitation, e>> \in leavesStale
    BY KeyFacts, StaleFacts
  <2> QED BY <2>1, <2>2, MutationOk
<1>6. HookOk(useCancelInvitation)
  <2>1. useCancelInvitation = Mutation({useInvitations}, {useInvitations})
    BY DEF useCancelInvitation, memberService
  <2>2. \A e \in {useInvitations} : (\E k \in {useInvitations} : IsPrefix(k, e)) \/ <<useCancelInvitation, e>> \in leavesStale
    BY KeyFacts, StaleFacts
  <2> QED BY <2>1, <2>2, MutationOk
<1>7. HookOk(useCreateOrg)
  <2>1. useCreateOrg = Mutation({useMyAccounts}, {meKeys_detail})
    BY DEF useCreateOrg, orgService
  <2>2. \A e \in {useMyAccounts} : (\E k \in {meKeys_detail} : IsPrefix(k, e)) \/ <<useCreateOrg, e>> \in leavesStale
    BY KeyFacts, StaleFacts
  <2> QED BY <2>1, <2>2, MutationOk
<1>8. HookOk(useUpdateProfile)
  <2>1. useUpdateProfile = Mutation({useMyProfile} \cup memberTables, {meKeys_detail})
    BY DEF useUpdateProfile, orgService
  <2>2. \A e \in {useMyProfile} \cup memberTables : (\E k \in {meKeys_detail} : IsPrefix(k, e)) \/ <<useUpdateProfile, e>> \in leavesStale
    BY KeyFacts, StaleFacts DEF memberTables
  <2> QED BY <2>1, <2>2, MutationOk
<1>9. HookOk(useRenameOrg)
  <2>1. useRenameOrg = Mutation({useOrgDetail, useMyAccounts}, {useOrgDetail, meKeys_detail})
    BY DEF useRenameOrg, orgService
  <2>2. \A e \in {useOrgDetail, useMyAccounts} : (\E k \in {useOrgDetail, meKeys_detail} : IsPrefix(k, e)) \/ <<useRenameOrg, e>> \in leavesStale
    BY KeyFacts, StaleFacts
  <2> QED BY <2>1, <2>2, MutationOk
<1>10. HookOk(useCreateApiKey)
  <2>1. useCreateApiKey = Mutation(keyTables \cup counts, {apiKeyKeys.lists})
    BY DEF useCreateApiKey, apiKeyService
  <2>2. \A e \in keyTables \cup counts : (\E k \in {apiKeyKeys.lists} : IsPrefix(k, e)) \/ <<useCreateApiKey, e>> \in leavesStale
    BY KeyFacts, StaleFacts DEF keyTables
  <2> QED BY <2>1, <2>2, MutationOk
<1>11. HookOk(useRevokeApiKey)
  <2>1. useRevokeApiKey = Optimistic(keyTables \cup counts \cup {useApiKey}, apiKeyKeys.lists)
    BY DEF useRevokeApiKey, apiKeyService
  <2>2. \A e \in keyTables \cup counts \cup {useApiKey} : IsPrefix(apiKeyKeys.lists, e) \/ <<useRevokeApiKey, e>> \in leavesStale
    BY KeyFacts, StaleFacts DEF keyTables
  <2> QED BY <2>1, <2>2, OptimisticOk
<1>12. HookOk(useRotateApiKey)
  <2>1. useRotateApiKey = Mutation(keyTables \cup {useApiKey}, {apiKeyKeys.all})
    BY DEF useRotateApiKey, apiKeyService
  <2>2. \A e \in keyTables \cup {useApiKey} : (\E k \in {apiKeyKeys.all} : IsPrefix(k, e)) \/ <<useRotateApiKey, e>> \in leavesStale
    BY KeyFacts, StaleFacts DEF keyTables
  <2> QED BY <2>1, <2>2, MutationOk
<1>13. HookOk(useMarkRead)
  <2>1. useMarkRead = Optimistic({useNotifications}, notificationKeys.all)
    BY DEF useMarkRead, notificationService
  <2>2. \A e \in {useNotifications} : IsPrefix(notificationKeys.all, e) \/ <<useMarkRead, e>> \in leavesStale
    BY KeyFacts, StaleFacts
  <2> QED BY <2>1, <2>2, OptimisticOk
<1>14. HookOk(useMarkAllRead)
  <2>1. useMarkAllRead = Optimistic({useUnreadCount}, notificationKeys.all)
    BY DEF useMarkAllRead, notificationService
  <2>2. \A e \in {useUnreadCount} : IsPrefix(notificationKeys.all, e) \/ <<useMarkAllRead, e>> \in leavesStale
    BY KeyFacts DEF useUnreadCount, useNotifications
  <2> QED BY <2>1, <2>2, OptimisticOk
<1>15. HookOk(useSubmitFeedback)
  <2>1. useSubmitFeedback = Mutation({useMyFeedback}, {feedbackKeys.lists})
    BY DEF useSubmitFeedback, feedbackService
  <2>2. \A e \in {useMyFeedback} : (\E k \in {feedbackKeys.lists} : IsPrefix(k, e)) \/ <<useSubmitFeedback, e>> \in leavesStale
    BY KeyFacts, StaleFacts
  <2> QED BY <2>1, <2>2, MutationOk
<1>16. HookOk(useCreateCheckout)
  <2>1. useCreateCheckout = Mutation({}, {})
    BY DEF useCreateCheckout, billingService
  <2>2. \A e \in {} : (\E k \in {} : IsPrefix(k, e)) \/ <<useCreateCheckout, e>> \in leavesStale
    BY KeyFacts, StaleFacts
  <2> QED BY <2>1, <2>2, MutationOk
<1>17. HookOk(useCreatePortal)
  <2>1. useCreatePortal = Mutation({}, {billingKeys.all})
    BY DEF useCreatePortal, billingService
  <2>2. \A e \in {} : (\E k \in {billingKeys.all} : IsPrefix(k, e)) \/ <<useCreatePortal, e>> \in leavesStale
    BY KeyFacts, StaleFacts
  <2> QED BY <2>1, <2>2, MutationOk
<1>18. HookOk(useCreateAdmin)
  <2>1. useCreateAdmin = Mutation({useAdminUsers, useAdminAuditLogListKey}, {adminUserKeys.all})
    BY DEF useCreateAdmin, adminUserService
  <2>2. \A e \in {useAdminUsers, useAdminAuditLogListKey} : (\E k \in {adminUserKeys.all} : IsPrefix(k, e)) \/ <<useCreateAdmin, e>> \in leavesStale
    BY KeyFacts, StaleFacts DEF adminHooks
  <2> QED BY <2>1, <2>2, MutationOk
<1>19. HookOk(useUpdateAdmin)
  <2>1. useUpdateAdmin = Mutation({useAdminUsers, useAdminUserDetail, useAdminAuditLogListKey}, {adminUserKeys.all, adminUserKeys.detail})
    BY DEF useUpdateAdmin, adminUserService
  <2>2. \A e \in {useAdminUsers, useAdminUserDetail, useAdminAuditLogListKey} : (\E k \in {adminUserKeys.all, adminUserKeys.detail} : IsPrefix(k, e)) \/ <<useUpdateAdmin, e>> \in leavesStale
    BY KeyFacts, StaleFacts DEF adminHooks
  <2> QED BY <2>1, <2>2, MutationOk
<1>20. HookOk(useDisableAdmin)
  <2>1. useDisableAdmin = Mutation({useAdminUsers, useAdminUserDetail, useAdminAuditLogListKey}, {adminUserKeys.all, adminUserKeys.detail})
    BY DEF useDisableAdmin, adminUserService
  <2>2. \A e \in {useAdminUsers, useAdminUserDetail, useAdminAuditLogListKey} : (\E k \in {adminUserKeys.all, adminUserKeys.detail} : IsPrefix(k, e)) \/ <<useDisableAdmin, e>> \in leavesStale
    BY KeyFacts, StaleFacts DEF adminHooks
  <2> QED BY <2>1, <2>2, MutationOk
<1>21. HookOk(useEnableAdmin)
  <2>1. useEnableAdmin = Mutation({useAdminUsers, useAdminUserDetail, useAdminAuditLogListKey}, {adminUserKeys.all, adminUserKeys.detail})
    BY DEF useEnableAdmin, adminUserService
  <2>2. \A e \in {useAdminUsers, useAdminUserDetail, useAdminAuditLogListKey} : (\E k \in {adminUserKeys.all, adminUserKeys.detail} : IsPrefix(k, e)) \/ <<useEnableAdmin, e>> \in leavesStale
    BY KeyFacts, StaleFacts DEF adminHooks
  <2> QED BY <2>1, <2>2, MutationOk
<1>22. HookOk(useAssignRoleToAdmin)
  <2>1. useAssignRoleToAdmin = Mutation({useAdminUsers, useAdminUserDetail, useAdminAuditLogListKey}, {adminUserKeys.detail, adminUserKeys.all})
    BY DEF useAssignRoleToAdmin, adminUserService
  <2>2. \A e \in {useAdminUsers, useAdminUserDetail, useAdminAuditLogListKey} : (\E k \in {adminUserKeys.detail, adminUserKeys.all} : IsPrefix(k, e)) \/ <<useAssignRoleToAdmin, e>> \in leavesStale
    BY KeyFacts, StaleFacts DEF adminHooks
  <2> QED BY <2>1, <2>2, MutationOk
<1>23. HookOk(useRevokeRoleFromAdmin)
  <2>1. useRevokeRoleFromAdmin = Mutation({useAdminUsers, useAdminUserDetail, useAdminAuditLogListKey}, {adminUserKeys.detail, adminUserKeys.all})
    BY DEF useRevokeRoleFromAdmin, adminUserService
  <2>2. \A e \in {useAdminUsers, useAdminUserDetail, useAdminAuditLogListKey} : (\E k \in {adminUserKeys.detail, adminUserKeys.all} : IsPrefix(k, e)) \/ <<useRevokeRoleFromAdmin, e>> \in leavesStale
    BY KeyFacts, StaleFacts DEF adminHooks
  <2> QED BY <2>1, <2>2, MutationOk
<1>24. HookOk(useCreateRole)
  <2>1. useCreateRole = Mutation({useAdminRolesList, useAdminAuditLogListKey}, {adminRoleKeys.all})
    BY DEF useCreateRole, adminRoleService
  <2>2. \A e \in {useAdminRolesList, useAdminAuditLogListKey} : (\E k \in {adminRoleKeys.all} : IsPrefix(k, e)) \/ <<useCreateRole, e>> \in leavesStale
    BY KeyFacts, StaleFacts DEF adminHooks
  <2> QED BY <2>1, <2>2, MutationOk
<1>25. HookOk(useUpdateRole)
  <2>1. useUpdateRole = Mutation({useAdminRolesList, useAdminRoleDetail, useAdminUserDetail, useAdminAuditLogListKey}, {adminRoleKeys.all, adminRoleKeys.detail})
    BY DEF useUpdateRole, adminRoleService
  <2>2. \A e \in {useAdminRolesList, useAdminRoleDetail, useAdminUserDetail, useAdminAuditLogListKey} : (\E k \in {adminRoleKeys.all, adminRoleKeys.detail} : IsPrefix(k, e)) \/ <<useUpdateRole, e>> \in leavesStale
    BY KeyFacts, StaleFacts DEF adminHooks
  <2> QED BY <2>1, <2>2, MutationOk
<1>26. HookOk(useAssignAbilityToRole)
  <2>1. useAssignAbilityToRole = Mutation({useRoleAbilities, useAdminAuditLogListKey}, {roleAbilitiesKey})
    BY DEF useAssignAbilityToRole, adminRoleService
  <2>2. \A e \in {useRoleAbilities, useAdminAuditLogListKey} : (\E k \in {roleAbilitiesKey} : IsPrefix(k, e)) \/ <<useAssignAbilityToRole, e>> \in leavesStale
    BY KeyFacts, StaleFacts DEF adminHooks
  <2> QED BY <2>1, <2>2, MutationOk
<1>27. HookOk(useRevokeAbilityFromRole)
  <2>1. useRevokeAbilityFromRole = Mutation({useRoleAbilities, useAdminAuditLogListKey}, {roleAbilitiesKey})
    BY DEF useRevokeAbilityFromRole, adminRoleService
  <2>2. \A e \in {useRoleAbilities, useAdminAuditLogListKey} : (\E k \in {roleAbilitiesKey} : IsPrefix(k, e)) \/ <<useRevokeAbilityFromRole, e>> \in leavesStale
    BY KeyFacts, StaleFacts DEF adminHooks
  <2> QED BY <2>1, <2>2, MutationOk
<1>28. HookOk(useCreateAbility)
  <2>1. useCreateAbility = Mutation({useAdminAbilitiesList, useAdminAuditLogListKey}, {adminAbilityKeys.all})
    BY DEF useCreateAbility, adminAbilityService
  <2>2. \A e \in {useAdminAbilitiesList, useAdminAuditLogListKey} : (\E k \in {adminAbilityKeys.all} : IsPrefix(k, e)) \/ <<useCreateAbility, e>> \in leavesStale
    BY KeyFacts, StaleFacts DEF adminHooks
  <2> QED BY <2>1, <2>2, MutationOk
<1>29. HookOk(useDeleteAbility)
  <2>1. useDeleteAbility = Mutation({useAdminAbilitiesList, useRoleAbilities, useAdminAuditLogListKey}, {adminAbilityKeys.all})
    BY DEF useDeleteAbility, adminAbilityService
  <2>2. \A e \in {useAdminAbilitiesList, useRoleAbilities, useAdminAuditLogListKey} : (\E k \in {adminAbilityKeys.all} : IsPrefix(k, e)) \/ <<useDeleteAbility, e>> \in leavesStale
    BY KeyFacts, StaleFacts DEF adminHooks
  <2> QED BY <2>1, <2>2, MutationOk
<1>30. HookOk(useUpdateFeedback)
  <2>1. useUpdateFeedback = Mutation({useAdminFeedbackTableListKey, useAdminFeedbackDetail}, {adminFeedbackKeys.detail, adminFeedbackKeys.lists})
    BY DEF useUpdateFeedback, adminFeedbackService
  <2>2. \A e \in {useAdminFeedbackTableListKey, useAdminFeedbackDetail} : (\E k \in {adminFeedbackKeys.detail, adminFeedbackKeys.lists} : IsPrefix(k, e)) \/ <<useUpdateFeedback, e>> \in leavesStale
    BY KeyFacts, StaleFacts
  <2> QED BY <2>1, <2>2, MutationOk
<1>31. HookOk(useUpdateApiKey)
  <2>1. useUpdateApiKey = [Mutation(keyTables \cup {useApiKey}, {apiKeyKeys.lists}) EXCEPT !.writes = {apiKeyKeys.detail}]
    BY DEF useUpdateApiKey, apiKeyService
  <2>2. /\ useUpdateApiKey.call = keyTables \cup {useApiKey} /\ useUpdateApiKey.onMutate = {}
        /\ useUpdateApiKey.writes = {apiKeyKeys.detail} /\ useUpdateApiKey.onSuccess = {apiKeyKeys.lists}
        /\ useUpdateApiKey.onSettled = {}
    BY <2>1 DEF Mutation
  <2>3. <<useUpdateApiKey, useApiKey>> \in leavesStale
    BY StaleFacts
  <2>4. ASSUME NEW e \in Entries, IsPrefix(apiKeyKeys.detail, e)
        PROVE  e = useApiKey
    BY <2>4 DEF IsPrefix, Entries, memberKeys, createQueryKeys, apiKeyKeys, tunnelKeys_summary,
       meKeys_detail, billingKeys, feedbackKeys, notificationKeys, adminUserKeys, adminRoleKeys,
       adminAbilityKeys, adminFeedbackKeys, adminAuditLogKeys, roleAbilitiesKey,
       useMembersData, useMembersTableListKey, useOrgDetail, useInvitations,
       useMe, useApiKeys, useApiKeysTableListKey, useApiKey,
       useApiKeyUsage, useUsageSummary, useSubscription, useInvoices,
       useNotifications, useMyFeedback, useFeedbackDetail, useAdminUsers,
       useAdminUserDetail, useAdminRolesList, useAdminRoleDetail, useRoleAbilities,
       useAdminAbilitiesList, useAdminFeedbackTableListKey, useAdminFeedbackDetail, useAdminAuditLogListKey
  <2> QED BY <2>2, <2>3, <2>4, KeyFacts DEF HookOk, keyTables
<1> QED BY <1>1, <1>2, <1>3, <1>4, <1>5, <1>6, <1>7, <1>8, <1>9, <1>10, <1>11, <1>12, <1>13, <1>14, <1>15, <1>16, <1>17, <1>18, <1>19, <1>20, <1>21, <1>22, <1>23, <1>24, <1>25, <1>26, <1>27, <1>28, <1>29, <1>30, <1>31
     DEF Hooks, memberHooks, keyHooks, bellHooks, adminHooks

-----------------------------------------------------------------------------

\* Nothing but known gaps has been applied to the entry so far.
NoGap == \A m \in server : Refreshed(m)

\* d is what the api holds, but for calls that are still running.
Shows(d) == d \subseteq server /\ \A m \in server \ d : Running(m)

\* An entry that is not invalidated, and that no running mutation has written in
\* advance, shows what the api holds but for running calls, and so does what a
\* fetch under way has read.
CacheInv ==
  /\ hook \in [Muts -> Hooks] /\ entry \in Entries /\ server \subseteq Muts
  /\ stage \in [Muts -> {"idle", "asked", "applied", "done"}]
  /\ \A m \in Muts : m \in server => stage[m] \in {"applied", "done"} /\ entry \in hook[m].call
  /\ \A m \in Muts : stage[m] = "applied" /\ entry \in hook[m].call => m \in server
  /\ NoGap /\ fetch.st = "read" => Shows(fetch.got)
  /\ NoGap /\ ~stale /\ (\A m \in Muts : Running(m) => ~Matches(hook[m].onMutate)) => Shows(data)

\* What HookOk says of a mutation in the entry's own terms.
LEMMA HookOkHere ==
  ASSUME CacheInv, NEW m \in Muts
  PROVE  /\ Matches(hook[m].onMutate) => Matches(hook[m].onSettled)
         /\ Matches(hook[m].onSettled) => Matches(hook[m].onSuccess \cup hook[m].onSettled)
         /\ entry \in hook[m].call /\ ~Matches(hook[m].onSuccess \cup hook[m].onSettled) =>
              <<hook[m], entry>> \in leavesStale
         /\ Matches(hook[m].writes) => entry \in hook[m].call /\ <<hook[m], entry>> \in leavesStale
<1>1. HookOk(hook[m]) /\ entry \in Entries
  BY HooksOk DEF CacheInv
<1> QED BY <1>1, Zenon DEF HookOk, Matches

LEMMA CacheStarts == QueryInit => CacheInv
<1> SUFFICES ASSUME QueryInit PROVE CacheInv
  OBVIOUS
<1>1. PICK S \in Screens : hook \in [Muts -> S]
  BY DEF QueryInit
<1>2. hook \in [Muts -> Hooks]
  BY <1>1, QueryAssumption
<1> QED BY <1>2 DEF QueryInit, CacheInv, Shows, noFetch

\* mutate.
LEMMA MutateKeeps ==
  ASSUME CacheInv, NEW m \in Muts, mutate(m)
  PROVE  CacheInv'
<1>1. /\ stage[m] = "idle" /\ stage' = [stage EXCEPT ![m] = "asked"]
      /\ hook' = hook /\ entry' = entry /\ lost' = lost /\ server' = server
      /\ fetch' = IF Matches(hook[m].onMutate) THEN noFetch ELSE fetch
      /\ data' = IF Matches(hook[m].onMutate) THEN data \cup {m} ELSE data
      /\ stale' = (stale /\ ~Matches(hook[m].onMutate))
  BY DEF mutate
<1>2. \A x \in Muts : Running(x) => Running(x)'
  BY <1>1 DEF CacheInv, Running
<1>3. Running(m)'
  BY <1>1 DEF CacheInv, Running
<1>4. NoGap' = NoGap
  BY <1>1 DEF NoGap, Refreshed, Matches
<1>5. \A d : Shows(d) => Shows(d)'
  BY <1>1, <1>2 DEF Shows, CacheInv
<1>6. CASE Matches(hook[m].onMutate)
  <2>1. Matches(hook[m].onMutate)'
    BY <1>1, <1>6 DEF Matches
  <2>2. fetch' = noFetch
    BY <1>1, <1>6
  <2> QED BY <1>1, <1>3, <2>1, <2>2 DEF CacheInv, noFetch
<1>7. CASE ~Matches(hook[m].onMutate)
  <2>1. fetch' = fetch /\ data' = data /\ (stale' <=> stale)
    BY <1>1, <1>7
  <2>2. (\A x \in Muts : Running(x)' => ~Matches(hook[x].onMutate)')
          => \A x \in Muts : Running(x) => ~Matches(hook[x].onMutate)
    BY <1>1, <1>2 DEF Matches
  <2>3. NoGap' /\ fetch'.st = "read" => Shows(fetch.got)'
    BY <1>4, <1>5, <2>1 DEF CacheInv
  <2>4. (NoGap' /\ ~stale' /\ \A x \in Muts : Running(x)' => ~Matches(hook[x].onMutate)') => Shows(data)'
    BY <1>4, <1>5, <2>1, <2>2 DEF CacheInv
  <2>5. \A x \in Muts : /\ x \in server' => stage'[x] \in {"applied", "done"} /\ entry' \in hook'[x].call
                        /\ stage'[x] = "applied" /\ entry' \in hook'[x].call => x \in server'
    BY <1>1 DEF CacheInv
  <2> QED BY <1>1, <2>1, <2>3, <2>4, <2>5 DEF CacheInv
<1> QED BY <1>6, <1>7

\* The api applies a call: it runs on, and the entry may now lack it.
LEMMA AppliedKeeps ==
  ASSUME CacheInv, NEW m \in Muts, applied(m)
  PROVE  CacheInv'
<1>1. /\ stage[m] = "asked" /\ stage' = [stage EXCEPT ![m] = "applied"]
      /\ hook' = hook /\ entry' = entry /\ lost' = lost /\ fetch' = fetch /\ data' = data /\ stale' = stale
      /\ server' = IF entry \in hook[m].call THEN server \cup {m} ELSE server
  BY DEF applied
<1>2. \A x \in Muts : Running(x)' <=> Running(x)
  BY <1>1 DEF CacheInv, Running
<1>3. Running(m)' /\ server \subseteq server' /\ server' \subseteq server \cup {m}
  BY <1>1 DEF CacheInv, Running
<1>4. NoGap' => NoGap
  BY <1>1, <1>3 DEF NoGap, Refreshed, Matches
<1>5. \A d : Shows(d) => Shows(d)'
  BY <1>2, <1>3 DEF Shows, CacheInv
<1>6. (\A x \in Muts : Running(x)' => ~Matches(hook[x].onMutate)')
        => \A x \in Muts : Running(x) => ~Matches(hook[x].onMutate)
  BY <1>1, <1>2 DEF Matches
<1>7. NoGap' /\ fetch'.st = "read" => Shows(fetch.got)'
  BY <1>1, <1>4, <1>5 DEF CacheInv
<1>8. (NoGap' /\ ~stale' /\ \A x \in Muts : Running(x)' => ~Matches(hook[x].onMutate)') => Shows(data)'
  BY <1>1, <1>4, <1>5, <1>6 DEF CacheInv
<1>9. \A x \in Muts : /\ x \in server' => stage'[x] \in {"applied", "done"} /\ entry' \in hook'[x].call
                      /\ stage'[x] = "applied" /\ entry' \in hook'[x].call => x \in server'
  BY <1>1 DEF CacheInv
<1> QED BY <1>1, <1>3, <1>7, <1>8, <1>9 DEF CacheInv

\* A mutation ends: either the entry is invalidated and fetched again, or the
\* mutation had no part in it and nothing but its stage changes.
LEMMA EndKeeps ==
  ASSUME CacheInv, NEW m \in Muts, Running(m), stage' = [stage EXCEPT ![m] = "done"],
         hook' = hook, entry' = entry, server' = server, NoGap' => NoGap,
         \/ stale' /\ fetch' = asked
         \/ /\ fetch' = fetch /\ (stale' <=> stale) /\ ~Matches(hook[m].onMutate)
            /\ NoGap' => m \notin server /\ data' = data
  PROVE  CacheInv'
<1>1. \A x \in Muts : Running(x)' <=> Running(x) /\ x # m
  BY DEF CacheInv, Running
<1>2. /\ hook' \in [Muts -> Hooks] /\ entry' \in Entries /\ server' \subseteq Muts
      /\ stage' \in [Muts -> {"idle", "asked", "applied", "done"}]
      /\ \A x \in Muts : /\ x \in server' => stage'[x] \in {"applied", "done"} /\ entry' \in hook'[x].call
                         /\ stage'[x] = "applied" /\ entry' \in hook'[x].call => x \in server'
  BY DEF CacheInv
<1>3. CASE stale' /\ fetch' = asked
  BY <1>2, <1>3 DEF CacheInv, asked
<1>4. CASE /\ fetch' = fetch /\ (stale' <=> stale) /\ ~Matches(hook[m].onMutate)
           /\ NoGap' => m \notin server /\ data' = data
  <2>1. m \notin server => \A d : Shows(d) => Shows(d)'
    BY <1>1 DEF Shows, CacheInv
  <2>2. (\A x \in Muts : Running(x)' => ~Matches(hook[x].onMutate)')
          => \A x \in Muts : Running(x) => ~Matches(hook[x].onMutate)
    BY <1>1, <1>4 DEF Matches
  <2>3. NoGap' /\ fetch'.st = "read" => Shows(fetch.got)'
    BY <1>4, <2>1 DEF CacheInv
  <2>4. (NoGap' /\ ~stale' /\ \A x \in Muts : Running(x)' => ~Matches(hook[x].onMutate)') => Shows(data)'
    BY <1>4, <2>1, <2>2 DEF CacheInv
  <2> QED BY <1>2, <2>3, <2>4 DEF CacheInv
<1> QED BY <1>3, <1>4

LEMMA SucceedsKeeps ==
  ASSUME CacheInv, NEW m \in Muts, succeeds(m)
  PROVE  CacheInv'
<1>1. /\ stage[m] = "applied" /\ stage' = [stage EXCEPT ![m] = "done"]
      /\ data' = IF Matches(hook[m].writes) THEN reply[m] ELSE data
      /\ stale' = (stale \/ Matches(hook[m].onSuccess \cup hook[m].onSettled))
      /\ fetch' = IF Matches(hook[m].onSuccess \cup hook[m].onSettled) THEN asked ELSE fetch
      /\ hook' = hook /\ entry' = entry /\ lost' = lost /\ server' = server
  BY DEF succeeds, invalidateQueries
<1>2. Running(m)
  BY <1>1 DEF Running
<1>3. NoGap' => NoGap
  BY <1>1 DEF NoGap, Refreshed, Matches
<1>4. CASE Matches(hook[m].onSuccess \cup hook[m].onSettled)
  <2>1. stale' /\ fetch' = asked
    BY <1>1, <1>4
  <2> QED BY <1>1, <1>2, <1>3, <2>1, EndKeeps
<1>5. CASE ~Matches(hook[m].onSuccess \cup hook[m].onSettled)
  <2>1. fetch' = fetch /\ (stale' <=> stale) /\ ~Matches(hook[m].onMutate)
    BY <1>1, <1>5, HookOkHere
  <2>2. ASSUME NoGap
        PROVE  entry \notin hook[m].call
    <3> SUFFICES ASSUME entry \in hook[m].call PROVE FALSE
      OBVIOUS
    <3>1. m \in server
      BY <1>1 DEF CacheInv
    <3>2. <<hook[m], entry>> \in leavesStale
      BY <1>5, HookOkHere
    <3> QED BY <2>2, <3>1, <3>2 DEF NoGap, Refreshed
  <2>3. ASSUME NoGap
        PROVE  m \notin server /\ data' = data
    <3>1. entry \notin hook[m].call
      BY <2>2, <2>3
    <3>2. data' = data
      BY <1>1, <3>1, HookOkHere
    <3>3. m \notin server
      BY <3>1 DEF CacheInv
    <3> QED BY <3>2, <3>3
  <2> QED BY <1>1, <1>2, <1>3, <2>1, <2>3, EndKeeps
<1> QED BY <1>4, <1>5

LEMMA FailsKeeps ==
  ASSUME CacheInv, NEW m \in Muts, fails(m)
  PROVE  CacheInv'
<1>1. /\ Running(m) /\ stage' = [stage EXCEPT ![m] = "done"]
      /\ lost' = IF stage[m] = "applied" THEN lost \cup {m} ELSE lost
      /\ data' = IF Matches(hook[m].onMutate) THEN snapshot[m] ELSE data
      /\ stale' = (stale \/ Matches(hook[m].onSettled))
      /\ fetch' = IF Matches(hook[m].onSettled) THEN asked ELSE fetch
      /\ hook' = hook /\ entry' = entry /\ server' = server
  BY DEF fails, invalidateQueries
<1>3. NoGap' => NoGap
  BY <1>1 DEF NoGap, Refreshed, Matches
<1>4. CASE Matches(hook[m].onSettled)
  <2>1. stale' /\ fetch' = asked
    BY <1>1, <1>4
  <2> QED BY <1>1, <1>3, <2>1, EndKeeps
<1>5. CASE ~Matches(hook[m].onSettled)
  <2>1. fetch' = fetch /\ (stale' <=> stale) /\ ~Matches(hook[m].onMutate) /\ data' = data
    BY <1>1, <1>5, HookOkHere
  <2>2. NoGap' => m \notin server
    <3> SUFFICES ASSUME NoGap', m \in server PROVE FALSE
      OBVIOUS
    <3>1. stage[m] = "applied"
      BY <1>1 DEF CacheInv, Running
    <3>2. m \in lost' /\ m \in server'
      BY <1>1, <3>1
    <3>3. Matches(hook[m].onSettled)'
      BY <3>2 DEF NoGap, Refreshed
    <3> QED BY <1>1, <1>5, <3>3 DEF Matches
  <2> QED BY <1>1, <1>3, <2>1, <2>2, EndKeeps
<1> QED BY <1>4, <1>5

\* A fetch starts, reads what the api holds, and ends with it or in vain.
LEMMA FetchKeeps ==
  ASSUME CacheInv, refetch \/ fetchReads \/ fetchEnds
  PROVE  CacheInv'
<1>1. /\ hook' = hook /\ entry' = entry /\ stage' = stage /\ lost' = lost /\ server' = server
  BY DEF refetch, fetchReads, fetchEnds
<1>2. /\ NoGap' <=> NoGap
      /\ \A x \in Muts : /\ Running(x)' <=> Running(x)
                         /\ Matches(hook[x].onMutate)' <=> Matches(hook[x].onMutate)
  BY <1>1 DEF NoGap, Refreshed, Matches, Running
<1>3. \A d : Shows(d) => Shows(d)'
  BY <1>1, <1>2 DEF Shows, CacheInv
<1>4. Shows(server)
  BY DEF Shows
<1>5. /\ hook' \in [Muts -> Hooks] /\ entry' \in Entries /\ server' \subseteq Muts
      /\ stage' \in [Muts -> {"idle", "asked", "applied", "done"}]
      /\ \A x \in Muts : /\ x \in server' => stage'[x] \in {"applied", "done"} /\ entry' \in hook'[x].call
                         /\ stage'[x] = "applied" /\ entry' \in hook'[x].call => x \in server'
  BY <1>1 DEF CacheInv
<1>6. \/ fetch' = asked \/ fetch' = noFetch \/ (fetch'.st = "read" /\ fetch'.got = server)
  BY DEF refetch, fetchReads, fetchEnds
<1>7. NoGap' /\ fetch'.st = "read" => Shows(fetch.got)'
  <2> SUFFICES ASSUME NoGap', fetch'.st = "read" PROVE Shows(fetch.got)'
    OBVIOUS
  <2>1. fetch'.got = server
    BY <1>6 DEF asked, noFetch
  <2> QED BY <1>3, <1>4, <2>1
<1>8. (NoGap' /\ ~stale' /\ \A x \in Muts : Running(x)' => ~Matches(hook[x].onMutate)') => Shows(data)'
  <2>1. CASE data' = data /\ stale' = stale
    BY <1>2, <1>3, <2>1 DEF CacheInv
  <2>2. CASE fetch.st = "read" /\ data' = fetch.got
    BY <1>2, <1>3, <2>2 DEF CacheInv
  <2> QED BY <2>1, <2>2 DEF refetch, fetchReads, fetchEnds
<1> QED BY <1>5, <1>7, <1>8 DEF CacheInv

\* When nothing runs any more, what the entry shows is all the api holds.
LEMMA CacheFresh == CacheInv => QuietMeansFresh
BY DEF CacheInv, QuietMeansFresh, NoGap, Shows

\* When no mutation is running and an entry is neither stale nor being fetched,
\* it shows exactly what the api holds, but for the gaps leavesStale lists and
\* lost answers of hooks without onSettled: for any number of overlapping
\* mutations of any hooks of the dashboard and the console.
THEOREM CacheCorrect == QuerySpec => []QuietMeansFresh
<1>1. CacheInv /\ [QueryNext]_queryVars => CacheInv'
  <2> SUFFICES ASSUME CacheInv, [QueryNext]_queryVars PROVE CacheInv'
    OBVIOUS
  <2>1. CASE QueryNext
    BY <2>1, MutateKeeps, AppliedKeeps, SucceedsKeeps, FailsKeeps, FetchKeeps DEF QueryNext
  <2>2. CASE UNCHANGED queryVars
    <3>1. /\ hook' = hook /\ entry' = entry /\ stage' = stage /\ lost' = lost /\ server' = server
          /\ data' = data /\ stale' = stale /\ fetch' = fetch
      BY <2>2 DEF queryVars
    <3>2. /\ NoGap' <=> NoGap
          /\ \A x \in Muts : /\ Running(x)' <=> Running(x)
                             /\ Matches(hook[x].onMutate)' <=> Matches(hook[x].onMutate)
      BY <3>1 DEF NoGap, Refreshed, Matches, Running
    <3>3. \A d : Shows(d) => Shows(d)'
      BY <3>1, <3>2 DEF Shows, CacheInv
    <3>4. NoGap' /\ fetch'.st = "read" => Shows(fetch.got)'
      BY <3>1, <3>2, <3>3 DEF CacheInv
    <3>5. (NoGap' /\ ~stale' /\ \A x \in Muts : Running(x)' => ~Matches(hook[x].onMutate)') => Shows(data)'
      BY <3>1, <3>2, <3>3 DEF CacheInv
    <3> QED BY <3>1, <3>4, <3>5 DEF CacheInv
  <2> QED BY <2>1, <2>2
<1> QED BY <1>1, CacheStarts, CacheFresh, PTL DEF QuerySpec

-----------------------------------------------------------------------------
(* The forms. *)

\* What the views have in common: one that yields a secret is a dialog that
\* closes with the answer and hears it after it was closed; no dialog but the
\* feedback's shows a message, and none submits as its page is mounted.
ViewOk(v) ==
  /\ v.secret => v.success = "close" /\ v.closing \in {"free", "settled"}
  /\ v.closing # "never" => ~v.onMount
  /\ v.closing # "never" /\ v # FeedbackButton => v.success # "message" /\ v.failure # "message"

LEMMA ViewsOk == \A v \in Views : ViewOk(v)
<1> USE DEF ViewOk, View, Dialog, PageForm
<1>1. ViewOk(Dialog)
  OBVIOUS
<1>2. ViewOk(PageForm)
  OBVIOUS
<1>3. ViewOk(CreateApiKeyDialog)
  BY DEF CreateApiKeyDialog
<1>4. ViewOk(CreateAdminDialog)
  BY DEF CreateAdminDialog
<1>5. ViewOk(UpgradeDialog)
  BY DEF UpgradeDialog
<1>6. ViewOk(TransferOwnershipDialog)
  BY DEF TransferOwnershipDialog
<1>7. ViewOk(RotateApiKeyDialog)
  BY DEF RotateApiKeyDialog
<1>8. ViewOk(Confirmation)
  BY DEF Confirmation
<1>9. ViewOk(AdminConfirmation)
  BY DEF AdminConfirmation, Confirmation
<1>10. ViewOk(FeedbackButton)
  BY DEF FeedbackButton
<1>11. ViewOk(ForgotPasswordView)
  BY DEF ForgotPasswordView
<1>12. ViewOk(ResetPasswordView)
  BY DEF ResetPasswordView
<1>13. ViewOk(ChangePasswordView)
  BY DEF ChangePasswordView
<1>14. ViewOk(OrgSettingsView)
  BY DEF OrgSettingsView
<1>15. ViewOk(VerifyEmailView)
  BY DEF VerifyEmailView
<1> QED BY <1>1, <1>2, <1>3, <1>4, <1>5, <1>6, <1>7, <1>8, <1>9, <1>10, <1>11, <1>12, <1>13, <1>14, <1>15
     DEF Views, AcceptInvitationView, AdminFeedbackDetailView, AdminLogin, AdminRoleDetailView, ChangeRoleDialog, CreateAbilityDialog, CreateOrgDialog, CreateRoleDialog, EditAdminProfileCard, InviteMemberDialog, Login, ProfileView, Register, SubscriptionCard

NoneHeard == \A s \in sent : ~s.heard

FormShape ==
  /\ view \in Views /\ mounted \in BOOLEAN /\ open \in BOOLEAN /\ message \in BOOLEAN
  /\ opening \in Nat /\ visit \in Nat /\ draft \in Nat /\ visit =< opening
  /\ sent \subseteq [opening : Nat, heard : BOOLEAN, hurried : BOOLEAN]
  /\ \A s \in sent : s.opening =< opening
  /\ secrets \in [shown : SUBSET Nat, saved : SUBSET Nat, lost : SUBSET Nat]

\* A page that was left shows and hears nothing.
LeftPage == ~mounted => ~open /\ NoneHeard /\ secrets.shown = {}

\* While a secret is shown its dialog is closed and nothing more is awaited; an
\* answer nobody hears is for an earlier visit.
SecretsOk ==
  /\ \E n : secrets.shown \subseteq {n}
  /\ secrets.shown # {} => view.secret /\ ~open /\ NoneHeard
  /\ view.secret => \A s \in sent : s.heard \/ s.opening < visit \/ ~mounted

\* No timer closes the dialog under a submission that was made when none ran.
TimersSpent == \A s \in sent : s.heard /\ ~s.hurried => "close" \notin timers

FormsInv ==
  /\ FormShape /\ LeftPage /\ SecretsOk /\ OneSubmission /\ AnswersOwnOpening /\ TimersSpent
  /\ "close" \in timers => view = FeedbackButton

\* What FormsSound says of a step beside the invariant.
SecretsKept ==
  mounted /\ mounted' => /\ secrets.shown \subseteq secrets'.shown \cup secrets'.saved
                         /\ \A n \in secrets'.lost \ secrets.lost : n < visit

LEMMA FormsStart == FormsInit => FormsInv
<1> SUFFICES ASSUME FormsInit PROVE FormsInv
  OBVIOUS
<1>1. view \in Views /\ sent = {} /\ timers = {} /\ visit = 0 /\ opening = 0 /\ draft = 0
  BY FormViewsAssumption DEF FormsInit
<1>2. mounted = FALSE /\ open = FALSE /\ message = FALSE
  BY DEF FormsInit
<1>3. /\ secrets \in [shown : SUBSET Nat, saved : SUBSET Nat, lost : SUBSET Nat]
      /\ secrets.shown = {}
  BY DEF FormsInit
<1>4. FormShape
  <2>1. mounted \in BOOLEAN /\ open \in BOOLEAN /\ message \in BOOLEAN
    BY <1>2
  <2>2. /\ sent \subseteq [opening : Nat, heard : BOOLEAN, hurried : BOOLEAN] /\ \A s \in sent : s.opening =< opening
        /\ opening \in Nat /\ visit \in Nat /\ draft \in Nat /\ visit =< opening
    BY <1>1
  <2> QED BY <1>1, <1>3, <2>1, <2>2 DEF FormShape
<1>5. SecretsOk
  BY <1>1, <1>3 DEF SecretsOk
<1> QED BY <1>1, <1>2, <1>3, <1>4, <1>5
        DEF FormsInv, LeftPage, OneSubmission, AnswersOwnOpening, TimersSpent, NoneHeard

\* A step that opens nothing and leaves the submissions and the secrets alone.
LEMMA QuietKeeps ==
  ASSUME FormsInv, view' = view, visit' = visit, mounted' = mounted, opening' = opening,
         sent' = sent, secrets' = secrets,
         (open' = open)
           \/ (open' = FALSE /\ (NoneHeard \/ "close" \in timers \/ view.closing # "settled")),
         "close" \in timers' => "close" \in timers,
         message' \in BOOLEAN, draft' \in Nat,
         "close" \in timers' => view = FeedbackButton
  PROVE  FormsInv' /\ SecretsKept
<1>1. FormShape'
  BY DEF FormsInv, FormShape
<1>2. LeftPage' /\ SecretsOk'
  BY DEF FormsInv, LeftPage, SecretsOk, NoneHeard
<1>3. OneSubmission' /\ AnswersOwnOpening' /\ TimersSpent'
  BY DEF FormsInv, OneSubmission, AnswersOwnOpening, TimersSpent, NoneHeard
<1> QED BY <1>1, <1>2, <1>3 DEF FormsInv, SecretsKept

LEMMA MountKeeps ==
  ASSUME FormsInv, Mount
  PROVE  FormsInv' /\ SecretsKept
<1>1. ViewOk(view)
  BY ViewsOk DEF FormsInv, FormShape
<1>2. /\ mounted = FALSE /\ mounted' = TRUE /\ (open' <=> view.closing = "never") /\ open' \in BOOLEAN
      /\ opening' = opening + 1 /\ visit' = opening + 1
      /\ UNCHANGED <<view, draft, message, timers, secrets>>
  BY DEF Mount, isDialog, FormsInv, FormShape
<1>3. /\ sent' = IF view.onMount THEN sent \cup {Submission(opening + 1)} ELSE sent
      /\ Submission(opening + 1).opening = opening + 1 /\ Submission(opening + 1).heard = TRUE
      /\ Submission(opening + 1) \in [opening : Nat, heard : BOOLEAN, hurried : BOOLEAN]
  BY DEF Mount, Submission, FormsInv, FormShape
<1>4. NoneHeard /\ secrets.shown = {}
  BY <1>2 DEF FormsInv, LeftPage
<1>5. FormShape'
  BY <1>2, <1>3 DEF FormsInv, FormShape
<1>6. SecretsOk'
  BY <1>1, <1>2, <1>3, <1>4 DEF FormsInv, FormShape, SecretsOk, ViewOk
<1>7. OneSubmission'
  BY <1>3, <1>4 DEF OneSubmission, NoneHeard
<1>8. AnswersOwnOpening' /\ TimersSpent'
  BY <1>1, <1>2, <1>3, <1>4 DEF AnswersOwnOpening, TimersSpent, NoneHeard, ViewOk, Submission
<1> QED BY <1>2, <1>5, <1>6, <1>7, <1>8 DEF FormsInv, LeftPage, SecretsKept

\* The submissions under way, when nobody hears their answers any more.
LEMMA Unheard ==
  ASSUME FormsInv, sent' = {[s EXCEPT !.heard = FALSE] : s \in sent}
  PROVE  /\ sent' \subseteq [opening : Nat, heard : BOOLEAN, hurried : BOOLEAN] /\ NoneHeard'
         /\ \A s \in sent' : s.opening =< opening
         /\ \A s \in sent' : \E t \in sent : s.opening = t.opening
<1>1. \A s \in sent : /\ [s EXCEPT !.heard = FALSE] \in [opening : Nat, heard : BOOLEAN, hurried : BOOLEAN]
                      /\ [s EXCEPT !.heard = FALSE].opening = s.opening
                      /\ [s EXCEPT !.heard = FALSE].heard = FALSE
                      /\ s.opening =< opening
  BY DEF FormsInv, FormShape
<1> QED BY <1>1 DEF NoneHeard

LEMMA UnmountKeeps ==
  ASSUME FormsInv, Unmount
  PROVE  FormsInv' /\ SecretsKept
<1>1. /\ mounted' = FALSE /\ open' = FALSE /\ draft' = 0 /\ message' = FALSE /\ timers' = {}
      /\ sent' = {[s EXCEPT !.heard = FALSE] : s \in sent}
      /\ view' = view /\ visit' = visit /\ opening' = opening
  BY DEF Unmount
<1>2. secrets' \in [shown : SUBSET Nat, saved : SUBSET Nat, lost : SUBSET Nat] /\ secrets'.shown = {}
  BY DEF Unmount, FormsInv, FormShape
<1>3. FormShape'
  BY <1>1, <1>2, Unheard DEF FormsInv, FormShape
<1> QED BY <1>1, <1>2, <1>3, Unheard
        DEF FormsInv, LeftPage, SecretsOk, OneSubmission, AnswersOwnOpening, TimersSpent, NoneHeard, SecretsKept

LEMMA OpenKeeps ==
  ASSUME FormsInv, OpenDialog
  PROVE  FormsInv' /\ SecretsKept
<1>1. /\ mounted /\ ~open /\ secrets.shown = {} /\ open' = TRUE /\ opening' = opening + 1
      /\ UNCHANGED <<view, visit, mounted, draft, message, sent, timers, secrets>>
  BY DEF OpenDialog
<1>2. FormShape'
  BY <1>1 DEF FormsInv, FormShape
<1> QED BY <1>1, <1>2
        DEF FormsInv, LeftPage, SecretsOk, OneSubmission, AnswersOwnOpening, TimersSpent, NoneHeard, SecretsKept

LEMMA SubmitKeeps ==
  ASSUME FormsInv, SubmitForm
  PROVE  FormsInv' /\ SecretsKept
<1>1. ViewOk(view)
  BY ViewsOk DEF FormsInv, FormShape
<1>2. PICK new \in [opening : Nat, heard : BOOLEAN, hurried : BOOLEAN] :
        /\ sent' = sent \cup {new} /\ new.opening = opening
        /\ new.heard <=> view.closing # "forget"
        /\ new.hurried <=> "close" \in timers
        /\ \/ view.closing = "forget" /\ open' = FALSE /\ draft' = 0
           \/ open' = open /\ draft' = draft
  <2>1. opening \in Nat
    BY DEF FormsInv, FormShape
  <2>2. CASE view.closing = "forget"
    <3>1. PICK new : new = [Submission(opening) EXCEPT !.heard = FALSE]
      OBVIOUS
    <3>2. sent' = sent \cup {new} /\ open' = FALSE /\ draft' = 0
      BY <2>2, <3>1 DEF SubmitForm
    <3>3. PICK late \in BOOLEAN : late = ("close" \in timers)
      <4>1. ("close" \in timers) \in BOOLEAN
        OBVIOUS
      <4> QED BY <4>1, Zenon
    <3>4. new = [opening |-> opening, heard |-> FALSE, hurried |-> late]
      BY <3>1, <3>3 DEF Submission
    <3>5. /\ new \in [opening : Nat, heard : BOOLEAN, hurried : BOOLEAN]
          /\ new.opening = opening /\ new.heard = FALSE /\ new.hurried = late
      BY <2>1, <3>4
    <3> QED BY <2>2, <3>2, <3>3, <3>5
  <2>3. CASE view.closing # "forget"
    <3>1. PICK new : new = Submission(opening)
      OBVIOUS
    <3>2. sent' = sent \cup {new} /\ UNCHANGED <<open, draft>>
      BY <2>3, <3>1 DEF SubmitForm
    <3>3. /\ new \in [opening : Nat, heard : BOOLEAN, hurried : BOOLEAN]
          /\ new.opening = opening /\ new.heard = TRUE /\ new.hurried = ("close" \in timers)
      BY <2>1, <3>1 DEF Submission
    <3> QED BY <2>3, <3>2, <3>3
  <2> QED BY <2>2, <2>3
<1>3. /\ open /\ NoneHeard
      /\ UNCHANGED <<view, visit, mounted, opening, message, timers, secrets>>
  BY DEF SubmitForm, isPending, NoneHeard
<1>4. FormShape'
  <2>1. open' \in BOOLEAN /\ draft' \in Nat
    <3>1. open \in BOOLEAN /\ draft \in Nat
      BY DEF FormsInv, FormShape
    <3>2. \/ open' = FALSE /\ draft' = 0
          \/ open' = open /\ draft' = draft
      BY <1>2
    <3>3. CASE open' = FALSE /\ draft' = 0
      BY <3>3
    <3>4. CASE open' = open /\ draft' = draft
      BY <3>1, <3>4, Zenon
    <3> QED BY <3>2, <3>3, <3>4
  <2>2. mounted \in BOOLEAN /\ message \in BOOLEAN
    BY DEF FormsInv, FormShape
  <2>3. /\ sent' \subseteq [opening : Nat, heard : BOOLEAN, hurried : BOOLEAN] /\ \A s \in sent' : s.opening =< opening
        /\ opening \in Nat /\ visit \in Nat /\ visit =< opening
    BY <1>2 DEF FormsInv, FormShape
  <2>4. view \in Views /\ secrets \in [shown : SUBSET Nat, saved : SUBSET Nat, lost : SUBSET Nat]
    BY DEF FormsInv, FormShape
  <2> QED BY <1>3, <2>1, <2>2, <2>3, <2>4 DEF FormShape
<1>5. mounted /\ secrets.shown = {}
  BY <1>3 DEF FormsInv, LeftPage, SecretsOk, FormShape
<1>6. SecretsOk'
  BY <1>1, <1>2, <1>3, <1>5 DEF FormsInv, SecretsOk, ViewOk
<1>7. OneSubmission' /\ AnswersOwnOpening' /\ TimersSpent'
  BY <1>2, <1>3 DEF OneSubmission, AnswersOwnOpening, TimersSpent, NoneHeard
<1> QED BY <1>2, <1>3, <1>4, <1>5, <1>6, <1>7 DEF FormsInv, LeftPage, SecretsKept

LEMMA CloseKeeps ==
  ASSUME FormsInv, CloseDialog
  PROVE  FormsInv' /\ SecretsKept
<1>1. /\ open /\ mayClose /\ open' = FALSE
      /\ sent' = IF view.closing = "detach" THEN {[s EXCEPT !.heard = FALSE] : s \in sent} ELSE sent
      /\ UNCHANGED <<view, visit, mounted, opening, secrets>>
  BY DEF CloseDialog
<1>2. /\ draft' \in Nat /\ message' \in BOOLEAN
      /\ "close" \in timers' => "close" \in timers
  BY DEF CloseDialog, Reset, FormsInv, FormShape
<1>3. CASE view.closing = "detach"
  <2>1. sent' = {[s EXCEPT !.heard = FALSE] : s \in sent}
    BY <1>1, <1>3
  <2>2. FormShape'
    BY <1>1, <1>2, <2>1, Unheard DEF FormsInv, FormShape
  <2>3. ~view.secret
    BY <1>3, ViewsOk DEF FormsInv, FormShape, ViewOk
  <2> QED BY <1>1, <1>2, <1>3, <2>1, <2>2, <2>3, Unheard
          DEF FormsInv, LeftPage, SecretsOk, OneSubmission, AnswersOwnOpening, TimersSpent, NoneHeard, SecretsKept
<1>4. CASE view.closing # "detach"
  <2>1. sent' = sent
    BY <1>1, <1>4
  <2>2. NoneHeard \/ view.closing # "settled"
    BY <1>1 DEF mayClose, isPending, NoneHeard
  <2>3. "close" \in timers' => view = FeedbackButton
    BY <1>2 DEF FormsInv
  <2> QED BY <1>1, <1>2, <2>1, <2>2, <2>3, QuietKeeps
<1> QED BY <1>3, <1>4

\* React leaves the form open or closes it, and only the feedback dialog starts
\* a timer that closes it.
LEMMA Reactions ==
  ASSUME FormsInv, NEW how \in {view.success, view.failure}, React(how)
  PROVE  /\ (open' = open) \/ (open' = FALSE)
         /\ message' \in BOOLEAN /\ draft' \in Nat
         /\ "close" \in timers' => view = FeedbackButton
         /\ how = "close" => open' = FALSE
<1>1. ViewOk(view)
  BY ViewsOk DEF FormsInv, FormShape
<1>2. message \in BOOLEAN /\ draft \in Nat
  BY DEF FormsInv, FormShape
<1>3. CASE how = "close" /\ open' = FALSE /\ draft' = 0 /\ UNCHANGED <<message, timers>>
  BY <1>2, <1>3 DEF FormsInv
<1>4. CASE how = "clear" /\ draft' = 0 /\ UNCHANGED <<open, message, timers>>
  BY <1>2, <1>4 DEF FormsInv
<1>5. CASE how \in {"stay", "keep"} /\ UNCHANGED <<open, draft, message, timers>>
  BY <1>2, <1>5 DEF FormsInv
<1>6. CASE /\ how = "message" /\ message' = TRUE /\ UNCHANGED <<open, draft>>
           /\ timers' = IF isDialog THEN timers \cup {"close"} ELSE timers
  <2>1. "close" \in timers' => view = FeedbackButton
    BY <1>1, <1>6 DEF FormsInv, ViewOk, isDialog
  <2> QED BY <1>2, <1>6, <2>1
<1> QED BY <1>3, <1>4, <1>5, <1>6 DEF React

\* An answer that is heard may close the form and show a secret; one that is not
\* heard may lose one.
LEMMA AnsweredKeeps ==
  ASSUME FormsInv, NEW s \in sent, sent' = sent \ {s},
         view' = view, visit' = visit, mounted' = mounted, opening' = opening,
         (open' = open) \/ (open' = FALSE /\ s.heard), message' \in BOOLEAN, draft' \in Nat,
         "close" \in timers' => view = FeedbackButton, timers' = timers \/ s.heard,
         secrets' \in [shown : SUBSET Nat, saved : SUBSET Nat, lost : SUBSET Nat],
         \/ /\ secrets'.shown = secrets.shown
            /\ secrets'.lost \subseteq secrets.lost \cup {n \in {s.opening} : view.secret /\ ~s.heard}
         \/ /\ secrets'.shown = secrets.shown \cup {s.opening} /\ secrets'.lost = secrets.lost
            /\ view.secret /\ s.heard /\ open' = FALSE
  PROVE  FormsInv' /\ SecretsKept
<1>1. s.heard => NoneHeard' /\ secrets.shown = {} /\ mounted
  BY DEF FormsInv, LeftPage, SecretsOk, OneSubmission, NoneHeard
<1>2. FormShape'
  <2>1. open' \in BOOLEAN
    BY Zenon DEF FormsInv, FormShape
  <2> QED BY <2>1 DEF FormsInv, FormShape
<1>3. LeftPage'
  BY <1>1 DEF FormsInv, LeftPage, NoneHeard
<1>4. SecretsOk'
  <2>1. CASE secrets'.shown = secrets.shown
    BY <2>1 DEF FormsInv, SecretsOk, NoneHeard
  <2>2. CASE /\ secrets'.shown = secrets.shown \cup {s.opening}
             /\ view.secret /\ s.heard /\ open' = FALSE
    <3>1. secrets'.shown = {s.opening} /\ NoneHeard'
      BY <1>1, <2>2
    <3> QED BY <2>2, <3>1 DEF FormsInv, SecretsOk
  <2> QED BY <2>1, <2>2
<1>5. OneSubmission'
  BY DEF FormsInv, OneSubmission
<1>6. AnswersOwnOpening' /\ TimersSpent'
  BY <1>1 DEF FormsInv, AnswersOwnOpening, TimersSpent, NoneHeard
<1>7. SecretsKept
  BY <1>1 DEF FormsInv, SecretsOk, SecretsKept
<1> QED BY <1>2, <1>3, <1>4, <1>5, <1>6, <1>7 DEF FormsInv

LEMMA SucceedsOrFails ==
  ASSUME FormsInv, Succeeds \/ Fails
  PROVE  FormsInv' /\ SecretsKept
<1>1. ViewOk(view)
  BY ViewsOk DEF FormsInv, FormShape
<1>2. PICK s \in sent :
        /\ sent' = sent \ {s} /\ UNCHANGED <<view, visit, mounted, opening>>
        /\ \/ /\ IF s.heard THEN React(view.success) ELSE UNCHANGED <<open, draft, message, timers>>
              /\ IF view.secret THEN NewSecret(s) ELSE UNCHANGED secrets
           \/ /\ IF s.heard THEN React(view.failure) ELSE UNCHANGED <<open, draft, message, timers>>
              /\ UNCHANGED secrets
  BY Zenon DEF Succeeds, Fails
<1>3. /\ (open' = open) \/ (open' = FALSE /\ s.heard)
      /\ message' \in BOOLEAN /\ draft' \in Nat
      /\ "close" \in timers' => view = FeedbackButton
      /\ timers' = timers \/ s.heard
  <2>1. CASE s.heard
    <3>1. PICK how \in {view.success, view.failure} : React(how)
      BY <1>2, <2>1
    <3> QED BY <2>1, <3>1, Reactions
  <2>2. CASE ~s.heard
    <3>1. open' = open /\ draft' = draft /\ message' = message /\ timers' = timers
      BY <1>2, <2>2
    <3> QED BY <3>1 DEF FormsInv, FormShape
  <2> QED BY <2>1, <2>2
<1>4. CASE secrets' = secrets
  <2>1. secrets' \in [shown : SUBSET Nat, saved : SUBSET Nat, lost : SUBSET Nat]
    BY <1>4 DEF FormsInv, FormShape
  <2> QED BY <1>2, <1>3, <1>4, <2>1, AnsweredKeeps
<1>5. CASE view.secret /\ NewSecret(s) /\ (s.heard => React(view.success))
  <2>1. s.opening \in Nat /\ secrets \in [shown : SUBSET Nat, saved : SUBSET Nat, lost : SUBSET Nat]
    BY DEF FormsInv, FormShape
  <2>2. CASE s.heard
    <3>1. open' = FALSE
      BY <1>1, <1>5, <2>2, Reactions DEF ViewOk
    <3>2. secrets' = [secrets EXCEPT !.shown = @ \cup {s.opening}]
      BY <1>5, <2>2 DEF NewSecret
    <3>3. /\ secrets' \in [shown : SUBSET Nat, saved : SUBSET Nat, lost : SUBSET Nat]
          /\ secrets'.shown = secrets.shown \cup {s.opening} /\ secrets'.lost = secrets.lost
      BY <2>1, <3>2
    <3> QED BY <1>2, <1>3, <1>5, <2>2, <3>1, <3>3, AnsweredKeeps
  <2>3. CASE ~s.heard
    <3>1. secrets' = [secrets EXCEPT !.lost = @ \cup {s.opening}]
      BY <1>5, <2>3 DEF NewSecret
    <3>2. /\ secrets' \in [shown : SUBSET Nat, saved : SUBSET Nat, lost : SUBSET Nat]
          /\ secrets'.shown = secrets.shown /\ secrets'.lost = secrets.lost \cup {s.opening}
      BY <2>1, <3>1
    <3>3. secrets'.lost \subseteq secrets.lost \cup {n \in {s.opening} : view.secret /\ ~s.heard}
      BY <1>5, <2>3, <3>2
    <3> QED BY <1>2, <1>3, <3>2, <3>3, AnsweredKeeps
  <2> QED BY <2>2, <2>3
<1> QED BY <1>2, <1>4, <1>5

LEMMA ConfirmKeeps ==
  ASSUME FormsInv, ConfirmSecret
  PROVE  FormsInv' /\ SecretsKept
<1>1. PICK s \in secrets.shown : secrets' = [secrets EXCEPT !.shown = @ \ {s}, !.saved = @ \cup {s}]
  BY DEF ConfirmSecret
<1>2. UNCHANGED <<view, visit, mounted, open, opening, draft, message, sent, timers>>
  BY DEF ConfirmSecret
<1>3. /\ secrets' \in [shown : SUBSET Nat, saved : SUBSET Nat, lost : SUBSET Nat]
      /\ secrets'.shown = secrets.shown \ {s} /\ secrets'.saved = secrets.saved \cup {s}
      /\ secrets'.lost = secrets.lost
  BY <1>1 DEF FormsInv, FormShape
<1>4. FormShape'
  BY <1>2, <1>3 DEF FormsInv, FormShape
<1> QED BY <1>2, <1>3, <1>4
        DEF FormsInv, LeftPage, SecretsOk, OneSubmission, AnswersOwnOpening, TimersSpent, NoneHeard, SecretsKept

\* Typing, filling again and the two timers of the feedback dialog.
LEMMA DraftKeeps ==
  ASSUME FormsInv, TypeInto \/ Reseed \/ TimerCloses \/ TimerResets
  PROVE  FormsInv' /\ SecretsKept
<1>1. /\ UNCHANGED <<view, visit, mounted, opening, sent, secrets>>
      /\ "close" \in timers' => "close" \in timers
  BY DEF TypeInto, Reseed, TimerCloses, TimerResets
<1>2. message' \in BOOLEAN /\ draft' \in Nat
  <2>1. message \in BOOLEAN /\ draft \in Nat /\ opening \in Nat
    BY DEF FormsInv, FormShape
  <2>2. (message' = message) \/ (message' = FALSE)
    BY DEF TypeInto, Reseed, TimerCloses, TimerResets
  <2>3. (draft' = draft) \/ (draft' = opening) \/ (draft' = 0)
    BY DEF TypeInto, Reseed, TimerCloses, TimerResets
  <2>4. message' \in BOOLEAN
    BY <2>1, <2>2
  <2> QED BY <2>1, <2>3, <2>4
<1>3. (open' = open) \/ (open' = FALSE /\ "close" \in timers)
  BY DEF TypeInto, Reseed, TimerCloses, TimerResets
<1> QED BY <1>1, <1>2, <1>3, QuietKeeps DEF FormsInv

LEMMA FormsSteps ==
  ASSUME FormsInv, FormsNext
  PROVE  FormsInv' /\ SecretsKept
BY MountKeeps, UnmountKeeps, OpenKeeps, SubmitKeeps, CloseKeeps, SucceedsOrFails, ConfirmKeeps, DraftKeeps
   DEF FormsNext

\* However a dialog is closed and opened again: one submission at a time is
\* heard, a dialog that stays open meanwhile gives the answer to the opening it
\* was made in, unless a timer was about to close it then, and a secret the
\* server made is shown, one at a time, until the user has confirmed it, for
\* every view and any number of openings and visits.
THEOREM FormsCorrect == FormsSpec => FormsSound
<1>1. FormsInv /\ [FormsNext]_formVars => FormsInv'
  <2> SUFFICES ASSUME FormsInv, UNCHANGED formVars PROVE FormsInv'
    BY FormsSteps
  <2> QED
    BY DEF formVars, FormsInv, FormShape, LeftPage, SecretsOk, OneSubmission, AnswersOwnOpening, TimersSpent, NoneHeard
<1>2. FormsInv => Cardinality(secrets.shown) =< 1
  <2> SUFFICES ASSUME FormsInv PROVE Cardinality(secrets.shown) =< 1
    OBVIOUS
  <2>1. PICK n : secrets.shown \subseteq {n}
    BY DEF FormsInv, SecretsOk
  <2>2. secrets.shown = {} \/ secrets.shown = {n}
    BY <2>1
  <2>3. Cardinality({}) = 0 /\ Cardinality({n}) = 1
    BY FS_EmptySet, FS_Singleton, Zenon
  <2> QED BY <2>2, <2>3
<1>3. FormsInv => OneSubmission /\ AnswersOwnOpening
  BY DEF FormsInv
<1>4. FormsInv /\ FormsInv' /\ [FormsNext]_formVars =>
        [/\ OneSubmission' /\ AnswersOwnOpening' /\ Cardinality(secrets'.shown) =< 1
         /\ mounted /\ mounted' => /\ secrets.shown \subseteq secrets'.shown \cup secrets'.saved
                                   /\ \A n \in secrets'.lost \ secrets.lost : n < visit]_formVars
  <2> SUFFICES ASSUME FormsInv, FormsInv', FormsNext
               PROVE  /\ OneSubmission' /\ AnswersOwnOpening' /\ Cardinality(secrets'.shown) =< 1
                      /\ SecretsKept
    BY DEF SecretsKept
  <2>1. (FormsInv => OneSubmission /\ AnswersOwnOpening /\ Cardinality(secrets.shown) =< 1)'
    BY <1>2, <1>3, PTL
  <2>2. OneSubmission' /\ AnswersOwnOpening' /\ Cardinality(secrets'.shown) =< 1
    BY <2>1
  <2> QED BY <2>2, FormsSteps
<1> QED BY <1>1, <1>4, FormsStart, PTL DEF FormsSpec, FormsSound

-----------------------------------------------------------------------------
(* The browser's session. *)

Refreshing(t) == phase[t] = "refresh" \/ bootPhase[t] = "refresh"

\* The refresh under way is the lock holder's, and carries a cookie that was not
\* exchanged before.
CookieInv ==
  /\ issued \in Nat /\ cookie \in Nat /\ cookie =< issued /\ cookie \notin rotated
  /\ \A c \in rotated : c \in Nat /\ c =< issued
  /\ phase \in [Tabs -> {"off", "lock", "refresh", "retry"}]
  /\ bootPhase \in [Tabs -> {"off", "lock", "refresh"}]
  /\ sentCookie \in [Tabs -> Nat]
  /\ \A t \in Tabs : Refreshing(t) =>
       /\ lock = t /\ sentCookie[t] \notin rotated /\ sentCookie[t] =< issued
       /\ ~(phase[t] = "refresh" /\ bootPhase[t] = "refresh")
  /\ NoCookieReuse

LEMMA CookieStarts == WebInit => CookieInv
BY DEF WebInit, CookieInv, Refreshing, NoCookieReuse

\* A step that sends no refresh and exchanges no cookie.
LEMMA CookieFrame ==
  ASSUME CookieInv,
         UNCHANGED <<sentCookie, rotated, reused>>, lock' \in {lock, Nobody},
         issued' \in Nat, issued =< issued', cookie' = cookie \/ cookie' = issued + 1, cookie' =< issued',
         phase' \in [Tabs -> {"off", "lock", "refresh", "retry"}],
         bootPhase' \in [Tabs -> {"off", "lock", "refresh"}],
         \A t \in Tabs : /\ phase'[t] = "refresh" => phase[t] = "refresh" /\ lock' = lock
                         /\ bootPhase'[t] = "refresh" => bootPhase[t] = "refresh" /\ lock' = lock
  PROVE  CookieInv'
<1>1. cookie' \in Nat /\ cookie' \notin rotated'
  BY DEF CookieInv
<1>2. \A t \in Tabs : Refreshing(t)' => Refreshing(t) /\ lock' = lock
  BY DEF Refreshing
<1> QED BY <1>1, <1>2 DEF CookieInv, NoCookieReuse

\* The lock holder sends its refresh.
LEMMA CookieSent ==
  ASSUME CookieInv, NEW t \in Tabs, sendsRefresh(t), UNCHANGED <<cookie, issued, rotated, reused>>,
         \/ phase' = [phase EXCEPT ![t] = "refresh"] /\ bootPhase' = bootPhase
         \/ bootPhase' = [bootPhase EXCEPT ![t] = "refresh"] /\ phase' = phase
  PROVE  CookieInv'
<1>1. /\ lock = Nobody /\ lock' = t /\ sentCookie' = [sentCookie EXCEPT ![t] = cookie]
  BY DEF sendsRefresh, lockFree
<1>2. \A u \in Tabs : ~Refreshing(u)
  BY <1>1, WebAssumption DEF CookieInv
<1>3. \A u \in Tabs : Refreshing(u)' => u = t
  BY <1>2 DEF Refreshing, CookieInv
<1>4. ~(phase'[t] = "refresh" /\ bootPhase'[t] = "refresh")
  BY <1>2 DEF Refreshing, CookieInv
<1>5. sentCookie' \in [Tabs -> Nat] /\ sentCookie'[t] = cookie
  BY <1>1 DEF CookieInv
<1> QED BY <1>1, <1>3, <1>4, <1>5 DEF CookieInv, NoCookieReuse

\* The api exchanges the cookie of the refresh under way, which ends.
LEMMA CookieRotated ==
  ASSUME CookieInv, NEW t \in Tabs, rotate(sentCookie[t]), Refreshing(t), sentCookie' = sentCookie,
         \/ phase' = [phase EXCEPT ![t] = "retry"] /\ phase[t] = "refresh" /\ bootPhase' = bootPhase
         \/ bootPhase' = [bootPhase EXCEPT ![t] = "off"] /\ bootPhase[t] = "refresh" /\ phase' = phase
  PROVE  CookieInv'
<1>1. /\ issued' = issued + 1 /\ cookie' = issued + 1 /\ rotated' = rotated \cup {sentCookie[t]}
      /\ sentCookie[t] \notin rotated /\ sentCookie[t] \in Nat /\ sentCookie[t] =< issued
      /\ reused' = reused
  BY DEF rotate, CookieInv
<1>2. \A u \in Tabs : Refreshing(u) => u = t
  BY DEF CookieInv
<1>3. \A u \in Tabs : ~Refreshing(u)'
  BY <1>2 DEF Refreshing, CookieInv
<1>4. cookie' \notin rotated' /\ \A c \in rotated' : c \in Nat /\ c =< issued'
  BY <1>1 DEF CookieInv
<1>5. /\ phase' \in [Tabs -> {"off", "lock", "refresh", "retry"}]
      /\ bootPhase' \in [Tabs -> {"off", "lock", "refresh"}]
  BY DEF CookieInv
<1> QED BY <1>1, <1>3, <1>4, <1>5 DEF CookieInv, NoCookieReuse

LEMMA SessionStepsKeep ==
  ASSUME CookieInv, SessionSteps
  PROVE  CookieInv'
<1>1. /\ UNCHANGED <<sentCookie, rotated, reused, lock, phase, bootPhase>>
      /\ \/ issued' = issued /\ cookie' = cookie
         \/ issued' = issued + 1 /\ cookie' = issued + 1
  BY DEF SessionSteps, AccessExpires, SessionRevoked, useLogin, useLogout, interceptor, bootstrap, cookies
<1> QED BY <1>1, CookieFrame DEF CookieInv

LEMMA BootStepsKeep ==
  ASSUME CookieInv, BootSteps
  PROVE  CookieInv'
<1>1. PICK t \in Tabs : bootstrapSession(t) \/ bootstrapSends(t) \/ bootstrapEnds(t) \/ AuthGuard(t)
  BY DEF BootSteps
<1>2. CASE bootstrapSession(t)
  <2>1. /\ UNCHANGED <<sentCookie, rotated, reused, lock, phase, issued, cookie>>
        /\ bootPhase' = bootPhase \/ bootPhase' = [bootPhase EXCEPT ![t] = "lock"]
    BY <1>2 DEF bootstrapSession, interceptor, cookies, api
  <2> QED BY <2>1, CookieFrame DEF CookieInv
<1>3. CASE bootstrapSends(t)
  BY <1>3, CookieSent DEF bootstrapSends, interceptor, cookies, api
<1>4. CASE bootstrapEnds(t)
  <2>1. /\ bootPhase[t] = "refresh" /\ lock' = Nobody /\ bootPhase' = [bootPhase EXCEPT ![t] = "off"]
        /\ UNCHANGED <<phase, sentCookie>>
        /\ rotate(sentCookie[t]) \/ UNCHANGED <<cookie, issued, rotated, reused>>
    BY <1>4 DEF bootstrapEnds, interceptor, api
  <2>2. CASE rotate(sentCookie[t])
    BY <2>1, <2>2, CookieRotated DEF Refreshing
  <2>3. CASE UNCHANGED <<cookie, issued, rotated, reused>>
    <3>1. \A u \in Tabs : phase'[u] # "refresh" /\ bootPhase'[u] # "refresh"
      BY <2>1 DEF CookieInv, Refreshing
    <3>2. bootPhase' \in [Tabs -> {"off", "lock", "refresh"}]
      BY <2>1 DEF CookieInv
    <3> QED BY <2>1, <2>3, <3>1, <3>2, CookieFrame DEF CookieInv
  <2> QED BY <2>1, <2>2, <2>3
<1>5. CASE AuthGuard(t)
  BY <1>5, CookieFrame DEF AuthGuard, interceptor, cookies, api, bootstrap, CookieInv
<1> QED BY <1>1, <1>2, <1>3, <1>4, <1>5

LEMMA RefreshStepsKeep ==
  ASSUME CookieInv, RefreshSteps
  PROVE  CookieInv'
<1>1. PICK t \in Tabs : interceptorSends(t) \/ refreshOk(t) \/ refreshFails(t)
  BY DEF RefreshSteps
<1>2. CASE interceptorSends(t)
  BY <1>2, CookieSent DEF interceptorSends, bootstrap, cookies, api
<1>3. CASE refreshOk(t)
  BY <1>3, CookieRotated DEF refreshOk, bootstrap, Refreshing
<1>4. CASE refreshFails(t)
  <2>1. /\ phase[t] = "refresh" /\ lock' = Nobody /\ phase' = [phase EXCEPT ![t] = "off"]
        /\ UNCHANGED <<bootPhase, sentCookie, cookie, issued, rotated, reused>>
    BY <1>4 DEF refreshFails, hardLogout, api
  <2>2. \A u \in Tabs : phase'[u] # "refresh" /\ bootPhase'[u] # "refresh"
    BY <2>1 DEF CookieInv, Refreshing
  <2>3. phase' \in [Tabs -> {"off", "lock", "refresh", "retry"}]
    BY <2>1 DEF CookieInv
  <2> QED BY <2>1, <2>2, <2>3, CookieFrame DEF CookieInv
<1> QED BY <1>1, <1>2, <1>3, <1>4

LEMMA RequestStepsKeep ==
  ASSUME CookieInv, RequestSteps
  PROVE  CookieInv'
<1>1. PICK r \in Requests :
        \/ \E t \in Tabs : httpClient(r, t)
        \/ handleUnauthorized(r)
        \/ \E o \in Done : Answered(r, o) \/ Retried(r, o)
  BY DEF RequestSteps, RequestEnds
<1>2. /\ UNCHANGED <<sentCookie, rotated, reused, lock, bootPhase, issued, cookie>>
      /\ \/ phase' = phase
         \/ \E t : phase' = [phase EXCEPT ![t] = "lock"]
         \/ \E t : phase' = [phase EXCEPT ![t] = "off"]
  <2>1. CASE \E t \in Tabs : httpClient(r, t)
    BY <2>1 DEF httpClient, interceptor, cookies, api, bootstrap
  <2>2. CASE handleUnauthorized(r)
    BY <2>2 DEF handleUnauthorized, cookies, api, bootstrap
  <2>3. CASE \E o \in Done : Answered(r, o)
    BY <2>3 DEF Answered, interceptor, cookies, api, bootstrap
  <2>4. CASE \E o \in Done : Retried(r, o)
    BY <2>4 DEF Retried, hardLogout, api
  <2> QED BY <1>1, <2>1, <2>2, <2>3, <2>4
<1>3. /\ phase' \in [Tabs -> {"off", "lock", "refresh", "retry"}]
      /\ \A u \in Tabs : phase'[u] = "refresh" => phase[u] = "refresh"
  BY <1>2 DEF CookieInv
<1> QED BY <1>2, <1>3, CookieFrame DEF CookieInv

\* Under the cross-tab lock no refresh cookie is ever presented twice, whatever
\* tabs bootstrap, refresh, sign in and sign out (http.ts, bootstrapSession.ts,
\* crossTabLock.ts), for any number of tabs and calls: the safety part of
\* WebSessionSound.
THEOREM CookieSpentOnce == WebSpec => []NoCookieReuse
<1>1. CookieInv /\ [WebNext]_webVars => CookieInv'
  <2> SUFFICES ASSUME CookieInv, [WebNext]_webVars PROVE CookieInv'
    OBVIOUS
  <2>1. CASE WebNext
    BY <2>1, SessionStepsKeep, BootStepsKeep, RefreshStepsKeep, RequestStepsKeep DEF WebNext
  <2>2. CASE UNCHANGED webVars
    BY <2>2, CookieFrame DEF webVars, CookieInv
  <2> QED BY <2>1, <2>2
<1>2. CookieInv => NoCookieReuse
  BY DEF CookieInv
<1> QED BY <1>1, <1>2, CookieStarts, PTL DEF WebSpec

-----------------------------------------------------------------------------
(* The public path's limiter. *)

\* A limited request that is let through is counted in its minute, and what is
\* cached was found in this minute or in the one before.
Fresh(limit) == limit =< largest \/ limit =< largestBefore
LimitFresh ==
  planCache # NoPlan =>
    /\ planCache.limit \in PlanRate /\ planCache.at \in Nat /\ planCache.at =< minutes
    /\ planCache.limit # Unlimited =>
         /\ Fresh(planCache.limit)
         /\ planCache.at = minutes => planCache.limit =< largest
RateInv ==
  /\ minutes \in Nat /\ largest \in Nat /\ largestBefore \in Nat
  /\ minuteCounter \in Nat /\ allowedNow \in Nat /\ allowedNow =< minuteCounter
  /\ lookup \in [Lookers -> Nat \cup {NoLookup}] /\ \A r \in Lookers : lookup[r] =< minutes
  /\ LimitFresh /\ PublicRateRespected

LEMMA RateStarts == UsageInit => RateInv
BY DEF UsageInit, RateInv, LimitFresh, PublicRateRespected, NoLookup

\* A limit is a number or none.
LEMMA LimitIs ==
  ASSUME NEW limit \in PlanRate \cup {ProRate}
  PROVE  limit \in Nat \/ limit = Unlimited
BY UsageAssumption

\* checkRequest with a limit that is fresh.
LEMMA CheckKeepsRate ==
  ASSUME RateInv, NEW limit \in PlanRate \cup {ProRate}, checkRequest(limit),
         largest' \in Nat, largest' >= largest,
         limit # Unlimited => limit =< largest' \/ limit =< largestBefore
  PROVE  /\ UNCHANGED <<minutes, largestBefore>>
         /\ minuteCounter' \in Nat /\ allowedNow' \in Nat /\ allowedNow' =< minuteCounter'
         /\ PublicRateRespected'
<1>1. (limit \in Nat \/ limit = Unlimited) /\ minuteCounter \in Nat
  BY LimitIs DEF RateInv
<1>2. /\ UNCHANGED <<minutes, largestBefore>>
      /\ minuteCounter' = IF limit = Unlimited THEN minuteCounter ELSE minuteCounter + 1
      /\ \/ allowedNow' = allowedNow
         \/ allowedNow' = allowedNow + 1 /\ limit # Unlimited /\ minuteCounter + 1 =< limit
  BY <1>1 DEF checkRequest, overPublicLimit, Unlimited
<1>3. /\ minuteCounter' \in Nat /\ minuteCounter' >= minuteCounter
      /\ allowedNow \in Nat /\ allowedNow =< minuteCounter /\ minuteCounter \in Nat
      /\ largest \in Nat /\ largestBefore \in Nat
  BY <1>2 DEF RateInv
<1>4. CASE allowedNow' = allowedNow
  BY <1>2, <1>3, <1>4 DEF RateInv, PublicRateRespected
<1>5. CASE allowedNow' = allowedNow + 1 /\ limit # Unlimited /\ minuteCounter + 1 =< limit
  <2>1. allowedNow' =< limit /\ limit \in Nat /\ minuteCounter' = minuteCounter + 1
    BY <1>1, <1>2, <1>3, <1>5
  <2>2. allowedNow' =< largest' \/ allowedNow' =< largestBefore'
    BY <1>2, <1>3, <1>5, <2>1
  <2> QED BY <1>2, <1>3, <1>5, <2>1, <2>2 DEF PublicRateRespected
<1> QED BY <1>2, <1>4, <1>5

\* A limit that a lookup gave is the largest of its minute or below it.
LEMMA FoundIs ==
  ASSUME RateInv, NEW limit \in PlanRate \cup {ProRate}, Found(limit)
  PROVE  largest' \in Nat /\ largest' >= largest /\ (limit # Unlimited => limit =< largest')
<1>1. largest \in Nat
  BY DEF RateInv
<1>2. limit \in Nat \/ limit = Unlimited
  BY LimitIs
<1> QED BY <1>1, <1>2 DEF Found, Unlimited

LEMMA AnswerKeepsRate ==
  ASSUME RateInv, NEW r \in Lookers, PlanAnswers(r) \/ PlanFails(r)
  PROVE  RateInv'
<1>0. /\ lookup' \in [Lookers -> Nat \cup {NoLookup}]
      /\ \A q \in Lookers : lookup'[q] = IF q = r THEN NoLookup ELSE lookup[q]
      /\ lookup[r] \in Nat /\ lookup[r] =< minutes /\ minutes \in Nat
      /\ largest \in Nat /\ largestBefore \in Nat
  BY DEF RateInv, PlanAnswers, PlanFails
<1>1. CASE PlanAnswers(r)
  <2>1. PICK limit \in PlanRate :
          /\ checkRequest(limit) /\ Found(limit)
          /\ planCache' = IF lookup[r] + 1 >= minutes THEN [limit |-> limit, at |-> lookup[r]]
                          ELSE NoPlan
    BY <1>1 DEF PlanAnswers
  <2>2. largest' \in Nat /\ largest' >= largest /\ (limit # Unlimited => limit =< largest')
    BY <2>1, FoundIs
  <2>3. /\ UNCHANGED <<minutes, largestBefore>>
        /\ minuteCounter' \in Nat /\ allowedNow' \in Nat /\ allowedNow' =< minuteCounter'
        /\ PublicRateRespected'
    BY <2>1, <2>2, CheckKeepsRate
  <2>4. \A q \in Lookers : lookup'[q] =< minutes'
    BY <1>0, <2>3 DEF RateInv, NoLookup
  <2>5. LimitFresh'
    <3>1. planCache' # NoPlan => planCache'.limit = limit /\ planCache'.at = lookup[r]
      BY <2>1
    <3>2. planCache'.limit # Unlimited /\ planCache' # NoPlan => limit =< largest'
      BY <2>2, <3>1
    <3> QED BY <1>0, <2>3, <3>1, <3>2 DEF LimitFresh, Fresh
  <2> QED BY <1>0, <2>2, <2>3, <2>4, <2>5 DEF RateInv
<1>2. CASE PlanFails(r)
  <2>1. checkRequest(ProRate) /\ Found(ProRate) /\ planCache' = planCache
    BY <1>2 DEF PlanFails
  <2>2. largest' \in Nat /\ largest' >= largest /\ (ProRate # Unlimited => ProRate =< largest')
    BY <2>1, FoundIs
  <2>3. /\ UNCHANGED <<minutes, largestBefore>>
        /\ minuteCounter' \in Nat /\ allowedNow' \in Nat /\ allowedNow' =< minuteCounter'
        /\ PublicRateRespected'
    BY <2>1, <2>2, CheckKeepsRate
  <2>4. \A q \in Lookers : lookup'[q] =< minutes'
    BY <1>0, <2>3 DEF RateInv, NoLookup
  <2>5. LimitFresh'
    <3>1. planCache # NoPlan => planCache.limit \in Nat \/ planCache.limit = Unlimited
      BY LimitIs DEF RateInv, LimitFresh
    <3> QED BY <1>0, <2>1, <2>2, <2>3, <3>1 DEF RateInv, LimitFresh, Fresh
  <2> QED BY <1>0, <2>2, <2>3, <2>4, <2>5 DEF RateInv
<1> QED BY <1>1, <1>2

LEMMA CachedKeepsRate ==
  ASSUME RateInv, CheckCached
  PROVE  RateInv'
<1>1. /\ planCache # NoPlan /\ checkRequest(planCache.limit)
      /\ UNCHANGED <<planCache, lookup, largest>>
  BY DEF CheckCached
<1>2. /\ planCache.limit \in PlanRate /\ largest \in Nat
      /\ planCache.limit # Unlimited => Fresh(planCache.limit)
  BY <1>1 DEF RateInv, LimitFresh
<1>3. /\ UNCHANGED <<minutes, largestBefore>>
      /\ minuteCounter' \in Nat /\ allowedNow' \in Nat /\ allowedNow' =< minuteCounter'
      /\ PublicRateRespected'
  BY <1>1, <1>2, CheckKeepsRate DEF Fresh
<1> QED BY <1>1, <1>3 DEF RateInv, LimitFresh, Fresh

\* The next minute keeps what was found in this one.
LEMMA MinuteKeepsRate ==
  ASSUME RateInv, NextMinute
  PROVE  RateInv'
<1>1. /\ minutes' = minutes + 1 /\ minuteCounter' = 0 /\ allowedNow' = 0
      /\ largestBefore' = largest /\ largest' = 0 /\ lookup' = lookup
      /\ planCache' = IF planCache.at = minutes THEN planCache ELSE NoPlan
  BY DEF NextMinute, cachedStill
<1>2. minutes \in Nat /\ largest \in Nat
  BY DEF RateInv
<1>3. LimitFresh'
  <2>1. planCache' # NoPlan => planCache' = planCache /\ planCache # NoPlan /\ planCache.at = minutes
    BY <1>1
  <2> QED BY <1>1, <1>2, <2>1 DEF RateInv, LimitFresh, Fresh
<1>4. \A r \in Lookers : lookup'[r] =< minutes'
  <2> SUFFICES ASSUME NEW r \in Lookers PROVE lookup'[r] =< minutes'
    OBVIOUS
  <2>1. lookup[r] \in Nat \cup {NoLookup} /\ lookup[r] =< minutes
    BY DEF RateInv
  <2> QED BY <1>1, <1>2, <2>1 DEF NoLookup
<1> QED BY <1>1, <1>2, <1>3, <1>4 DEF RateInv, PublicRateRespected

\* A hub process lets through, in one minute, no more limited requests than the
\* largest limit a lookup gave it in that minute or the one before, however long
\* lookups take, whichever fail and whatever flushes and crashes interleave
\* (PublicPathUsageLimiter.checkRequest).
THEOREM RateHolds == UsageSpec => []PublicRateRespected
<1>1. RateInv /\ [UsageNext]_usageVars => RateInv'
  <2> SUFFICES ASSUME RateInv, [UsageNext]_usageVars PROVE RateInv'
    OBVIOUS
  <2>1. CASE CheckCached \/ NextMinute
    BY <2>1, CachedKeepsRate, MinuteKeepsRate
  <2>2. ASSUME NEW r \in Lookers, PlanAnswers(r) \/ PlanFails(r) PROVE RateInv'
    BY <2>2, AnswerKeepsRate
  <2>3. ASSUME NEW r \in Lookers, AskPlan(r) PROVE RateInv'
    <3>1. /\ UNCHANGED <<planCache, minuteCounter, minutes, allowedNow, largest, largestBefore>>
          /\ lookup' = [lookup EXCEPT ![r] = minutes]
      BY <2>3 DEF AskPlan
    <3>2. /\ lookup' \in [Lookers -> Nat \cup {NoLookup}]
          /\ \A q \in Lookers : lookup'[q] =< minutes
      BY <3>1 DEF RateInv
    <3> QED BY <3>1, <3>2 DEF RateInv, LimitFresh, Fresh, PublicRateRespected
  <2>4. CASE PlanExpires \/ HubEnds
    <3>1. /\ planCache' = NoPlan /\ UNCHANGED <<minutes, largest, largestBefore>>
          /\ \/ UNCHANGED <<lookup, minuteCounter, allowedNow>>
             \/ /\ lookup' = [r \in Lookers |-> NoLookup]
                /\ minuteCounter' = 0 /\ allowedNow' = 0
      BY <2>4 DEF PlanExpires, HubEnds
    <3>2. /\ lookup' \in [Lookers -> Nat \cup {NoLookup}]
          /\ \A r \in Lookers : lookup'[r] =< minutes'
      BY <3>1 DEF RateInv, NoLookup
    <3> QED BY <3>1, <3>2 DEF RateInv, LimitFresh, PublicRateRespected
  <2>5. CASE UNCHANGED limiterVars
    BY <2>5 DEF limiterVars, RateInv, LimitFresh, Fresh, PublicRateRespected
  <2>6. ASSUME NEW w \in Flushers, FlushStep(w) \/ DrainThrows(w) \/ WriteFails(w)
        PROVE  UNCHANGED limiterVars
    BY <2>6 DEF FlushStep, DrainThrows, WriteFails, ScanKeys, GetCounter, DelCounters, UpsertKeyed,
                FindRollup, WriteRollup, FlushEnds, HubState
  <2>7. CASE FlushAccumulator \/ ApiEnds \/ \E k \in KeySlots : IncrementUsage(k)
    BY <2>5, <2>7 DEF FlushAccumulator, ApiEnds, IncrementUsage, HubState
  <2>8. CASE UNCHANGED usageVars
    BY <2>5, <2>8 DEF usageVars
  <2> QED BY <2>1, <2>2, <2>3, <2>4, <2>5, <2>6, <2>7, <2>8 DEF UsageNext
<1>2. RateInv => PublicRateRespected
  BY DEF RateInv
<1> QED BY <1>1, <1>2, RateStarts, PTL DEF UsageSpec

-----------------------------------------------------------------------------
(***************************************************************************)
(* The usage that is counted.  First sums: what Sum defines by recursion   *)
(* over a set of arguments, by induction on the set's size.                *)
(***************************************************************************)

\* Induction over the natural numbers, for a set instead of a predicate.
LEMMA NatSetInduction ==
  ASSUME NEW S, 0 \in S, \A n \in Nat : n \in S => n + 1 \in S
  PROVE  Nat \subseteq S
<1> SUFFICES ASSUME NEW k \in Nat, k \notin S PROVE FALSE
  OBVIOUS
<1>1. IsWellFoundedOn(OpToRel(<, Nat), Nat)
  BY NatLessThanWellFounded
<1>2. Nat \ S \subseteq Nat /\ Nat \ S # {}
  OBVIOUS
<1>3. PICK x \in Nat \ S : \A y \in Nat \ S : ~(<<y, x>> \in OpToRel(<, Nat))
  BY <1>1, <1>2, WFMin
<1>4. OpToRel(<, Nat) = {ss \in Nat \X Nat : ss[1] < ss[2]}
  BY Zenon DEF OpToRel
<1>5. x \in Nat /\ x \notin S /\ x # 0
  BY <1>3
<1> DEFINE y == x - 1
<1>6. y \in Nat /\ y + 1 = x /\ y < x
  BY <1>5
<1> HIDE DEF y
<1>7. <<y, x>> \in OpToRel(<, Nat)
  BY <1>4, <1>5, <1>6
<1>8. y \in S
  BY <1>3, <1>6, <1>7
<1> QED BY <1>5, <1>6, <1>8

LEMMA SmallerWithout ==
  ASSUME NEW T, IsFiniteSet(T), NEW x \in T
  PROVE  IsFiniteSet(T \ {x}) /\ Cardinality(T \ {x}) \in Nat /\ Cardinality(T) = Cardinality(T \ {x}) + 1
<1>1. IsFiniteSet(T \ {x}) /\ Cardinality(T \ {x}) = Cardinality(T) - 1
  BY FS_RemoveElement
<1>2. Cardinality(T) \in Nat /\ Cardinality(T \ {x}) \in Nat
  BY <1>1, FS_CardinalityType
<1> QED BY <1>1, <1>2

\* Induction over a finite set: from each of its subsets to one with one more.
Grows(S, G) == {} \in G /\ \A T \in SUBSET S : \A x \in S \ T : T \in G => T \cup {x} \in G

LEMMA FiniteSetGrows ==
  ASSUME NEW S, IsFiniteSet(S), NEW G, Grows(S, G)
  PROVE  SUBSET S \subseteq G
<1> USE DEF Grows
<1> DEFINE Sizes == {n \in Nat : \A T \in SUBSET S : Cardinality(T) < n => T \in G}
<1>0. \A T \in SUBSET S : IsFiniteSet(T) /\ Cardinality(T) \in Nat
  BY FS_Subset, FS_CardinalityType
<1>1. 0 \in Sizes
  BY <1>0
<1>2. ASSUME NEW n \in Nat, n \in Sizes PROVE n + 1 \in Sizes
  <2>1. ASSUME NEW T \in SUBSET S, Cardinality(T) < n + 1 PROVE T \in G
    <3>1. CASE T = {}
      BY <3>1
    <3>2. CASE T # {}
      <4>1. PICK x \in T : TRUE
        BY <3>2
      <4>2. T \ {x} \in SUBSET S /\ x \in S \ (T \ {x}) /\ (T \ {x}) \cup {x} = T
        BY <4>1
      <4>3. Cardinality(T \ {x}) < n
        BY <1>0, <2>1, <4>1, SmallerWithout
      <4>4. T \ {x} \in G
        BY <1>2, <4>2, <4>3
      <4>5. (T \ {x}) \cup {x} \in G
        BY <4>2, <4>4
      <4> QED BY <4>2, <4>5
    <3> QED BY <3>1, <3>2
  <2>2. n + 1 \in Nat
    OBVIOUS
  <2> QED BY <2>1, <2>2
<1> HIDE DEF Sizes
<1>3. Nat \subseteq Sizes
  BY <1>1, <1>2, NatSetInduction
<1>4. ASSUME NEW T \in SUBSET S PROVE T \in G
  <2>1. Cardinality(T) \in Nat
    BY <1>0
  <2>2. Cardinality(T) + 1 \in Sizes /\ Cardinality(T) < Cardinality(T) + 1
    BY <1>3, <2>1
  <2> QED BY <2>2 DEF Sizes
<1> QED BY <1>4

\* The function that a sum of f over S defines over the sets of arguments.
Pick(T) == CHOOSE x \in T : TRUE
Step(f, g, T) == IF T = {} THEN 0 ELSE f[Pick(T)] + g[T \ {Pick(T)}]
Unfolds(f, S, g) == g = [T \in SUBSET S |-> Step(f, g, T)]
Total(f, S) == CHOOSE g : Unfolds(f, S, g)
Sigma(f, S) == Total(f, S)[S]

LEMMA SumIsSigma == ASSUME NEW f PROVE Sum(f) = Sigma(f, DOMAIN f)
BY DEF Sum, Sigma, Total, Unfolds, Step, Pick

LEMMA PickIn == ASSUME NEW T, T # {} PROVE Pick(T) \in T
BY DEF Pick

\* Such a function exists: one that is right for the sets below each size does.
LEMMA TotalExists ==
  ASSUME NEW f, NEW S, IsFiniteSet(S)
  PROVE  Unfolds(f, S, Total(f, S))
<1> DEFINE Right(g, n) == \A T \in SUBSET S : Cardinality(T) < n => g[T] = Step(f, g, T)
           Sizes == {n \in Nat : \E g : Right(g, n)}
<1>0. \A T \in SUBSET S : IsFiniteSet(T) /\ Cardinality(T) \in Nat
  BY FS_Subset, FS_CardinalityType
<1>1. 0 \in Sizes
  BY <1>0
<1>2. ASSUME NEW n \in Nat, n \in Sizes PROVE n + 1 \in Sizes
  <2>1. PICK g : Right(g, n)
    BY <1>2
  <2> DEFINE h == [T \in SUBSET S |-> Step(f, g, T)]
  <2>2. ASSUME NEW T \in SUBSET S, Cardinality(T) < n + 1 PROVE h[T] = Step(f, h, T)
    <3>1. CASE T = {}
      BY <3>1 DEF Step
    <3>2. CASE T # {}
      <4>1. Pick(T) \in T
        BY <3>2, PickIn
      <4>2. T \ {Pick(T)} \in SUBSET S /\ Cardinality(T \ {Pick(T)}) < n
        BY <1>0, <2>2, <4>1, SmallerWithout
      <4>3. g[T \ {Pick(T)}] = h[T \ {Pick(T)}]
        BY <2>1, <4>2
      <4> QED BY <3>2, <4>3 DEF Step
    <3> QED BY <3>1, <3>2
  <2>3. Right(h, n + 1)
    BY <2>2
  <2> HIDE DEF h
  <2> QED BY <2>3
<1> HIDE DEF Sizes
<1>3. Nat \subseteq Sizes
  BY <1>1, <1>2, NatSetInduction
<1>4. Cardinality(S) + 1 \in Nat
  BY FS_CardinalityType
<1>5. PICK g : Right(g, Cardinality(S) + 1)
  BY <1>3, <1>4 DEF Sizes
<1>6. \A T \in SUBSET S : Cardinality(T) < Cardinality(S) + 1
  BY <1>0, <1>4, FS_Subset
<1>7. \A T \in SUBSET S : g[T] = Step(f, g, T)
  BY <1>5, <1>6
<1> DEFINE h == [T \in SUBSET S |-> g[T]]
<1>8. \A T \in SUBSET S : h[T] = Step(f, h, T)
  <2> SUFFICES ASSUME NEW T \in SUBSET S PROVE h[T] = Step(f, h, T)
    OBVIOUS
  <2>1. T # {} => T \ {Pick(T)} \in SUBSET S
    OBVIOUS
  <2> QED BY <1>7, <2>1 DEF Step
<1>9. h = [T \in SUBSET S |-> Step(f, h, T)]
  <2>1. \A T \in SUBSET S : g[T] = Step(f, h, T)
    BY <1>8
  <2> QED BY <2>1
<1>10. Unfolds(f, S, h)
  BY <1>9 DEF Unfolds
<1> HIDE DEF h
<1> QED BY <1>10 DEF Total

\* The totals of the sets of arguments, one argument after the other.
LEMMA TotalUnfolds ==
  ASSUME NEW f, NEW S, IsFiniteSet(S)
  PROVE  /\ Total(f, S)[{}] = 0
         /\ \A T \in SUBSET S : T # {} =>
              /\ Pick(T) \in T
              /\ Total(f, S)[T] = f[Pick(T)] + Total(f, S)[T \ {Pick(T)}]
<1>1. Total(f, S) = [T \in SUBSET S |-> Step(f, Total(f, S), T)]
  <2>1. Unfolds(f, S, Total(f, S))
    BY TotalExists
  <2> QED BY <2>1, Zenon DEF Unfolds
<1> HIDE DEF Total
<1>2. \A T \in SUBSET S : Total(f, S)[T] = Step(f, Total(f, S), T)
  BY <1>1
<1> QED BY <1>2, PickIn DEF Step

\* The totals do not depend on the arguments left out.
LEMMA TotalsAgree ==
  ASSUME NEW f, NEW S, IsFiniteSet(S), NEW e, NEW R \in SUBSET S, \A x \in R : e[x] = f[x]
  PROVE  \A T \in SUBSET R : Total(e, R)[T] = Total(f, S)[T]
<1> DEFINE Right(T) == Total(e, R)[T] = Total(f, S)[T]
           Sizes == {n \in Nat : \A T \in SUBSET R : Cardinality(T) < n => Right(T)}
<1>0. IsFiniteSet(R) /\ \A T \in SUBSET R : IsFiniteSet(T) /\ Cardinality(T) \in Nat
  BY FS_Subset, FS_CardinalityType
<1>1. 0 \in Sizes
  BY <1>0
<1>2. ASSUME NEW n \in Nat, n \in Sizes PROVE n + 1 \in Sizes
  <2>1. ASSUME NEW T \in SUBSET R, Cardinality(T) < n + 1 PROVE Right(T)
    <3>1. CASE T = {}
      <4>1. Total(e, R)[{}] = 0 /\ Total(f, S)[{}] = 0
        BY <1>0, TotalUnfolds
      <4> QED BY <3>1, <4>1
    <3>2. CASE T # {}
      <4> DEFINE x == Pick(T)
      <4>1. x \in T /\ Total(f, S)[T] = f[x] + Total(f, S)[T \ {x}]
        BY <3>2, TotalUnfolds
      <4>2. Total(e, R)[T] = e[x] + Total(e, R)[T \ {x}]
        BY <1>0, <3>2, TotalUnfolds
      <4> HIDE DEF x
      <4>3. T \ {x} \in SUBSET R /\ Cardinality(T \ {x}) < n
        BY <1>0, <2>1, <4>1, SmallerWithout
      <4>4. Right(T \ {x})
        BY <1>2, <4>3
      <4> QED BY <4>1, <4>2, <4>4
    <3> QED BY <3>1, <3>2
  <2> HIDE DEF Right
  <2>2. n + 1 \in Nat
    OBVIOUS
  <2> QED BY <2>1, <2>2
<1> HIDE DEF Sizes
<1>3. Nat \subseteq Sizes
  BY <1>1, <1>2, NatSetInduction
<1>4. ASSUME NEW T \in SUBSET R PROVE Right(T)
  <2>1. Cardinality(T) \in Nat
    BY <1>0
  <2>2. Cardinality(T) + 1 \in Sizes /\ Cardinality(T) < Cardinality(T) + 1
    BY <1>3, <2>1
  <2> QED BY <2>2 DEF Sizes
<1> QED BY <1>4

\* Sums of equal values are equal.
LEMMA SigmaAgrees ==
  ASSUME NEW f, NEW S, IsFiniteSet(S), NEW e, \A x \in S : e[x] = f[x]
  PROVE  Sigma(e, S) = Sigma(f, S)
BY TotalsAgree DEF Sigma

Numbers(f, S) == IsFiniteSet(S) /\ \A x \in S : f[x] \in Nat

\* The totals of numbers are numbers, and any argument can be the first.
LEMMA TotalAnyOrder ==
  ASSUME NEW f, NEW S, Numbers(f, S)
  PROVE  \A T \in SUBSET S :
           /\ Total(f, S)[T] \in Nat
           /\ \A y \in T : Total(f, S)[T] = f[y] + Total(f, S)[T \ {y}]
<1> DEFINE g == Total(f, S)
           Right(T) == g[T] \in Nat /\ \A y \in T : g[T] = f[y] + g[T \ {y}]
           Sizes == {n \in Nat : \A T \in SUBSET S : Cardinality(T) < n => Right(T)}
<1> USE DEF Numbers
<1>0. \A T \in SUBSET S : IsFiniteSet(T) /\ Cardinality(T) \in Nat
  BY FS_Subset, FS_CardinalityType
<1>1. 0 \in Sizes
  BY <1>0
<1>2. ASSUME NEW n \in Nat, n \in Sizes PROVE n + 1 \in Sizes
  <2>1. ASSUME NEW T \in SUBSET S, Cardinality(T) < n + 1 PROVE Right(T)
    <3>1. CASE T = {}
      BY <3>1, TotalUnfolds
    <3>2. CASE T # {}
      <4> DEFINE x == Pick(T)
      <4>1. x \in T /\ g[T] = f[x] + g[T \ {x}]
        BY <3>2, TotalUnfolds
      <4> HIDE DEF x, g
      <4>2. \A y \in T : T \ {y} \in SUBSET S /\ Cardinality(T \ {y}) < n
        BY <1>0, <2>1, SmallerWithout
      <4>3. \A y \in T : Right(T \ {y})
        BY <1>2, <4>2
      <4>4. g[T] \in Nat
        <5>1. f[x] \in Nat /\ g[T \ {x}] \in Nat
          BY <4>1, <4>3
        <5> QED BY <4>1, <5>1
      <4>5. ASSUME NEW y \in T PROVE g[T] = f[y] + g[T \ {y}]
        <5>1. CASE y = x
          BY <4>1, <5>1
        <5>2. CASE y # x
          <6>1. y \in T \ {x} /\ x \in T \ {y} /\ (T \ {x}) \ {y} = (T \ {y}) \ {x}
            BY <4>1, <5>2
          <6> DEFINE rest == g[(T \ {x}) \ {y}]
          <6>2. g[T \ {x}] = f[y] + rest
            BY <4>1, <4>3, <6>1
          <6>3. g[T \ {y}] = f[x] + rest
            BY <4>1, <4>3, <6>1
          <6>4. rest \in Nat /\ f[x] \in Nat /\ f[y] \in Nat
            <7>1. (T \ {x}) \ {y} \in SUBSET S
              OBVIOUS
            <7>2. Cardinality((T \ {x}) \ {y}) < n
              <8>1. IsFiniteSet(T \ {x}) /\ Cardinality((T \ {x}) \ {y}) \in Nat
                BY <1>0, <7>1
              <8>2. Cardinality(T \ {x}) = Cardinality((T \ {x}) \ {y}) + 1
                BY <6>1, <8>1, SmallerWithout
              <8> QED BY <4>1, <4>2, <8>1, <8>2, <1>0
            <7> QED BY <1>2, <4>1, <7>1, <7>2
          <6> HIDE DEF rest
          <6> QED BY <4>1, <6>2, <6>3, <6>4
        <5> QED BY <5>1, <5>2
      <4> QED BY <4>4, <4>5
    <3> QED BY <3>1, <3>2
  <2> HIDE DEF Right, g
  <2>2. n + 1 \in Nat
    OBVIOUS
  <2>3. \A T \in SUBSET S : Cardinality(T) < n + 1 => Right(T)
    BY <2>1, Zenon
  <2> QED BY <2>2, <2>3
<1> HIDE DEF Sizes
<1>3. Nat \subseteq Sizes
  BY <1>1, <1>2, NatSetInduction
<1>4. ASSUME NEW T \in SUBSET S PROVE Right(T)
  <2>1. Cardinality(T) \in Nat
    BY <1>0
  <2>2. Cardinality(T) + 1 \in Sizes /\ Cardinality(T) < Cardinality(T) + 1
    BY <1>3, <2>1
  <2> QED BY <2>2 DEF Sizes
<1> QED BY <1>4

\* A sum of numbers is a number, 0 when there are none, and any argument's value
\* and the sum of the others.
LEMMA SigmaSplits ==
  ASSUME NEW f, NEW S, Numbers(f, S)
  PROVE  /\ Sigma(f, S) \in Nat
         /\ Sigma(f, {}) = 0
         /\ \A x \in S : Sigma(f, S) = f[x] + Sigma(f, S \ {x})
<1>0. \A T \in SUBSET S :
        /\ Total(f, S)[T] \in Nat
        /\ \A y \in T : Total(f, S)[T] = f[y] + Total(f, S)[T \ {y}]
  BY TotalAnyOrder
<1>1. Sigma(f, S) \in Nat
  BY <1>0 DEF Sigma
<1>2. Sigma(f, {}) = 0
  BY FS_EmptySet, TotalUnfolds DEF Sigma, Numbers
<1>3. ASSUME NEW x \in S PROVE Sigma(f, S) = f[x] + Sigma(f, S \ {x})
  <2> DEFINE g == Total(f, S)
  <2> HIDE DEF g
  <2>1. g[S] = f[x] + g[S \ {x}]
    BY <1>0 DEF g
  <2>2. Sigma(f, S \ {x}) = g[S \ {x}]
    BY TotalsAgree DEF Sigma, g, Numbers
  <2>3. Sigma(f, S) = g[S]
    BY DEF Sigma, g
  <2> QED BY <2>1, <2>2, <2>3
<1> QED BY <1>1, <1>2, <1>3

Counts(f) == IsFiniteSet(DOMAIN f) /\ \A x \in DOMAIN f : f[x] \in Nat

\* The same of Sum, for the values of a function.
LEMMA SumSplits ==
  ASSUME NEW f, Counts(f)
  PROVE  /\ Sum(f) \in Nat
         /\ DOMAIN f = {} => Sum(f) = 0
         /\ \A x \in DOMAIN f : Counts(Apart(f, x)) /\ Sum(f) = f[x] + Sum(Apart(f, x))
<1> USE DEF Counts, Numbers
<1>1. Sum(f) \in Nat /\ (DOMAIN f = {} => Sum(f) = 0)
  BY SumIsSigma, SigmaSplits
<1>2. ASSUME NEW x \in DOMAIN f
      PROVE  Counts(Apart(f, x)) /\ Sum(f) = f[x] + Sum(Apart(f, x))
  <2>1. Sum(f) = f[x] + Sigma(f, DOMAIN f \ {x})
    BY SumIsSigma, SigmaSplits
  <2>2. /\ DOMAIN Apart(f, x) = DOMAIN f \ {x}
        /\ \A y \in DOMAIN f \ {x} : Apart(f, x)[y] = f[y]
    BY DEF Apart
  <2>3. IsFiniteSet(DOMAIN f \ {x})
    BY FS_RemoveElement
  <2>4. Sum(Apart(f, x)) = Sigma(f, DOMAIN f \ {x})
    BY <2>2, <2>3, SumIsSigma, SigmaAgrees
  <2>5. Counts(Apart(f, x))
    BY <2>2, <2>3
  <2> QED BY <2>1, <2>4, <2>5
<1> QED BY <1>1, <1>2

\* A sum changes by what one of its arguments changes.
LEMMA SumChanges ==
  ASSUME NEW f, Counts(f), NEW k \in DOMAIN f, NEW v \in Nat
  PROVE  /\ Counts([f EXCEPT ![k] = v])
         /\ Sum([f EXCEPT ![k] = v]) + f[k] = Sum(f) + v
<1> DEFINE e == [f EXCEPT ![k] = v]
<1>0. DOMAIN e = DOMAIN f /\ e[k] = v /\ \A x \in DOMAIN f : x # k => e[x] = f[x]
  OBVIOUS
<1> HIDE DEF e
<1>1. Counts(e)
  BY <1>0 DEF Counts
<1>2. Apart(e, k) = Apart(f, k)
  BY <1>0 DEF Apart
<1>3. Sum(e) = v + Sum(Apart(f, k)) /\ Sum(f) = f[k] + Sum(Apart(f, k))
  BY <1>0, <1>1, <1>2, SumSplits
<1>4. f[k] \in Nat /\ Sum(Apart(f, k)) \in Nat
  <2>1. Counts(Apart(f, k))
    BY SumSplits
  <2> QED BY <2>1, SumSplits DEF Counts
<1>5. Sum(e) + f[k] = Sum(f) + v
  BY <1>3, <1>4
<1> QED BY <1>1, <1>5 DEF e

\* What each argument is split into is no more in sum.
Shares(f, g, h) ==
  /\ Counts(f) /\ Counts(g) /\ Counts(h)
  /\ DOMAIN g = DOMAIN f /\ DOMAIN h \subseteq DOMAIN f
  /\ \A x \in DOMAIN f : g[x] + (IF x \in DOMAIN h THEN h[x] ELSE 0) =< f[x]

LEMMA SumShares ==
  ASSUME NEW f, NEW g, NEW h, Shares(f, g, h)
  PROVE  Sum(g) + Sum(h) =< Sum(f)
<1> DEFINE Right(a, b, c) == Sum(b) + Sum(c) =< Sum(a)
           Sizes == {n \in Nat : \A a, b, c :
                       Shares(a, b, c) /\ Cardinality(DOMAIN a) < n => Right(a, b, c)}
<1>1. 0 \in Sizes
  <2>1. \A a : Counts(a) => Cardinality(DOMAIN a) \in Nat
    BY FS_CardinalityType DEF Counts
  <2> QED BY <2>1 DEF Shares
<1>2. ASSUME NEW n \in Nat, n \in Sizes PROVE n + 1 \in Sizes
  <2>1. ASSUME NEW a, NEW b, NEW c, Shares(a, b, c), Cardinality(DOMAIN a) < n + 1
        PROVE  Right(a, b, c)
    <3>1. CASE DOMAIN a = {}
      <4>1. Counts(a) /\ Counts(b) /\ Counts(c) /\ DOMAIN b = {} /\ DOMAIN c = {}
        BY <2>1, <3>1 DEF Shares
      <4>2. Sum(a) = 0 /\ Sum(b) = 0 /\ Sum(c) = 0
        BY <3>1, <4>1, SumSplits
      <4> QED BY <4>2
    <3>2. CASE DOMAIN a # {}
      <4>0. PICK x \in DOMAIN a : TRUE
        BY <3>2
      <4> DEFINE r == Apart(a, x)
                 s == Apart(b, x)
                 t == IF x \in DOMAIN c THEN Apart(c, x) ELSE c
                 given == IF x \in DOMAIN c THEN c[x] ELSE 0
      <4>1. /\ Counts(a) /\ Counts(b) /\ Counts(c) /\ x \in DOMAIN b
            /\ a[x] \in Nat /\ b[x] \in Nat /\ given \in Nat /\ b[x] + given =< a[x]
        BY <2>1, <4>0 DEF Shares, Counts
      <4>2. Counts(r) /\ Sum(a) = a[x] + Sum(r)
        BY <4>0, <4>1, SumSplits
      <4>3. Counts(s) /\ Sum(b) = b[x] + Sum(s)
        BY <4>0, <4>1, SumSplits
      <4>4. Counts(t) /\ Sum(c) = given + Sum(t)
        <5>1. CASE x \in DOMAIN c
          BY <4>1, <5>1, SumSplits
        <5>2. CASE x \notin DOMAIN c
          <6>1. t = c /\ given = 0 /\ Sum(c) \in Nat
            BY <4>1, <5>2, SumSplits
          <6> QED BY <4>1, <6>1
        <5> QED BY <5>1, <5>2
      <4>5. Shares(r, s, t)
        <5>1. DOMAIN r = DOMAIN a \ {x} /\ DOMAIN s = DOMAIN a \ {x} /\ DOMAIN t = DOMAIN c \ {x}
          BY <2>1 DEF Shares, Apart
        <5>2. /\ \A y \in DOMAIN a \ {x} : r[y] = a[y] /\ s[y] = b[y]
              /\ \A y \in DOMAIN c \ {x} : t[y] = c[y]
          BY <2>1 DEF Shares, Apart
        <5> HIDE DEF r, s, t
        <5> QED BY <2>1, <4>2, <4>3, <4>4, <5>1, <5>2 DEF Shares
      <4>6. Cardinality(DOMAIN r) < n
        <5>1. DOMAIN r = DOMAIN a \ {x}
          BY DEF Apart
        <5>2. IsFiniteSet(DOMAIN a) /\ Cardinality(DOMAIN a) \in Nat
          BY <4>1, FS_CardinalityType DEF Counts
        <5>3. Cardinality(DOMAIN a \ {x}) \in Nat /\ Cardinality(DOMAIN a) = Cardinality(DOMAIN a \ {x}) + 1
          BY <4>0, <5>2, SmallerWithout
        <5> QED BY <2>1, <5>1, <5>2, <5>3
      <4> HIDE DEF r, s, t, given
      <4>7. Right(r, s, t)
        BY <1>2, <4>5, <4>6
      <4>8. Sum(r) \in Nat /\ Sum(s) \in Nat /\ Sum(t) \in Nat
        BY <4>2, <4>3, <4>4, SumSplits
      <4> QED BY <4>1, <4>2, <4>3, <4>4, <4>7, <4>8
    <3> QED BY <3>1, <3>2
  <2> QED BY <2>1
<1> HIDE DEF Sizes
<1>3. Nat \subseteq Sizes
  BY <1>1, <1>2, NatSetInduction
<1>4. Cardinality(DOMAIN f) \in Nat
  BY FS_CardinalityType DEF Shares, Counts
<1>5. Cardinality(DOMAIN f) + 1 \in Sizes /\ Cardinality(DOMAIN f) < Cardinality(DOMAIN f) + 1
  BY <1>3, <1>4
<1> QED BY <1>5 DEF Sizes

-----------------------------------------------------------------------------
(***************************************************************************)
(* The usage that is counted.  What is stored, accumulated, held by the    *)
(* drains and still to be read was served, or was read again.              *)
(***************************************************************************)

\* Smaller values have a smaller sum.
LEMMA SumAtMost ==
  ASSUME NEW f, NEW g, Counts(f), Counts(g), DOMAIN g = DOMAIN f, \A x \in DOMAIN f : g[x] =< f[x]
  PROVE  Sum(g) =< Sum(f)
<1>1. Counts(<<>>) /\ DOMAIN <<>> = {}
  BY FS_EmptySet DEF Counts
<1>2. Shares(f, g, <<>>)
  BY <1>1 DEF Shares, Counts
<1>3. Sum(<<>>) = 0 /\ Sum(g) \in Nat
  BY <1>1, SumSplits
<1>4. Sum(g) + Sum(<<>>) =< Sum(f)
  BY <1>2, SumShares
<1>5. Sum(g) + 0 = Sum(g)
  BY <1>3
<1> QED BY <1>3, <1>4, <1>5, Zenon

LEMMA ZerosSum ==
  ASSUME NEW f, Counts(f), \A x \in DOMAIN f : f[x] = 0
  PROVE  Sum(f) = 0
<1>1. Shares(f, f, f)
  BY DEF Shares, Counts
<1> QED BY <1>1, SumShares, SumSplits

\* A value that is put under an argument adds itself at most.
LEMMA SumWith ==
  ASSUME NEW f, Counts(f), NEW x, NEW n \in Nat
  PROVE  Counts(With(f, x, n)) /\ Sum(With(f, x, n)) =< Sum(f) + n
<1> DEFINE e == With(f, x, n)
<1>1. /\ DOMAIN e = DOMAIN f \cup {x} /\ e[x] = n
      /\ \A y \in DOMAIN f : y # x => e[y] = f[y]
  BY DEF With
<1>2. IsFiniteSet(DOMAIN f \cup {x})
  BY FS_AddElement DEF Counts
<1> HIDE DEF e
<1>3. Counts(e)
  BY <1>1, <1>2 DEF Counts
<1>4. Counts(Apart(e, x)) /\ Sum(e) = n + Sum(Apart(e, x)) /\ Sum(f) \in Nat
  BY <1>1, <1>3, SumSplits
<1>5. Sum(Apart(e, x)) =< Sum(f) /\ Sum(Apart(e, x)) \in Nat
  <2>1. CASE x \in DOMAIN f
    <3>1. Apart(e, x) = Apart(f, x)
      BY <1>1, <2>1 DEF Apart
    <3>2. Counts(Apart(f, x)) /\ Sum(f) = f[x] + Sum(Apart(f, x)) /\ f[x] \in Nat
      BY <2>1, SumSplits DEF Counts
    <3>3. Sum(Apart(f, x)) \in Nat
      BY <3>2, SumSplits
    <3> QED BY <1>4, <3>1, <3>2, <3>3
  <2>2. CASE x \notin DOMAIN f
    <3>1. DOMAIN Apart(e, x) = DOMAIN f /\ \A y \in DOMAIN f : Apart(e, x)[y] = f[y]
      BY <1>1, <2>2 DEF Apart
    <3>2. Sum(Apart(e, x)) = Sum(f)
      BY <1>4, <3>1, SumIsSigma, SigmaAgrees DEF Counts
    <3> QED BY <1>4, <3>2
  <2> QED BY <2>1, <2>2
<1> QED BY <1>3, <1>4, <1>5 DEF e

Keyed == [k \in KeySlots |-> usageRow[k]]
Rows == usageRow[Rollup]
Held(w) == IF flusher[w].pc \in {"get", "write", "rollup"} THEN Sum(flusher[w].left) ELSE 0
Hands == [w \in Flushers |-> Held(w)]
\* Ticks that found no rollup row and are about to create one.
Creators == {w \in Flushers : flusher[w].pc = "rollup" /\ flusher[w].existing = 0}

CountShape ==
  /\ accumulator \in Nat /\ servedTotal \in Nat /\ rereads \in Nat
  /\ redisCount \in [Slots -> Nat] /\ unread \in [Slots -> Nat]
  /\ \A s \in Slots : unread[s] =< redisCount[s]
  /\ usageRow = [k \in KeySlots \cup {Rollup} |-> usageRow[k]]
  /\ Counts(Keyed) /\ Counts(Rows) /\ DOMAIN Rows \subseteq Nat \ {0}
  /\ flusher = [w \in Flushers |-> flusher[w]]

FlusherOk(w) ==
  /\ flusher[w].pc = "get" => DOMAIN flusher[w].todo \subseteq Slots
  /\ flusher[w].pc \in {"get", "write", "rollup"} => Counts(flusher[w].left)
  /\ flusher[w].pc = "rollup" =>
       /\ flusher[w].counter \in DOMAIN flusher[w].left
       /\ flusher[w].existing # 0 => flusher[w].existing \in DOMAIN Rows

NothingTwice == Recorded + Sum(Hands) + Sum(unread) + accumulator =< servedTotal + rereads
RowsAndCreators ==
  DOMAIN Rows # {} =>
    Cardinality(DOMAIN Rows) + Cardinality(Creators) =< Cardinality(Flushers)

CountInv ==
  /\ CountShape /\ \A w \in Flushers : FlusherOk(w)
  /\ NothingTwice /\ RowsAndCreators

LEMMA SlotsFinite == IsFiniteSet(Slots) /\ IsFiniteSet(KeySlots)
BY UsageAssumption, FS_AddElement DEF Slots

LEMMA CountsAre ==
  ASSUME CountShape
  PROVE  /\ Counts(unread) /\ DOMAIN unread = Slots
         /\ Sum(Keyed) \in Nat /\ Sum(Rows) \in Nat /\ Sum(unread) \in Nat
         /\ Recorded = Sum(Keyed) + Sum(Rows) /\ Recorded \in Nat
<1>1. Counts(unread) /\ DOMAIN unread = Slots
  BY SlotsFinite DEF CountShape, Counts
<1>2. Sum(Keyed) \in Nat /\ Sum(Rows) \in Nat /\ Sum(unread) \in Nat
  BY <1>1, SumSplits DEF CountShape
<1>3. Recorded = Sum(Keyed) + Sum(Rows)
  BY DEF Recorded, Keyed, Rows
<1> QED BY <1>1, <1>2, <1>3

LEMMA HeldIs ==
  ASSUME NEW w \in Flushers, FlusherOk(w)
  PROVE  Held(w) \in Nat
BY SumSplits DEF Held, FlusherOk

LEMMA HandsAre ==
  ASSUME \A w \in Flushers : FlusherOk(w)
  PROVE  Counts(Hands) /\ DOMAIN Hands = Flushers /\ Sum(Hands) \in Nat
<1>1. Counts(Hands) /\ DOMAIN Hands = Flushers
  BY HeldIs, UsageAssumption DEF Hands, Counts
<1> QED BY <1>1, SumSplits

LEMMA CountStarts == UsageInit => CountInv
<1> SUFFICES ASSUME UsageInit PROVE CountInv
  OBVIOUS
<1>1. /\ accumulator = 0 /\ servedTotal = 0 /\ rereads = 0
      /\ redisCount = [s \in Slots |-> 0] /\ unread = redisCount
      /\ flusher = [w \in Flushers |-> IdleFlush]
      /\ usageRow = [k \in KeySlots \cup {Rollup} |-> IF k = Rollup THEN <<>> ELSE 0]
  BY DEF UsageInit
<1>2. Keyed = [k \in KeySlots |-> 0]
  BY <1>1, UsageAssumption DEF Keyed
<1>3. DOMAIN Rows = {}
  BY <1>1 DEF Rows
<1>4. Counts(Keyed) /\ Counts(Rows)
  BY <1>2, <1>3, SlotsFinite, FS_EmptySet DEF Counts
<1>5. CountShape
  BY <1>1, <1>3, <1>4 DEF CountShape
<1>6. \A w \in Flushers : flusher[w].pc = "idle"
  BY <1>1 DEF IdleFlush
<1>7. \A w \in Flushers : FlusherOk(w) /\ Held(w) = 0
  BY <1>6 DEF FlusherOk, Held
<1>8. Sum(Rows) = 0
  BY <1>3, <1>4, SumSplits
<1>9. Sum(Keyed) = 0 /\ Sum(unread) = 0 /\ Sum(Hands) = 0
  BY <1>1, <1>2, <1>4, <1>5, <1>7, ZerosSum, CountsAre, HandsAre DEF Hands
<1>10. Recorded + Sum(Hands) + Sum(unread) + accumulator = 0
  BY <1>1, <1>5, <1>8, <1>9, CountsAre
<1> QED BY <1>1, <1>3, <1>5, <1>7, <1>10 DEF CountInv, NothingTwice, RowsAndCreators

\* A step that leaves the drains and the rows alone.
LEMMA HubKeepsCounts ==
  ASSUME CountInv, UNCHANGED <<flusher, usageRow, rereads>>, CountShape',
         Sum(unread)' + accumulator' + servedTotal =< Sum(unread) + accumulator + servedTotal'
  PROVE  CountInv'
<1>1. /\ Recorded \in Nat /\ Sum(unread) \in Nat /\ accumulator \in Nat /\ servedTotal \in Nat
      /\ rereads \in Nat /\ Sum(Hands) \in Nat
  BY CountsAre, HandsAre DEF CountInv, CountShape
<1>2. (CountShape => Sum(unread) \in Nat /\ accumulator \in Nat /\ servedTotal \in Nat)'
  BY CountsAre, PTL DEF CountShape
<1>3. Recorded' = Recorded /\ Rows' = Rows /\ Creators' = Creators /\ Hands' = Hands
  BY DEF Recorded, Rows, Creators, Hands, Held
<1>4. \A w \in Flushers : FlusherOk(w)'
  BY <1>3 DEF CountInv, FlusherOk
<1>5. Sum(Hands)' = Sum(Hands)
  BY <1>3
<1>6. NothingTwice'
  BY <1>1, <1>2, <1>3, <1>5 DEF CountInv, NothingTwice
<1>7. RowsAndCreators'
  BY <1>3 DEF CountInv, RowsAndCreators
<1> QED BY <1>4, <1>6, <1>7 DEF CountInv

\* A counter grows by what was accumulated or served.
LEMMA CountersGrow ==
  ASSUME CountInv, UNCHANGED <<flusher, usageRow, rereads>>, NEW s \in Slots, NEW n \in Nat,
         Increment(s, n), accumulator' \in Nat, servedTotal' \in Nat,
         accumulator' + n + servedTotal =< accumulator + servedTotal'
  PROVE  CountInv'
<1>1. /\ redisCount' \in [Slots -> Nat] /\ unread' \in [Slots -> Nat]
      /\ \A x \in Slots : unread'[x] =< redisCount'[x]
  BY DEF CountInv, CountShape, Increment
<1>2. CountShape'
  BY <1>1 DEF CountInv, CountShape, Keyed, Rows
<1> DEFINE v == unread[s] + n
<1>3. Counts(unread) /\ s \in DOMAIN unread /\ unread[s] \in Nat /\ Sum(unread) \in Nat
  BY CountsAre DEF CountInv, CountShape
<1>4. v \in Nat /\ unread' = [unread EXCEPT ![s] = v]
  BY <1>3 DEF Increment
<1> HIDE DEF v
<1>5. /\ Counts([unread EXCEPT ![s] = v])
      /\ Sum([unread EXCEPT ![s] = v]) + unread[s] = Sum(unread) + v
  BY <1>3, <1>4, SumChanges
<1>6. Counts(unread') /\ Sum(unread') + unread[s] = Sum(unread) + v
  BY <1>4, <1>5, Zenon
<1>7. Sum(unread') \in Nat
  BY <1>6, SumSplits
<1>8. Sum(unread)' = Sum(unread) + n
  BY <1>3, <1>6, <1>7 DEF v
<1>9. Sum(unread)' + accumulator' + servedTotal =< Sum(unread) + accumulator + servedTotal'
  BY <1>3, <1>8 DEF CountInv, CountShape
<1> QED BY <1>2, <1>9, HubKeepsCounts

\* What one tick holds changes, and nothing that the others hold.
LEMMA HandsChange ==
  ASSUME CountInv, NEW w \in Flushers, FlusherOk(w)', DOMAIN Rows \subseteq DOMAIN Rows',
         \A v \in Flushers \ {w} : flusher'[v] = flusher[v]
  PROVE  /\ \A v \in Flushers : FlusherOk(v)'
         /\ Held(w) \in Nat /\ Held(w)' \in Nat /\ Sum(Hands) \in Nat /\ Sum(Hands)' \in Nat
         /\ Sum(Hands)' + Held(w) = Sum(Hands) + Held(w)'
<1>1. \A v \in Flushers : FlusherOk(v)'
  <2> SUFFICES ASSUME NEW v \in Flushers \ {w} PROVE FlusherOk(v)'
    OBVIOUS
  <2> QED BY DEF CountInv, FlusherOk
<1>2. Held(w) \in Nat
  BY HeldIs DEF CountInv
<1>3. Held(w)' \in Nat
  <2>1. (FlusherOk(w) => Held(w) \in Nat)'
    BY HeldIs, PTL
  <2> QED BY <2>1
<1>4. Counts(Hands) /\ DOMAIN Hands = Flushers /\ Sum(Hands) \in Nat
  BY HandsAre DEF CountInv
<1>5. Hands' = [Hands EXCEPT ![w] = Held(w)']
  <2>1. \A v \in Flushers : Held(v)' = IF v = w THEN Held(w)' ELSE Held(v)
    BY DEF Held
  <2> QED BY <2>1 DEF Hands
<1>6. Hands[w] = Held(w)
  BY DEF Hands
<1> DEFINE h == Held(w)'
<1>7. h \in Nat /\ Hands' = [Hands EXCEPT ![w] = h]
  BY <1>3, <1>5
<1> HIDE DEF h
<1>8. Counts([Hands EXCEPT ![w] = h]) /\ Sum([Hands EXCEPT ![w] = h]) + Hands[w] = Sum(Hands) + h
  BY <1>4, <1>7, SumChanges
<1>9. Counts(Hands') /\ Sum(Hands') + Hands[w] = Sum(Hands) + h
  BY <1>7, <1>8, Zenon
<1>10. Sum(Hands') \in Nat
  BY <1>9, SumSplits
<1> QED BY <1>1, <1>2, <1>3, <1>4, <1>6, <1>9, <1>10 DEF h

\* A step of one tick, which adds to what is stored, held and unread no more than
\* it reads again.
LEMMA DrainKeepsCounts ==
  ASSUME CountInv, NEW w \in Flushers,
         UNCHANGED <<accumulator, servedTotal>>,
         CountShape', FlusherOk(w)', DOMAIN Rows \subseteq DOMAIN Rows', RowsAndCreators',
         \A v \in Flushers \ {w} : flusher'[v] = flusher[v],
         Recorded' + Held(w)' + Sum(unread)' + rereads =< Recorded + Held(w) + Sum(unread) + rereads'
  PROVE  CountInv'
<1>1. /\ Recorded \in Nat /\ Sum(unread) \in Nat /\ accumulator \in Nat /\ servedTotal \in Nat
      /\ rereads \in Nat
  BY CountsAre DEF CountInv, CountShape
<1>2. (CountShape => Recorded \in Nat /\ Sum(unread) \in Nat /\ rereads \in Nat)'
  BY CountsAre, PTL DEF CountShape
<1>3. /\ \A v \in Flushers : FlusherOk(v)'
      /\ Held(w) \in Nat /\ Held(w)' \in Nat /\ Sum(Hands) \in Nat /\ Sum(Hands)' \in Nat
      /\ Sum(Hands)' + Held(w) = Sum(Hands) + Held(w)'
  BY HandsChange
<1>4. NothingTwice'
  BY <1>1, <1>2, <1>3 DEF CountInv, NothingTwice
<1> QED BY <1>3, <1>4 DEF CountInv

\* A step that leaves the rows alone, and after which the tick is about to create
\* one only if there is none.
LEMMA RowsKept ==
  ASSUME CountInv, NEW w \in Flushers, Rows' = Rows,
         \A v \in Flushers \ {w} : flusher'[v] = flusher[v],
         flusher'[w].pc = "rollup" /\ flusher'[w].existing = 0 => DOMAIN Rows = {}
  PROVE  RowsAndCreators'
<1> SUFFICES ASSUME DOMAIN Rows' # {}
             PROVE  Cardinality(DOMAIN Rows') + Cardinality(Creators') =< Cardinality(Flushers)
  BY DEF RowsAndCreators
<1>1. Creators' \subseteq Creators /\ Creators \subseteq Flushers
  BY DEF Creators
<1>2. /\ IsFiniteSet(Creators) /\ IsFiniteSet(Creators')
      /\ Cardinality(Creators') =< Cardinality(Creators)
      /\ Cardinality(Creators) \in Nat /\ Cardinality(Creators') \in Nat /\ Cardinality(Flushers) \in Nat
  <2>1. IsFiniteSet(Creators)
    BY <1>1, UsageAssumption, FS_Subset
  <2>2. IsFiniteSet(Creators') /\ Cardinality(Creators') =< Cardinality(Creators)
    BY <1>1, <2>1, FS_Subset
  <2> QED BY <2>1, <2>2, UsageAssumption, FS_CardinalityType
<1>3. Cardinality(DOMAIN Rows) \in Nat
  BY FS_CardinalityType DEF CountInv, CountShape, Counts
<1>4. Cardinality(DOMAIN Rows) + Cardinality(Creators) =< Cardinality(Flushers)
  BY DEF CountInv, RowsAndCreators
<1> QED BY <1>2, <1>3, <1>4

LEMMA FlushIs ==
  ASSUME CountInv, NEW w \in Flushers, NEW rec, Flush(w, rec)
  PROVE  /\ flusher'[w] = rec /\ \A v \in Flushers \ {w} : flusher'[v] = flusher[v]
         /\ flusher' = [v \in Flushers |-> flusher'[v]]
BY DEF CountInv, CountShape, Flush

\* The rows and counters are as they were.
LEMMA ShapeKept ==
  ASSUME CountInv, UNCHANGED <<accumulator, servedTotal, rereads, redisCount, unread, usageRow>>,
         flusher' = [v \in Flushers |-> flusher'[v]]
  PROVE  CountShape' /\ Rows' = Rows /\ Recorded' = Recorded /\ Sum(unread)' = Sum(unread)
BY DEF CountInv, CountShape, Keyed, Rows, Recorded

\* SCAN, findFirst and the end of a tick: nothing is stored or taken.
LEMMA ReadsKeepCounts ==
  ASSUME CountInv, NEW w \in Flushers, ScanKeys(w) \/ FindRollup(w) \/ FlushEnds(w)
  PROVE  CountInv'
<1>0. UNCHANGED <<accumulator, servedTotal, rereads, redisCount, unread, usageRow>>
  BY DEF ScanKeys, FindRollup, FlushEnds, HubState, storeState
<1>1. Recorded \in Nat /\ Sum(unread) \in Nat /\ Held(w) \in Nat /\ rereads \in Nat
  BY CountsAre, HeldIs DEF CountInv, CountShape
<1>2. CASE ScanKeys(w)
  <2>1. PICK todo \in [{s \in Slots : redisCount[s] > 0} -> 1..MaxListed] :
          Flush(w, [pc |-> "get", todo |-> todo, left |-> <<>>])
    BY <1>2 DEF ScanKeys
  <2>2. /\ flusher'[w].pc = "get" /\ flusher'[w].todo = todo /\ flusher'[w].left = <<>>
        /\ \A v \in Flushers \ {w} : flusher'[v] = flusher[v]
        /\ flusher' = [v \in Flushers |-> flusher'[v]]
    BY <2>1, FlushIs
  <2>3. /\ CountShape' /\ Rows' = Rows /\ Recorded' = Recorded /\ Sum(unread)' = Sum(unread)
    BY <1>0, <2>2, ShapeKept
  <2>4. Counts(<<>>) /\ Sum(<<>>) = 0
    <3>1. Counts(<<>>) /\ DOMAIN <<>> = {}
      BY FS_EmptySet DEF Counts
    <3> QED BY <3>1, SumSplits
  <2>5. FlusherOk(w)' /\ Held(w)' = 0
    BY <2>2, <2>4 DEF FlusherOk, Held
  <2>6. RowsAndCreators'
    BY <2>2, <2>3, RowsKept
  <2>7. Recorded' + Held(w)' + Sum(unread)' + rereads =< Recorded + Held(w) + Sum(unread) + rereads'
    BY <1>0, <1>1, <2>3, <2>5
  <2> QED BY <1>0, <2>2, <2>3, <2>5, <2>6, <2>7, DrainKeepsCounts
<1>3. CASE FindRollup(w)
  <2>1. PICK c \in DOMAIN flusher[w].left, row \in IF DOMAIN Rows = {} THEN {0} ELSE DOMAIN Rows :
          Flush(w, [pc |-> "rollup", left |-> flusher[w].left, counter |-> c, existing |-> row])
    BY <1>3 DEF FindRollup, Rows
  <2>2. /\ flusher'[w].pc = "rollup" /\ flusher'[w].left = flusher[w].left
        /\ flusher'[w].counter = c /\ flusher'[w].existing = row
        /\ \A v \in Flushers \ {w} : flusher'[v] = flusher[v]
        /\ flusher' = [v \in Flushers |-> flusher'[v]]
    BY <2>1, FlushIs
  <2>3. /\ CountShape' /\ Rows' = Rows /\ Recorded' = Recorded /\ Sum(unread)' = Sum(unread)
    BY <1>0, <2>2, ShapeKept
  <2>4. flusher[w].pc = "write" /\ Counts(flusher[w].left)
    BY <1>3 DEF FindRollup, CountInv, FlusherOk
  <2>5. FlusherOk(w)' /\ Held(w)' = Held(w)
    BY <2>1, <2>2, <2>3, <2>4 DEF FlusherOk, Held
  <2>6. row = 0 => DOMAIN Rows = {}
    BY DEF CountInv, CountShape
  <2>7. RowsAndCreators'
    BY <2>2, <2>3, <2>6, RowsKept
  <2>8. Recorded' + Held(w)' + Sum(unread)' + rereads =< Recorded + Held(w) + Sum(unread) + rereads'
    BY <1>0, <1>1, <2>3, <2>5
  <2> QED BY <1>0, <2>2, <2>3, <2>5, <2>7, <2>8, DrainKeepsCounts
<1>4. CASE FlushEnds(w)
  <2>1. /\ flusher'[w].pc = "idle" /\ \A v \in Flushers \ {w} : flusher'[v] = flusher[v]
        /\ flusher' = [v \in Flushers |-> flusher'[v]]
    BY <1>4, FlushIs DEF FlushEnds, IdleFlush
  <2>2. /\ CountShape' /\ Rows' = Rows /\ Recorded' = Recorded /\ Sum(unread)' = Sum(unread)
    BY <1>0, <2>1, ShapeKept
  <2>3. FlusherOk(w)' /\ Held(w)' = 0
    BY <2>1 DEF FlusherOk, Held
  <2>4. RowsAndCreators'
    BY <2>1, <2>2, RowsKept
  <2>5. Recorded' + Held(w)' + Sum(unread)' + rereads =< Recorded + Held(w) + Sum(unread) + rereads'
    BY <1>0, <1>1, <2>2, <2>3
  <2> QED BY <1>0, <2>1, <2>2, <2>3, <2>4, <2>5, DrainKeepsCounts
<1> QED BY <1>2, <1>3, <1>4

\* GET: what had been read before is read again.
LEMMA GetKeepsCounts ==
  ASSUME CountInv, NEW w \in Flushers, GetCounter(w)
  PROVE  CountInv'
<1>0. flusher[w].pc = "get" /\ UNCHANGED <<accumulator, servedTotal, redisCount, usageRow>>
  BY DEF GetCounter, HubState
<1>1. PICK s \in DOMAIN flusher[w].todo :
        /\ Flush(w, [pc |-> "get", todo |-> [flusher[w].todo EXCEPT ![s] = flusher[w].todo[s] - 1],
                     left |-> IF redisCount[s] > 0
                              THEN With(flusher[w].left, <<s, flusher[w].todo[s]>>, redisCount[s])
                              ELSE flusher[w].left])
        /\ unread' = [unread EXCEPT ![s] = 0]
        /\ rereads' = rereads + (redisCount[s] - unread[s])
  BY DEF GetCounter
<1> DEFINE left == flusher[w].left
           taken == IF redisCount[s] > 0 THEN With(left, <<s, flusher[w].todo[s]>>, redisCount[s])
                    ELSE left
<1>2. /\ flusher'[w].pc = "get" /\ DOMAIN flusher'[w].todo = DOMAIN flusher[w].todo
      /\ flusher'[w].left = taken
      /\ \A v \in Flushers \ {w} : flusher'[v] = flusher[v]
      /\ flusher' = [v \in Flushers |-> flusher'[v]]
  BY <1>1, FlushIs
<1>3. /\ s \in Slots /\ DOMAIN flusher[w].todo \subseteq Slots /\ Counts(left)
      /\ redisCount[s] \in Nat /\ unread[s] \in Nat /\ unread[s] =< redisCount[s]
      /\ rereads \in Nat
  BY <1>0, <1>1 DEF CountInv, CountShape, FlusherOk
<1>4. Counts(taken) /\ Sum(taken) =< Sum(left) + redisCount[s] /\ Sum(taken) \in Nat /\ Sum(left) \in Nat
  <2>0. Sum(left) \in Nat
    BY <1>3, SumSplits
  <2>1. CASE redisCount[s] > 0
    <3>1. /\ Counts(With(left, <<s, flusher[w].todo[s]>>, redisCount[s]))
          /\ Sum(With(left, <<s, flusher[w].todo[s]>>, redisCount[s])) =< Sum(left) + redisCount[s]
      BY <1>3, SumWith
    <3>2. Counts(taken) /\ Sum(taken) =< Sum(left) + redisCount[s]
      BY <2>1, <3>1
    <3> HIDE DEF taken
    <3>3. Sum(taken) \in Nat
      BY <3>2, SumSplits
    <3> QED BY <2>0, <3>2, <3>3
  <2>2. CASE ~(redisCount[s] > 0)
    <3>1. taken = left
      BY <2>2
    <3> HIDE DEF taken
    <3>2. Sum(taken) = Sum(left) /\ Counts(taken)
      BY <1>3, <3>1
    <3> QED BY <1>3, <2>0, <3>2
  <2> QED BY <2>1, <2>2
<1> HIDE DEF taken, left
<1>5. Held(w) = Sum(left) /\ Held(w)' = Sum(taken) /\ FlusherOk(w)'
  BY <1>0, <1>2, <1>3, <1>4 DEF Held, FlusherOk, left
<1>6. /\ unread' \in [Slots -> Nat] /\ rereads' \in Nat
      /\ \A x \in Slots : unread'[x] =< redisCount'[x]
  BY <1>0, <1>1, <1>3 DEF CountInv, CountShape
<1>7. CountShape' /\ Rows' = Rows /\ Recorded' = Recorded
  BY <1>0, <1>2, <1>6 DEF CountInv, CountShape, Keyed, Rows, Recorded
<1>8. Sum(unread') + unread[s] = Sum(unread) /\ Sum(unread') \in Nat /\ Sum(unread) \in Nat
  <2>1. Counts(unread) /\ s \in DOMAIN unread /\ Sum(unread) \in Nat
    BY <1>3, CountsAre DEF CountInv
  <2>2. /\ Counts([unread EXCEPT ![s] = 0])
        /\ Sum([unread EXCEPT ![s] = 0]) + unread[s] = Sum(unread) + 0
    BY <2>1, SumChanges
  <2>3. Counts(unread') /\ Sum(unread') + unread[s] = Sum(unread) + 0
    BY <1>1, <2>2, Zenon
  <2>4. Sum(unread') \in Nat
    BY <2>3, SumSplits
  <2> QED BY <2>1, <2>3, <2>4
<1>9. RowsAndCreators'
  BY <1>2, <1>7, RowsKept
<1>10. Recorded \in Nat
  BY CountsAre DEF CountInv
<1>11. Recorded' + Held(w)' + Sum(unread)' + rereads =< Recorded + Held(w) + Sum(unread) + rereads'
  BY <1>1, <1>3, <1>4, <1>5, <1>7, <1>8, <1>10
<1> QED BY <1>0, <1>2, <1>5, <1>7, <1>9, <1>11, DrainKeepsCounts

\* DEL, and a drain that throws before it or after.
LEMMA DeletedIs ==
  ASSUME CountInv, NEW keys, DeleteCounters(keys)
  PROVE  /\ redisCount' \in [Slots -> Nat] /\ unread' \in [Slots -> Nat]
         /\ \A s \in Slots : unread'[s] =< redisCount'[s]
         /\ Sum(unread') \in Nat /\ Sum(unread') =< Sum(unread)
<1>1. /\ redisCount' \in [Slots -> Nat] /\ unread' \in [Slots -> Nat]
      /\ \A s \in Slots : unread'[s] =< redisCount'[s] /\ unread'[s] =< unread[s]
  BY DEF CountInv, CountShape, DeleteCounters
<1>2. Counts(unread') /\ DOMAIN unread' = Slots
  BY <1>1, SlotsFinite DEF Counts
<1>3. Sum(unread') \in Nat
  BY <1>2, SumSplits
<1>4. Sum(unread') =< Sum(unread)
  BY <1>1, <1>2, CountsAre, SumAtMost DEF CountInv
<1> QED BY <1>1, <1>3, <1>4

LEMMA DelKeepsCounts ==
  ASSUME CountInv, NEW w \in Flushers, DelCounters(w) \/ DrainThrows(w)
  PROVE  CountInv'
<1>0. /\ flusher[w].pc = "get" /\ UNCHANGED <<accumulator, servedTotal, rereads, usageRow>>
      /\ \/ UNCHANGED <<redisCount, unread>>
         \/ DeleteCounters(DOMAIN flusher[w].todo)
  BY DEF DelCounters, DrainThrows, AllRead, HubState
<1>1. /\ Recorded \in Nat /\ Sum(unread) \in Nat /\ Held(w) \in Nat /\ rereads \in Nat
      /\ Counts(flusher[w].left)
  BY <1>0, CountsAre, HeldIs DEF CountInv, CountShape, FlusherOk
<1>2. /\ redisCount' \in [Slots -> Nat] /\ unread' \in [Slots -> Nat]
      /\ \A s \in Slots : unread'[s] =< redisCount'[s]
      /\ Sum(unread') \in Nat /\ Sum(unread') =< Sum(unread)
  <2>1. CASE UNCHANGED <<redisCount, unread>>
    BY <1>1, <2>1 DEF CountInv, CountShape
  <2>2. CASE DeleteCounters(DOMAIN flusher[w].todo)
    BY <2>2, DeletedIs
  <2> QED BY <1>0, <2>1, <2>2
<1>3. /\ \/ flusher'[w] = [pc |-> "write", left |-> flusher[w].left]
         \/ flusher'[w] = IdleFlush
      /\ \A v \in Flushers \ {w} : flusher'[v] = flusher[v]
      /\ flusher' = [v \in Flushers |-> flusher'[v]]
  BY FlushIs DEF DelCounters, DrainThrows
<1>4. /\ FlusherOk(w)' /\ Held(w)' \in {0, Held(w)} /\ flusher'[w].pc # "rollup"
  <2>1. CASE flusher'[w] = [pc |-> "write", left |-> flusher[w].left]
    <3>1. flusher'[w].pc = "write" /\ flusher'[w].left = flusher[w].left
      BY <2>1
    <3> QED BY <1>0, <1>1, <3>1 DEF FlusherOk, Held
  <2>2. CASE flusher'[w] = IdleFlush
    <3>1. flusher'[w].pc = "idle"
      BY <2>2 DEF IdleFlush
    <3> QED BY <3>1 DEF FlusherOk, Held
  <2> QED BY <1>3, <2>1, <2>2
<1>5. CountShape' /\ Rows' = Rows /\ Recorded' = Recorded
  BY <1>0, <1>2, <1>3 DEF CountInv, CountShape, Keyed, Rows, Recorded
<1>6. RowsAndCreators'
  BY <1>3, <1>4, <1>5, RowsKept
<1>7. Recorded' + Held(w)' + Sum(unread)' + rereads =< Recorded + Held(w) + Sum(unread) + rereads'
  BY <1>0, <1>1, <1>2, <1>4, <1>5
<1> QED BY <1>0, <1>3, <1>4, <1>5, <1>6, <1>7, DrainKeepsCounts

\* What is left of a drain without one of its counters.
LEMMA LeftApart ==
  ASSUME CountInv, NEW w \in Flushers, flusher[w].pc \in {"write", "rollup"},
         NEW c \in DOMAIN flusher[w].left, Wrote(w, c)
  PROVE  /\ FlusherOk(w)' /\ flusher' = [v \in Flushers |-> flusher'[v]]
         /\ \A v \in Flushers \ {w} : flusher'[v] = flusher[v]
         /\ flusher'[w].pc = "write"
         /\ flusher[w].left[c] \in Nat /\ Held(w)' \in Nat
         /\ Held(w) = flusher[w].left[c] + Held(w)'
<1>1. Counts(flusher[w].left)
  BY DEF CountInv, FlusherOk
<1>2. /\ flusher'[w].pc = "write" /\ flusher'[w].left = Apart(flusher[w].left, c)
      /\ \A v \in Flushers \ {w} : flusher'[v] = flusher[v]
      /\ flusher' = [v \in Flushers |-> flusher'[v]]
  BY FlushIs DEF Wrote
<1>3. /\ Counts(Apart(flusher[w].left, c))
      /\ Sum(flusher[w].left) = flusher[w].left[c] + Sum(Apart(flusher[w].left, c))
  BY <1>1, SumSplits
<1>4. FlusherOk(w)'
  BY <1>2, <1>3 DEF FlusherOk
<1>5. Held(w) = Sum(flusher[w].left) /\ Held(w)' = Sum(Apart(flusher[w].left, c))
  BY <1>2 DEF Held
<1>6. Sum(Apart(flusher[w].left, c)) \in Nat
  BY <1>3, SumSplits
<1> QED BY <1>1, <1>2, <1>3, <1>4, <1>5, <1>6 DEF Counts

\* upsertQuantity of a key adds what the drain held of it.
LEMMA UpsertKeepsCounts ==
  ASSUME CountInv, NEW w \in Flushers, UpsertKeyed(w)
  PROVE  CountInv'
<1>1. PICK c \in DOMAIN flusher[w].left :
        /\ resolveApiKeyRowId(c[1]) # Rollup
        /\ usageRow' = [usageRow EXCEPT ![c[1]] = @ + flusher[w].left[c]]
        /\ Wrote(w, c)
  BY DEF UpsertKeyed
<1> DEFINE s == c[1]
           n == flusher[w].left[c]
           v == Keyed[s] + n
<1>2. /\ UNCHANGED <<accumulator, servedTotal, rereads, redisCount, unread>>
      /\ flusher[w].pc = "write"
  BY DEF UpsertKeyed, HubState, storeState
<1>3. s \in KeySlots /\ s # Rollup
  BY <1>1, UsageAssumption DEF resolveApiKeyRowId
<1>4. /\ FlusherOk(w)' /\ flusher' = [x \in Flushers |-> flusher'[x]] /\ n \in Nat
      /\ \A x \in Flushers \ {w} : flusher'[x] = flusher[x]
      /\ flusher'[w].pc = "write"
      /\ Held(w) = n + Held(w)' /\ Held(w)' \in Nat
  BY <1>1, <1>2, LeftApart
<1>5. Counts(Keyed) /\ s \in DOMAIN Keyed /\ Keyed[s] \in Nat /\ Keyed[s] = usageRow[s]
  BY <1>3 DEF CountInv, CountShape, Counts, Keyed
<1>6. v \in Nat /\ usageRow' = [usageRow EXCEPT ![s] = v]
  BY <1>1, <1>4, <1>5
<1> HIDE DEF n, s
<1>7. v \in Nat /\ Keyed' = [Keyed EXCEPT ![s] = v] /\ Rows' = Rows
  <2> HIDE DEF v
  <2>1. usageRow = [k \in KeySlots \cup {Rollup} |-> usageRow[k]]
    BY DEF CountInv, CountShape
  <2>2. \A k \in KeySlots : usageRow'[k] = IF k = s THEN v ELSE usageRow[k]
    BY <1>3, <1>6, <2>1
  <2>3. usageRow'[Rollup] = usageRow[Rollup]
    BY <1>3, <1>6, <2>1
  <2> QED BY <1>3, <1>6, <2>2, <2>3 DEF Keyed, Rows
<1>8. Counts(Keyed') /\ Sum(Keyed') + Keyed[s] = Sum(Keyed) + v
  <2> HIDE DEF v
  <2>1. Counts([Keyed EXCEPT ![s] = v]) /\ Sum([Keyed EXCEPT ![s] = v]) + Keyed[s] = Sum(Keyed) + v
    BY <1>5, <1>6, SumChanges
  <2> QED BY <1>7, <2>1, Zenon
<1>9. Sum(Keyed) \in Nat /\ Sum(Keyed') \in Nat
  BY <1>5, <1>8, SumSplits
<1>10. Sum(Keyed') = Sum(Keyed) + n
  BY <1>4, <1>5, <1>8, <1>9
<1>11. CountShape'
  <2>1. usageRow' = [k \in KeySlots \cup {Rollup} |-> usageRow'[k]]
    BY <1>3, <1>6 DEF CountInv, CountShape
  <2> QED BY <1>2, <1>4, <1>7, <1>8, <2>1 DEF CountInv, CountShape
<1>12. /\ Recorded = Sum(Keyed) + Sum(Rows) /\ Sum(Rows) \in Nat /\ Sum(unread) \in Nat
       /\ Recorded' = Sum(Keyed') + Sum(Rows) /\ rereads \in Nat
  <2>1. (CountShape => Recorded = Sum(Keyed) + Sum(Rows))'
    BY CountsAre, PTL
  <2> QED BY <1>7, <1>11, <2>1, CountsAre DEF CountInv, CountShape
<1>13. Sum(unread)' = Sum(unread)
  BY <1>2
<1>14. Recorded' + Held(w)' + Sum(unread)' + rereads =< Recorded + Held(w) + Sum(unread) + rereads'
  BY <1>2, <1>4, <1>9, <1>10, <1>12, <1>13
<1>15. RowsAndCreators'
  BY <1>4, <1>7, RowsKept
<1> QED BY <1>2, <1>4, <1>7, <1>11, <1>14, <1>15, DrainKeepsCounts

\* The rows of the rollup after an update or a create.
LEMMA RollupWritten ==
  ASSUME CountInv, NEW w \in Flushers, NEW n \in Nat, NEW row, NEW rows,
         row # 0 => row \in DOMAIN Rows,
         rows = IF row # 0 THEN [Rows EXCEPT ![row] = @ + n]
                ELSE With(Rows, Cardinality(DOMAIN Rows) + 1, n)
  PROVE  /\ Counts(rows) /\ Sum(rows) \in Nat /\ Sum(rows) =< Sum(Rows) + n
         /\ DOMAIN Rows \subseteq DOMAIN rows /\ DOMAIN rows \subseteq Nat \ {0}
         /\ row # 0 => DOMAIN rows = DOMAIN Rows
         /\ Cardinality(DOMAIN rows) \in Nat
         /\ Cardinality(DOMAIN rows) =< Cardinality(DOMAIN Rows) + 1
<1>1. /\ Counts(Rows) /\ Sum(Rows) \in Nat /\ DOMAIN Rows \subseteq Nat \ {0}
      /\ IsFiniteSet(DOMAIN Rows) /\ Cardinality(DOMAIN Rows) \in Nat
  BY CountsAre, FS_CardinalityType DEF CountInv, CountShape, Counts
<1>2. CASE row # 0
  <2> DEFINE v == Rows[row] + n
  <2>1. row \in DOMAIN Rows /\ Rows[row] \in Nat /\ v \in Nat
    BY <1>1, <1>2 DEF Counts
  <2>2. rows = [Rows EXCEPT ![row] = v]
    BY <1>2
  <2> HIDE DEF v
  <2>3. Counts([Rows EXCEPT ![row] = v]) /\ Sum([Rows EXCEPT ![row] = v]) + Rows[row] = Sum(Rows) + v
    BY <1>1, <2>1, SumChanges
  <2>4. Counts(rows) /\ Sum(rows) + Rows[row] = Sum(Rows) + v /\ DOMAIN rows = DOMAIN Rows
    BY <2>2, <2>3
  <2>5. Sum(rows) \in Nat
    BY <2>4, SumSplits
  <2>6. Sum(rows) = Sum(Rows) + n
    BY <1>1, <2>1, <2>4, <2>5 DEF v
  <2> QED BY <1>1, <2>4, <2>5, <2>6
<1>3. CASE row = 0
  <2> DEFINE x == Cardinality(DOMAIN Rows) + 1
  <2>1. rows = With(Rows, x, n) /\ x \in Nat \ {0}
    BY <1>1, <1>3
  <2> HIDE DEF x
  <2>2. Counts(rows) /\ Sum(rows) =< Sum(Rows) + n
    BY <1>1, <2>1, SumWith
  <2>3. DOMAIN rows = DOMAIN Rows \cup {x}
    BY <2>1 DEF With
  <2>4. Sum(rows) \in Nat
    BY <2>2, SumSplits
  <2>5. Cardinality(DOMAIN rows) \in Nat /\ Cardinality(DOMAIN rows) =< Cardinality(DOMAIN Rows) + 1
    <3>1. Cardinality(DOMAIN Rows \cup {x}) = IF x \in DOMAIN Rows THEN Cardinality(DOMAIN Rows)
                                              ELSE Cardinality(DOMAIN Rows) + 1
      BY <1>1, FS_AddElement
    <3>2. \/ Cardinality(DOMAIN rows) = Cardinality(DOMAIN Rows)
          \/ Cardinality(DOMAIN rows) = Cardinality(DOMAIN Rows) + 1
      BY <2>3, <3>1, Zenon
    <3>3. Cardinality(DOMAIN Rows) \in Nat
      BY <1>1
    <3> QED BY ONLY <3>2, <3>3
  <2>6. DOMAIN Rows \subseteq DOMAIN rows /\ DOMAIN rows \subseteq Nat \ {0}
    BY <1>1, <2>1, <2>3
  <2> HIDE DEF x
  <2> QED BY <1>3, <2>2, <2>4, <2>5, <2>6, Zenon
<1> QED BY <1>2, <1>3

\* The rollup's write: what the drain held is in a row, and a row that is created
\* has one fewer tick to create another.
LEMMA RollupKeepsCounts ==
  ASSUME CountInv, NEW w \in Flushers, WriteRollup(w)
  PROVE  CountInv'
<1> DEFINE c == flusher[w].counter
           n == flusher[w].left[c]
           row == flusher[w].existing
           rows == IF row # 0 THEN [Rows EXCEPT ![row] = @ + n]
                   ELSE With(Rows, Cardinality(DOMAIN Rows) + 1, n)
<1>1. /\ flusher[w].pc = "rollup" /\ Wrote(w, c)
      /\ usageRow' = [usageRow EXCEPT ![Rollup] = rows]
      /\ UNCHANGED <<accumulator, servedTotal, rereads, redisCount, unread>>
  BY DEF WriteRollup, HubState, storeState, Rows
<1>2. c \in DOMAIN flusher[w].left /\ (row # 0 => row \in DOMAIN Rows)
  BY <1>1 DEF CountInv, FlusherOk
<1>3. /\ FlusherOk(w)' /\ flusher' = [x \in Flushers |-> flusher'[x]] /\ n \in Nat
      /\ \A x \in Flushers \ {w} : flusher'[x] = flusher[x]
      /\ flusher'[w].pc = "write"
      /\ Held(w) = n + Held(w)' /\ Held(w)' \in Nat
  BY <1>1, <1>2, LeftApart
<1> HIDE DEF n, row
<1>4. /\ Counts(rows) /\ Sum(rows) \in Nat /\ Sum(rows) =< Sum(Rows) + n
      /\ DOMAIN Rows \subseteq DOMAIN rows /\ DOMAIN rows \subseteq Nat \ {0}
      /\ row # 0 => DOMAIN rows = DOMAIN Rows
      /\ Cardinality(DOMAIN rows) \in Nat
      /\ Cardinality(DOMAIN rows) =< Cardinality(DOMAIN Rows) + 1
  BY <1>2, <1>3, RollupWritten
<1> HIDE DEF rows
<1>5. Keyed' = Keyed /\ Rows' = rows /\ usageRow' = [k \in KeySlots \cup {Rollup} |-> usageRow'[k]]
  <2>1. usageRow = [k \in KeySlots \cup {Rollup} |-> usageRow[k]]
    BY DEF CountInv, CountShape
  <2>2. usageRow'[Rollup] = rows /\ \A k \in KeySlots : usageRow'[k] = usageRow[k]
    BY <1>1, <2>1, UsageAssumption
  <2>3. usageRow' = [k \in KeySlots \cup {Rollup} |-> usageRow'[k]]
    BY <1>1, <2>1
  <2> QED BY <2>2, <2>3 DEF Keyed, Rows
<1>6. CountShape'
  BY <1>1, <1>3, <1>4, <1>5 DEF CountInv, CountShape
<1>7. /\ Recorded = Sum(Keyed) + Sum(Rows) /\ Sum(Keyed) \in Nat /\ Sum(Rows) \in Nat
      /\ Sum(unread) \in Nat /\ Recorded' = Sum(Keyed) + Sum(rows) /\ rereads \in Nat
  <2>1. (CountShape => Recorded = Sum(Keyed) + Sum(Rows))'
    BY CountsAre, PTL
  <2> QED BY <1>5, <1>6, <2>1, CountsAre DEF CountInv, CountShape
<1>8. Sum(unread)' = Sum(unread)
  BY <1>1
<1>9. Recorded' + Held(w)' + Sum(unread)' + rereads =< Recorded + Held(w) + Sum(unread) + rereads'
  BY <1>1, <1>3, <1>4, <1>7, <1>8
<1>10. RowsAndCreators'
  <2>1. Creators' = Creators \ {w} /\ Creators \subseteq Flushers /\ (row = 0 <=> w \in Creators)
    BY <1>1, <1>3 DEF Creators, row
  <2>2. /\ IsFiniteSet(Creators) /\ Cardinality(Creators) \in Nat /\ Cardinality(Flushers) \in Nat
        /\ Cardinality(Creators) =< Cardinality(Flushers)
        /\ Cardinality(DOMAIN Rows) \in Nat
    <3>1. IsFiniteSet(Creators) /\ Cardinality(Creators) =< Cardinality(Flushers)
      BY <2>1, UsageAssumption, FS_Subset
    <3> QED BY <3>1, UsageAssumption, FS_CardinalityType DEF CountInv, CountShape, Counts
  <2>3. CASE row = 0
    <3>1. /\ Cardinality(Creators') \in Nat
          /\ Cardinality(Creators) = Cardinality(Creators') + 1
      BY <2>1, <2>2, <2>3, SmallerWithout
    <3>2. CASE DOMAIN Rows = {}
      <4>1. Cardinality(DOMAIN Rows) = 0
        BY <3>2, FS_EmptySet
      <4> QED BY <1>4, <1>5, <2>2, <3>1, <4>1 DEF RowsAndCreators
    <3>3. CASE DOMAIN Rows # {}
      <4>1. Cardinality(DOMAIN Rows) + Cardinality(Creators) =< Cardinality(Flushers)
        BY <3>3 DEF CountInv, RowsAndCreators
      <4> QED BY <1>4, <1>5, <2>2, <3>1, <4>1 DEF RowsAndCreators
    <3> QED BY <3>2, <3>3
  <2>4. CASE row # 0
    <3>1. Creators' = Creators /\ DOMAIN Rows' = DOMAIN Rows
      BY <1>4, <1>5, <2>1, <2>4
    <3> QED BY <3>1 DEF CountInv, RowsAndCreators
  <2> QED BY <2>3, <2>4
<1> QED BY <1>1, <1>3, <1>4, <1>5, <1>6, <1>9, <1>10, DrainKeepsCounts

\* A write that fails loses what is held of its counter.
LEMMA LossKeepsCounts ==
  ASSUME CountInv, NEW w \in Flushers, WriteFails(w)
  PROVE  CountInv'
<1>0. UNCHANGED <<accumulator, servedTotal, rereads, redisCount, unread, usageRow>>
  BY DEF WriteFails, HubState, storeState
<1>1. PICK c \in DOMAIN flusher[w].left : Wrote(w, c) /\ flusher[w].pc = "write"
  BY DEF WriteFails
<1>2. /\ FlusherOk(w)' /\ flusher' = [v \in Flushers |-> flusher'[v]]
      /\ \A v \in Flushers \ {w} : flusher'[v] = flusher[v]
      /\ flusher'[w].pc = "write"
      /\ flusher[w].left[c] \in Nat /\ Held(w)' \in Nat
      /\ Held(w) = flusher[w].left[c] + Held(w)'
  BY <1>1, LeftApart
<1>3. CountShape' /\ Rows' = Rows /\ Recorded' = Recorded /\ Sum(unread)' = Sum(unread)
  BY <1>0, <1>2, ShapeKept
<1>4. RowsAndCreators'
  BY <1>2, <1>3, RowsKept
<1>5. Recorded \in Nat /\ Sum(unread) \in Nat /\ rereads \in Nat
  BY CountsAre DEF CountInv, CountShape
<1>6. Recorded' + Held(w)' + Sum(unread)' + rereads =< Recorded + Held(w) + Sum(unread) + rereads'
  BY <1>0, <1>2, <1>3, <1>5
<1> QED BY <1>0, <1>2, <1>3, <1>4, <1>6, DrainKeepsCounts

\* The end of the process loses what every tick holds.
LEMMA EndKeepsCounts ==
  ASSUME CountInv, ApiEnds
  PROVE  CountInv'
<1>1. /\ flusher' = [w \in Flushers |-> IdleFlush]
      /\ UNCHANGED <<accumulator, servedTotal, rereads, redisCount, unread, usageRow>>
  BY DEF ApiEnds, HubState, storeState
<1>2. \A w \in Flushers : flusher'[w].pc = "idle"
  BY <1>1 DEF IdleFlush
<1>3. \A w \in Flushers : FlusherOk(w)' /\ Held(w)' = 0
  BY <1>2 DEF FlusherOk, Held
<1>4. CountShape' /\ Rows' = Rows /\ Recorded' = Recorded /\ Sum(unread)' = Sum(unread)
  BY <1>1, ShapeKept
<1>5. Sum(Hands') = 0
  <2>1. Counts(Hands') /\ DOMAIN Hands' = Flushers /\ \A w \in Flushers : Hands'[w] = 0
    BY <1>3, UsageAssumption DEF Hands, Counts
  <2> QED BY <2>1, ZerosSum
<1>6. NothingTwice'
  <2>1. /\ Recorded \in Nat /\ Sum(unread) \in Nat /\ rereads \in Nat /\ Sum(Hands) \in Nat
        /\ accumulator \in Nat /\ servedTotal \in Nat
    BY CountsAre, HandsAre DEF CountInv, CountShape
  <2> QED BY <1>1, <1>4, <1>5, <2>1 DEF CountInv, NothingTwice
<1>7. RowsAndCreators'
  <2>1. Creators' = {} /\ Cardinality({}) = 0
    BY <1>2, FS_EmptySet DEF Creators
  <2>2. /\ Cardinality(DOMAIN Rows) \in Nat /\ Cardinality(Creators) \in Nat
        /\ Cardinality(Flushers) \in Nat
    <3>1. IsFiniteSet(Creators)
      BY UsageAssumption, FS_Subset DEF Creators
    <3> QED BY <3>1, UsageAssumption, FS_CardinalityType DEF CountInv, CountShape, Counts
  <2> QED BY <1>4, <2>1, <2>2 DEF CountInv, RowsAndCreators
<1> QED BY <1>3, <1>4, <1>6, <1>7 DEF CountInv

\* A step of the hub that adds to its accumulator what it serves, or loses it.
LEMMA AccumulatorKeepsCounts ==
  ASSUME CountInv, UNCHANGED drainState, accumulator' \in Nat, servedTotal' \in Nat,
         accumulator' + servedTotal =< accumulator + servedTotal'
  PROVE  CountInv'
<1>1. UNCHANGED <<redisCount, unread, rereads, flusher, usageRow>>
  BY DEF drainState
<1>2. CountShape'
  BY <1>1 DEF CountInv, CountShape, Keyed, Rows
<1>3. Sum(unread) \in Nat /\ Sum(unread)' = Sum(unread)
  BY <1>1, CountsAre DEF CountInv
<1>4. Sum(unread)' + accumulator' + servedTotal =< Sum(unread) + accumulator + servedTotal'
  BY <1>3 DEF CountInv, CountShape
<1> QED BY <1>1, <1>2, <1>4, HubKeepsCounts

\* The steps of the limiter.
LEMMA LimiterKeepsCounts ==
  ASSUME CountInv,
         \/ CheckCached \/ PlanExpires \/ NextMinute \/ HubEnds
         \/ \E r \in Lookers : AskPlan(r) \/ PlanAnswers(r) \/ PlanFails(r)
  PROVE  CountInv'
<1>0. accumulator \in Nat /\ servedTotal \in Nat
  BY DEF CountInv, CountShape
<1>1. ASSUME NEW limit, checkRequest(limit) PROVE CountInv'
  <2>1. /\ UNCHANGED drainState
        /\ \/ accumulator' = accumulator + 1 /\ servedTotal' = servedTotal + 1
           \/ accumulator' = accumulator /\ servedTotal' = servedTotal
    BY <1>1 DEF checkRequest, recordMonthlyUsage
  <2> QED BY <1>0, <2>1, AccumulatorKeepsCounts
<1>2. CASE PlanExpires \/ NextMinute \/ HubEnds \/ \E r \in Lookers : AskPlan(r)
  <2>1. /\ UNCHANGED drainState /\ servedTotal' = servedTotal
        /\ accumulator' = accumulator \/ accumulator' = 0
    BY <1>2 DEF PlanExpires, NextMinute, HubEnds, AskPlan
  <2> QED BY <1>0, <2>1, AccumulatorKeepsCounts
<1>3. CASE CheckCached
  BY <1>1, <1>3 DEF CheckCached
<1>4. ASSUME NEW r \in Lookers, PlanAnswers(r) \/ PlanFails(r) PROVE CountInv'
  BY <1>1, <1>4 DEF PlanAnswers, PlanFails
<1> QED BY <1>2, <1>3, <1>4

\* The flush of the accumulator and the requests with a key.
LEMMA ServingKeepsCounts ==
  ASSUME CountInv, FlushAccumulator \/ \E k \in KeySlots : IncrementUsage(k)
  PROVE  CountInv'
<1>0. accumulator \in Nat /\ servedTotal \in Nat
  BY DEF CountInv, CountShape
<1>1. CASE FlushAccumulator
  <2>1. /\ UNCHANGED <<flusher, usageRow, rereads>> /\ accumulator' = 0 /\ servedTotal' = servedTotal
        /\ Increment(Public, accumulator) \/ UNCHANGED <<redisCount, unread>>
    BY <1>1 DEF FlushAccumulator, clearAccumulator
  <2>2. /\ accumulator' \in Nat /\ servedTotal' \in Nat
        /\ accumulator' + servedTotal =< accumulator + servedTotal'
        /\ accumulator' + accumulator + servedTotal =< accumulator + servedTotal'
    BY <1>0, <2>1
  <2>3. Public \in Slots
    BY DEF Slots
  <2>4. CASE UNCHANGED <<redisCount, unread>>
    BY <2>1, <2>2, <2>4, AccumulatorKeepsCounts DEF drainState
  <2>5. CASE Increment(Public, accumulator)
    BY <1>0, <2>1, <2>2, <2>3, <2>5, CountersGrow
  <2> QED BY <2>1, <2>4, <2>5
<1>2. ASSUME NEW k \in KeySlots, IncrementUsage(k) PROVE CountInv'
  <2>1. /\ UNCHANGED <<flusher, usageRow, rereads>> /\ accumulator' = accumulator
        /\ servedTotal' = servedTotal + 1 /\ Increment(k, 1)
    BY <1>2 DEF IncrementUsage
  <2>2. /\ accumulator' \in Nat /\ servedTotal' \in Nat
        /\ accumulator' + 1 + servedTotal =< accumulator + servedTotal'
    BY <1>0, <2>1
  <2>3. k \in Slots
    BY DEF Slots
  <2> QED BY <2>1, <2>2, <2>3, CountersGrow
<1> QED BY <1>1, <1>2

LEMMA CountsHold == CountInv => NeverOvercounts /\ FewRollupRows
<1> SUFFICES ASSUME CountInv PROVE NeverOvercounts /\ FewRollupRows
  OBVIOUS
<1>1. /\ Recorded \in Nat /\ Sum(unread) \in Nat /\ Sum(Hands) \in Nat
      /\ accumulator \in Nat /\ servedTotal \in Nat /\ rereads \in Nat
  BY CountsAre, HandsAre DEF CountInv, CountShape
<1>2. NeverOvercounts
  BY <1>1 DEF CountInv, NothingTwice, NeverOvercounts
<1>3. IsFiniteSet(Creators)
  BY UsageAssumption, FS_Subset DEF Creators
<1>4. /\ Cardinality(DOMAIN Rows) \in Nat /\ Cardinality(Creators) \in Nat
      /\ Cardinality(Flushers) \in Nat
  BY <1>3, UsageAssumption, FS_CardinalityType DEF CountInv, CountShape, Counts
<1>5. CASE DOMAIN Rows = {}
  <2>1. Cardinality(DOMAIN Rows) = 0
    BY <1>5, FS_EmptySet
  <2> QED BY <1>2, <1>4, <2>1 DEF FewRollupRows, Rows
<1>6. CASE DOMAIN Rows # {}
  <2>1. Cardinality(DOMAIN Rows) =< Cardinality(Flushers)
    BY <1>4, <1>6 DEF CountInv, RowsAndCreators
  <2> QED BY <1>2, <2>1 DEF FewRollupRows, Rows
<1> QED BY <1>5, <1>6

(* Through the accumulator, Redis and the drains, however many ticks overlap *)
(* and however often SCAN lists a key, with lost writes, failed drains and   *)
(* restarts of either process, no more is counted than was served or read    *)
(* again; a period has no more rollup rows than ticks that overlap; and no   *)
(* minute exceeds the limits found (PublicPathUsageLimiter,                  *)
(* FlushUsageWorker).  For any keys, limits and numbers of requests.         *)
THEOREM UsageCorrect == UsageSpec => []UsageCounted
<1>1. CountInv /\ [UsageNext]_usageVars => CountInv'
  <2> SUFFICES ASSUME CountInv, [UsageNext]_usageVars PROVE CountInv'
    OBVIOUS
  <2>1. CASE \/ CheckCached \/ PlanExpires \/ NextMinute \/ HubEnds
             \/ \E r \in Lookers : AskPlan(r) \/ PlanAnswers(r) \/ PlanFails(r)
    BY <2>1, LimiterKeepsCounts
  <2>2. CASE FlushAccumulator \/ \E k \in KeySlots : IncrementUsage(k)
    BY <2>2, ServingKeepsCounts
  <2>3. ASSUME NEW w \in Flushers, FlushStep(w) \/ DrainThrows(w) \/ WriteFails(w) PROVE CountInv'
    BY <2>3, ReadsKeepCounts, GetKeepsCounts, DelKeepsCounts, UpsertKeepsCounts, RollupKeepsCounts,
       LossKeepsCounts DEF FlushStep
  <2>4. CASE ApiEnds
    BY <2>4, EndKeepsCounts
  <2>5. CASE UNCHANGED usageVars
    <3>1. UNCHANGED drainState /\ accumulator' = accumulator /\ servedTotal' = servedTotal
      BY <2>5 DEF usageVars, drainState
    <3>2. /\ accumulator' \in Nat /\ servedTotal' \in Nat
          /\ accumulator' + servedTotal =< accumulator + servedTotal'
      BY <3>1 DEF CountInv, CountShape
    <3> QED BY <3>1, <3>2, AccumulatorKeepsCounts
  <2> QED BY <2>1, <2>2, <2>3, <2>4, <2>5 DEF UsageNext
<1>2. CountInv => NeverOvercounts /\ FewRollupRows
  BY CountsHold
<1>3. UsageSpec => []PublicRateRespected
  BY RateHolds
<1> QED BY <1>1, <1>2, <1>3, CountStarts, PTL DEF UsageSpec, UsageCounted

-----------------------------------------------------------------------------
(***************************************************************************)
(* The charts.  Sums over parts of a set.                                  *)
(***************************************************************************)

\* A sum over one argument more.
LEMMA SigmaPut ==
  ASSUME NEW f, NEW T, NEW x, Numbers(f, T \cup {x}), x \notin T
  PROVE  Sigma(f, T \cup {x}) = f[x] + Sigma(f, T)
<1>1. (T \cup {x}) \ {x} = T /\ x \in T \cup {x}
  OBVIOUS
<1> QED BY <1>1, SigmaSplits

LEMMA NumbersPart ==
  ASSUME NEW f, NEW S, Numbers(f, S), NEW R \in SUBSET S
  PROVE  Numbers(f, R)
BY FS_Subset DEF Numbers

\* A sum over two parts is the sum of theirs.
LEMMA SigmaUnion ==
  ASSUME NEW f, NEW A, NEW B, Numbers(f, A \cup B), A \cap B = {}
  PROVE  Sigma(f, A \cup B) = Sigma(f, A) + Sigma(f, B)
<1> DEFINE G == {T \in SUBSET B : Sigma(f, A \cup T) = Sigma(f, A) + Sigma(f, T)}
<1>0. \A T \in SUBSET B : Numbers(f, T) /\ Numbers(f, A \cup T) /\ Numbers(f, A)
  <2>1. \A T \in SUBSET B : A \cup T \in SUBSET (A \cup B) /\ T \in SUBSET (A \cup B)
    OBVIOUS
  <2>2. A \in SUBSET (A \cup B)
    OBVIOUS
  <2> QED BY <2>1, <2>2, NumbersPart
<1>1. {} \in G
  <2>1. Sigma(f, A) \in Nat /\ Sigma(f, {}) = 0 /\ A \cup {} = A
    BY <1>0, SigmaSplits
  <2> QED BY <2>1
<1>2. ASSUME NEW T \in SUBSET B, NEW x \in B \ T, T \in G PROVE T \cup {x} \in G
  <2>1. x \notin T /\ x \notin A \cup T /\ A \cup (T \cup {x}) = (A \cup T) \cup {x}
    OBVIOUS
  <2>2. Numbers(f, T \cup {x}) /\ Numbers(f, (A \cup T) \cup {x})
    <3>1. T \cup {x} \in SUBSET B
      OBVIOUS
    <3> QED BY <1>0, <2>1, <3>1
  <2>3. Sigma(f, T \cup {x}) = f[x] + Sigma(f, T)
    BY <2>1, <2>2, SigmaPut
  <2>4. Sigma(f, A \cup (T \cup {x})) = f[x] + Sigma(f, A \cup T)
    BY <2>1, <2>2, SigmaPut
  <2>5. f[x] \in Nat /\ Sigma(f, A) \in Nat /\ Sigma(f, T) \in Nat
    BY <1>0, <2>2, SigmaSplits DEF Numbers
  <2>6. Sigma(f, A \cup T) = Sigma(f, A) + Sigma(f, T)
    BY <1>2
  <2>7. Sigma(f, A \cup (T \cup {x})) = Sigma(f, A) + Sigma(f, T \cup {x})
    BY <2>3, <2>4, <2>5, <2>6
  <2> QED BY <2>7
<1>3. IsFiniteSet(B)
  BY <1>0 DEF Numbers
<1> HIDE DEF G
<1>4. SUBSET B \subseteq G
  <2>1. Grows(B, G)
    BY <1>1, <1>2 DEF Grows
  <2> QED BY <1>3, <2>1, FiniteSetGrows
<1> QED BY <1>4 DEF G

\* A sum of zeros.
LEMMA SigmaZeros ==
  ASSUME NEW f, NEW S, Numbers(f, S), \A x \in S : f[x] = 0
  PROVE  Sigma(f, S) = 0
<1> DEFINE G == {T \in SUBSET S : Sigma(f, T) = 0}
<1>1. {} \in G
  BY SigmaSplits
<1>2. ASSUME NEW T \in SUBSET S, NEW x \in S \ T, T \in G PROVE T \cup {x} \in G
  <2>1. T \cup {x} \in SUBSET S /\ x \notin T
    OBVIOUS
  <2>2. Sigma(f, T \cup {x}) = f[x] + Sigma(f, T)
    BY <2>1, NumbersPart, SigmaPut
  <2>3. f[x] = 0 /\ Sigma(f, T) = 0
    BY <1>2
  <2> QED BY <2>1, <2>2, <2>3
<1>3. IsFiniteSet(S)
  BY DEF Numbers
<1> HIDE DEF G
<1>4. SUBSET S \subseteq G
  <2>1. Grows(S, G)
    BY <1>1, <1>2 DEF Grows
  <2> QED BY <1>3, <2>1, FiniteSetGrows
<1> QED BY <1>4 DEF G

\* Arguments of value 0 can be left out.
LEMMA SigmaDrops ==
  ASSUME NEW f, NEW S, Numbers(f, S), NEW R \in SUBSET S, \A x \in S \ R : f[x] = 0
  PROVE  Sigma(f, S) = Sigma(f, R)
<1> DEFINE Z == S \ R
<1>1. S = R \cup Z /\ R \cap Z = {} /\ Z \in SUBSET S /\ \A x \in Z : f[x] = 0
  OBVIOUS
<1> HIDE DEF Z
<1>2. Numbers(f, R \cup Z) /\ Numbers(f, Z) /\ Numbers(f, R)
  BY <1>1, NumbersPart
<1>3. Sigma(f, Z) = 0
  BY <1>1, <1>2, SigmaZeros
<1>4. Sigma(f, S) = Sigma(f, R) + Sigma(f, Z)
  BY <1>1, <1>2, SigmaUnion
<1>5. Sigma(f, R) \in Nat
  BY <1>2, SigmaSplits
<1> QED BY <1>3, <1>4, <1>5

\* The sums of the parts that carry each label add up to the sum of all that
\* carry one of the labels.
LEMMA SigmaParts ==
  ASSUME NEW f, NEW S, Numbers(f, S), NEW label, NEW I, IsFiniteSet(I), NEW s,
         \A i \in I : s[i] = Sigma(f, {x \in S : label[x] = i})
  PROVE  Numbers(s, I) /\ Sigma(s, I) = Sigma(f, {x \in S : label[x] \in I})
<1> DEFINE Part(i) == {x \in S : label[x] = i}
           Parts(J) == {x \in S : label[x] \in J}
           G == {J \in SUBSET I : Sigma(s, J) = Sigma(f, Parts(J))}
<1>0. Numbers(s, I)
  <2>1. \A i \in I : Part(i) \in SUBSET S
    OBVIOUS
  <2>2. \A i \in I : s[i] = Sigma(f, Part(i))
    OBVIOUS
  <2> HIDE DEF Part
  <2>3. \A i \in I : s[i] \in Nat
    BY <2>1, <2>2, NumbersPart, SigmaSplits
  <2> QED BY <2>3 DEF Numbers
<1>1. {} \in G
  <2>1. Parts({}) = {}
    OBVIOUS
  <2>2. Numbers(s, {}) /\ Numbers(f, {})
    BY FS_EmptySet DEF Numbers
  <2>3. Sigma(s, {}) = 0 /\ Sigma(f, {}) = 0
    BY <2>2, SigmaSplits
  <2> HIDE DEF Parts
  <2> QED BY <2>1, <2>3
<1>2. ASSUME NEW T \in SUBSET I, NEW i \in I \ T, T \in G PROVE T \cup {i} \in G
  <2>1. T \cup {i} \in SUBSET I /\ i \notin T
    OBVIOUS
  <2>2. Sigma(s, T \cup {i}) = s[i] + Sigma(s, T)
    BY <1>0, <2>1, NumbersPart, SigmaPut
  <2>3. s[i] = Sigma(f, Part(i)) /\ Sigma(s, T) = Sigma(f, Parts(T))
    BY <1>2
  <2>4. /\ Parts(T \cup {i}) = Parts(T) \cup Part(i) /\ Parts(T) \cap Part(i) = {}
        /\ Parts(T) \cup Part(i) \in SUBSET S /\ Parts(T) \in SUBSET S /\ Part(i) \in SUBSET S
    OBVIOUS
  <2> HIDE DEF Part, Parts
  <2>5. Sigma(f, Parts(T) \cup Part(i)) = Sigma(f, Parts(T)) + Sigma(f, Part(i))
    BY <2>4, NumbersPart, SigmaUnion
  <2>6. Sigma(f, Parts(T)) \in Nat /\ Sigma(f, Part(i)) \in Nat
    BY <2>4, NumbersPart, SigmaSplits
  <2>7. Sigma(s, T \cup {i}) = Sigma(f, Parts(T \cup {i}))
    BY <2>2, <2>3, <2>4, <2>5, <2>6
  <2> QED BY <2>1, <2>7
<1> HIDE DEF G
<1>3. SUBSET I \subseteq G
  <2>1. Grows(I, G)
    BY <1>1, <1>2 DEF Grows
  <2> QED BY <2>1, FiniteSetGrows
<1> QED BY <1>0, <1>3 DEF G

\* What SumOver stands for.
LEMMA SumOverIsSigma == ASSUME NEW f, NEW S PROVE SumOver(S, LAMBDA x : f[x]) = Sigma(f, S)
BY DEF SumOver, MapThenSumSet, MapThenFoldSet, Sigma, Total, Unfolds, Step, Pick

\* The largest of numbers under a bound is one of them.
LEMMA MaxIsOne ==
  ASSUME NEW S \in SUBSET Nat, S # {}, NEW n \in Nat, \A x \in S : x =< n
  PROVE  Max(S) \in S
<1> DEFINE D == {n - x : x \in S}
<1>1. IsWellFoundedOn(OpToRel(<, Nat), Nat)
  BY NatLessThanWellFounded
<1>2. D \subseteq Nat /\ D # {}
  <2>1. PICK x \in S : TRUE
    OBVIOUS
  <2>2. n - x \in D
    OBVIOUS
  <2>3. D \subseteq Nat
    OBVIOUS
  <2> QED BY <2>2, <2>3
<1> HIDE DEF D
<1>3. PICK d \in D : \A y \in D : ~(<<y, d>> \in OpToRel(<, Nat))
  BY <1>1, <1>2, WFMin
<1>4. OpToRel(<, Nat) = {ss \in Nat \X Nat : ss[1] < ss[2]}
  BY Zenon DEF OpToRel
<1>5. \A y \in D : ~(y < d)
  BY <1>2, <1>3, <1>4
<1>6. PICK m \in S : d = n - m
  BY DEF D
<1>7. \A x \in S : m >= x
  BY <1>5, <1>6 DEF D
<1>8. \E x \in S : \A y \in S : x >= y
  BY <1>6, <1>7
<1> QED BY <1>8, Zenon DEF Max
\* The largest of a set's numbers is one of them, and no more than their sum.
LEMMA PeakInTotal ==
  ASSUME NEW s, NEW I, Numbers(s, I), I # {}
  PROVE  Max({s[i] : i \in I}) =< Sigma(s, I)
<1>1. \A i \in I : s[i] \in Nat /\ s[i] =< Sigma(s, I)
  <2> SUFFICES ASSUME NEW i \in I PROVE s[i] \in Nat /\ s[i] =< Sigma(s, I)
    OBVIOUS
  <2>1. Sigma(s, I) = s[i] + Sigma(s, I \ {i})
    BY SigmaSplits
  <2>2. Sigma(s, I \ {i}) \in Nat
    <3>1. I \ {i} \in SUBSET I
      OBVIOUS
    <3> QED BY <3>1, NumbersPart, SigmaSplits
  <2>3. s[i] \in Nat
    BY DEF Numbers
  <2> QED BY <2>1, <2>2, <2>3
<1> DEFINE V == {s[i] : i \in I}
<1>2. V \in SUBSET Nat /\ V # {} /\ \A v \in V : v =< Sigma(s, I)
  BY <1>1
<1>3. Sigma(s, I) \in Nat
  BY SigmaSplits
<1> HIDE DEF V
<1>4. Max(V) \in V
  BY <1>2, <1>3, MaxIsOne
<1>5. Max(V) =< Sigma(s, I)
  BY <1>2, <1>4
<1> QED BY <1>5 DEF V

-----------------------------------------------------------------------------
(***************************************************************************)
(* The series and the breakdown.                                           *)
(***************************************************************************)

ChartType ==
  /\ now \in 0..MaxTicks
  /\ usage \in [ChartSlots -> [Starts -> Nat]]
  /\ requestLog \in [0..MaxTicks -> Nat]

LEMMA ImageFinite ==
  ASSUME NEW S, IsFiniteSet(S), NEW f
  PROVE  IsFiniteSet({f[x] : x \in S})
<1> DEFINE g == [x \in S |-> f[x]]
           V == {f[x] : x \in S}
<1>1. g \in Surjection(S, V)
  BY DEF Surjection
<1> HIDE DEF g, V
<1> QED BY <1>1, FS_Surjection DEF V

LEMMA StartsFinite == IsFiniteSet(Starts) /\ Starts \in SUBSET Int
<1> DEFINE n == MaxTicks \div Period
           f == [p \in 0..n |-> p * Period]
<1>1. n \in Nat
  BY ChartAssumption
<1> HIDE DEF n
<1>2. IsFiniteSet(0..n)
  BY <1>1, FS_Interval
<1>3. Starts = {f[p] : p \in 0..n}
  BY DEF Starts, n
<1>4. IsFiniteSet({f[p] : p \in 0..n})
  BY <1>2, ImageFinite
<1>5. \A p \in 0..n : f[p] \in Int
  BY <1>1, ChartAssumption
<1> QED BY <1>3, <1>4, <1>5

\* A whole period inside a window falls into one of the window's buckets.
LEMMA BucketInSeries ==
  ASSUME NEW w \in [start : Int, end : Int], NEW range \in [len : Nat \ {0}, bucket : Nat \ {0}],
         NEW b \in Int, w.start =< b, b + Period =< w.end
  PROVE  bucketIndex(b, w, range) \in 0..bucketCount(w, range) - 1
<1> DEFINE k == range.bucket
           d == b - w.start
           n == w.end - w.start
           x == d \div k
           y == (n + k - 1) \div k
<1>1. k \in Nat \ {0} /\ d \in Nat /\ n \in Nat /\ d + 1 =< n
  BY ChartAssumption
<1> HIDE DEF k, d, n
<1>2. x \in Nat /\ y \in Nat
  BY <1>1
<1>3. k * x =< d /\ n + k - 1 < k * (y + 1)
  BY <1>1
<1> HIDE DEF x, y
<1>4. k * (x + 1) < k * (y + 1)
  <2>1. k * (x + 1) = k * x + k
    BY <1>1, <1>2
  <2>2. k * x \in Nat /\ k * (y + 1) \in Nat
    BY <1>1, <1>2
  <2> QED BY <1>1, <1>3, <2>1, <2>2
<1>5. x + 1 < y + 1
  <2>1. ~(y + 1 =< x + 1)
    <3> SUFFICES ASSUME y + 1 =< x + 1 PROVE k * (y + 1) =< k * (x + 1)
      BY <1>1, <1>2, <1>4
    <3>1. PICK z \in Nat : x + 1 = y + 1 + z
      <4>1. (x + 1) - (y + 1) \in Nat /\ x + 1 = y + 1 + ((x + 1) - (y + 1))
        BY <1>2
      <4> QED BY <4>1
    <3>2. k * (x + 1) = k * (y + 1) + k * z
      BY <1>1, <1>2, <3>1
    <3>3. k * z \in Nat /\ k * (y + 1) \in Nat
      BY <1>1, <1>2
    <3> QED BY <3>2, <3>3
  <2> QED BY <1>2, <2>1
<1> QED BY <1>2, <1>5 DEF bucketIndex, bucketCount, x, y, k, d, n
\* A series accounts for the whole periods in its window.
LEMMA UsageSeries ==
  ASSUME ChartType, GetUsage
  PROVE  LET whole == {b \in Starts : chart'.window.start =< b /\ b + Period =< chart'.window.end}
         IN /\ chart'.kind = "series"
            /\ chart'.total = SumOver(whole, LAMBDA b : usage[chart'.slot][b])
            /\ chart'.peak =< chart'.total
<1>1. PICK range \in Ranges, slot \in ChartSlots :
        LET w == rangeToWindow(range)
            rows == getApiKeyUsage(slot, w)
            series == buildTimeSeries(slot, rows, w, range)
        IN chart' = [kind |-> "series", slot |-> slot, window |-> w,
                     total |-> SumOver(DOMAIN series, LAMBDA i : series[i]),
                     peak |-> Max({series[i] : i \in DOMAIN series})]
  BY DEF GetUsage
<1> DEFINE w == rangeToWindow(range)
           rows == getApiKeyUsage(slot, w)
           u == usage[slot]
           whole == {b \in Starts : w.start =< b /\ b + Period =< w.end}
           series == buildTimeSeries(slot, rows, w, range)
           I == 0..bucketCount(w, range) - 1
           label == [b \in rows |-> bucketIndex(b, w, range)]
<1>2. /\ chart'.kind = "series" /\ chart'.slot = slot /\ chart'.window = w
      /\ chart'.total = SumOver(DOMAIN series, LAMBDA i : series[i])
      /\ chart'.peak = Max({series[i] : i \in DOMAIN series})
  BY <1>1
<1>3. range \in [len : Nat \ {0}, bucket : Nat \ {0}] /\ now \in Nat
  BY ChartAssumption DEF ChartType
<1>4. w \in [start : Int, end : Int] /\ w.end = w.start + range.len
  BY <1>3 DEF rangeToWindow
<1>5. rows \in SUBSET whole /\ whole \in SUBSET Starts /\ \A b \in whole \ rows : ~(u[b] > 0)
  BY DEF getApiKeyUsage, findInPeriod
<1>6. \A b \in Starts : u[b] \in Nat
  BY DEF ChartType
<1>7. Numbers(u, whole)
  BY <1>5, <1>6, StartsFinite, FS_Subset DEF Numbers
<1>8. \A b \in whole \ rows : u[b] = 0
  BY <1>5, <1>6
<1>9. \A b \in rows : label[b] \in I
  <2> SUFFICES ASSUME NEW b \in rows PROVE bucketIndex(b, w, range) \in I
    OBVIOUS
  <2>1. b \in Int /\ w.start =< b /\ b + Period =< w.end
    BY <1>5, StartsFinite
  <2> HIDE DEF w
  <2> QED BY <1>3, <1>4, <2>1, BucketInSeries
<1>10. series = [i \in I |-> SumOver({b \in rows : bucketIndex(b, w, range) = i}, LAMBDA b : u[b])]
  BY DEF buildTimeSeries
<1>11. \A i \in I : series[i] = Sigma(u, {b \in rows : label[b] = i})
  <2> SUFFICES ASSUME NEW i \in I PROVE series[i] = Sigma(u, {b \in rows : label[b] = i})
    OBVIOUS
  <2>1. {b \in rows : bucketIndex(b, w, range) = i} = {b \in rows : label[b] = i}
    OBVIOUS
  <2>2. series[i] = SumOver({b \in rows : bucketIndex(b, w, range) = i}, LAMBDA b : u[b])
    BY <1>10
  <2> QED BY <2>1, <2>2, SumOverIsSigma
<1>12. bucketCount(w, range) \in Nat \ {0}
  <2> DEFINE k == range.bucket
             n == range.len + k - 1
             y == n \div k
  <2>1. k \in Nat \ {0} /\ n \in Nat /\ n >= k
    BY <1>3
  <2>2. bucketCount(w, range) = y
    <3>1. (w.end - w.start) + range.bucket - 1 = n
      BY <1>3, <1>4
    <3> QED BY <3>1 DEF bucketCount
  <2> HIDE DEF k, n
  <2>3. y \in Nat /\ n < k * (y + 1)
    BY <2>1
  <2>4. y # 0
    BY <2>1, <2>3
  <2> QED BY <2>2, <2>3, <2>4
<1>13. DOMAIN series = I /\ IsFiniteSet(I) /\ I # {}
  <2>1. DOMAIN series = I
    BY <1>10
  <2> HIDE DEF series
  <2>2. bucketCount(w, range) - 1 \in Nat
    BY <1>12
  <2>3. IsFiniteSet(I) /\ 0 \in I
    BY <2>2, FS_Interval
  <2> QED BY <2>1, <2>3
<1>14. chart'.total = Sigma(series, I)
  <2>1. chart'.total = SumOver(I, LAMBDA i : series[i])
    BY <1>2, <1>13
  <2> HIDE DEF series, I
  <2> QED BY <2>1, SumOverIsSigma
<1>15. chart'.peak = Max({series[i] : i \in I})
  BY <1>2, <1>13
<1>16. Numbers(u, rows)
  BY <1>5, <1>7, NumbersPart
<1>17. Numbers(series, I) /\ Sigma(series, I) = Sigma(u, {b \in rows : label[b] \in I})
  <2> HIDE DEF series, I, label, rows, u
  <2> QED BY <1>11, <1>13, <1>16, SigmaParts
<1>18. {b \in rows : label[b] \in I} = rows
  BY <1>9
<1>19. Sigma(u, rows) = Sigma(u, whole)
  <2> HIDE DEF rows, whole, u
  <2> QED BY <1>5, <1>7, <1>8, SigmaDrops
<1>20. chart'.total = Sigma(u, whole)
  <2> HIDE DEF series, I, label, rows, whole, u
  <2> QED BY <1>14, <1>17, <1>18, <1>19
<1>21. chart'.peak =< chart'.total
  <2> HIDE DEF series, I
  <2> QED BY <1>13, <1>14, <1>15, <1>17, PeakInTotal
<1>22. SumOver(whole, LAMBDA b : u[b]) = Sigma(u, whole)
  <2> HIDE DEF whole, u
  <2> QED BY SumOverIsSigma
<1>23. chart'.total = SumOver(whole, LAMBDA b : usage[chart'.slot][b])
  BY <1>2, <1>20, <1>22
<1>24. whole = {b \in Starts : chart'.window.start =< b /\ b + Period =< chart'.window.end}
  BY <1>2
<1> HIDE DEF whole
<1> QED BY <1>2, <1>21, <1>23, <1>24

\* A breakdown accounts for the requests of its period.
LEMMA HourlyBreakdown ==
  ASSUME ChartType, GetTunnelUsage
  PROVE  /\ chart'.kind = "hourly"
         /\ chart'.total = SumOver(chart'.from..chart'.to, LAMBDA t : requestLog[t])
<1>1. PICK from \in 0..now, to \in 0..now, range \in Ranges :
        LET stats == getHourlyStats(from, to, range.bucket)
        IN chart' = [kind |-> "hourly", from |-> from, to |-> to,
                     total |-> SumOver(DOMAIN stats, LAMBDA h : stats[h])]
  BY DEF GetTunnelUsage
<1> DEFINE size == range.bucket
           stats == getHourlyStats(from, to, size)
           S == from..to
           Seen == {t \in S : requestLog[t] > 0}
           label == [t \in S |-> hourOf(t, size)]
           H == {label[t] : t \in Seen}
<1>2. /\ chart'.kind = "hourly" /\ chart'.from = from /\ chart'.to = to
      /\ chart'.total = SumOver(DOMAIN stats, LAMBDA h : stats[h])
  BY <1>1
<1>3. S \in SUBSET (0..MaxTicks) /\ IsFiniteSet(S)
  <2>1. from \in 0..now /\ to \in 0..now /\ now \in 0..MaxTicks /\ MaxTicks \in Nat
    BY ChartAssumption DEF ChartType
  <2>2. from \in Int /\ to \in Int
    BY <2>1
  <2>3. IsFiniteSet(S)
    BY <2>2, FS_Interval
  <2>4. S \in SUBSET (0..MaxTicks)
    BY <2>1
  <2> QED BY <2>3, <2>4
<1>4. Numbers(requestLog, S)
  BY <1>3 DEF ChartType, Numbers
<1>5. Seen \in SUBSET S /\ \A t \in S \ Seen : requestLog[t] = 0
  BY <1>3 DEF ChartType
<1>6. H = {hourOf(t, size) : t \in {u \in from..to : requestLog[u] > 0}}
  OBVIOUS
<1>7. stats = [h \in H |-> SumOver({t \in S : hourOf(t, size) = h}, LAMBDA t : requestLog[t])]
  BY <1>6 DEF getHourlyStats
<1>8. \A h \in H : stats[h] = Sigma(requestLog, {t \in S : label[t] = h})
  <2> SUFFICES ASSUME NEW h \in H PROVE stats[h] = Sigma(requestLog, {t \in S : label[t] = h})
    OBVIOUS
  <2>1. {t \in S : hourOf(t, size) = h} = {t \in S : label[t] = h}
    OBVIOUS
  <2>2. stats[h] = SumOver({t \in S : hourOf(t, size) = h}, LAMBDA t : requestLog[t])
    BY <1>7
  <2> QED BY <2>1, <2>2, SumOverIsSigma
<1>9. DOMAIN stats = H
  BY <1>7
<1>10. \A t \in Seen : label[t] \in H
  OBVIOUS
<1> HIDE DEF label, S
<1>11. IsFiniteSet(H)
  <2>1. IsFiniteSet(Seen)
    BY <1>3, <1>5, FS_Subset
  <2> HIDE DEF Seen
  <2> QED BY <2>1, ImageFinite
<1> HIDE DEF H, stats
<1>12. chart'.total = Sigma(stats, H)
  BY <1>2, <1>9, SumOverIsSigma
<1>13. Sigma(stats, H) = Sigma(requestLog, {t \in S : label[t] \in H})
  BY <1>4, <1>8, <1>11, SigmaParts
<1>14. Sigma(requestLog, {t \in S : label[t] \in H}) = Sigma(requestLog, S)
  <2> DEFINE R == {t \in S : label[t] \in H}
  <2>1. R \in SUBSET S /\ \A t \in S \ R : requestLog[t] = 0
    BY <1>5, <1>10
  <2> HIDE DEF R
  <2>2. Sigma(requestLog, S) = Sigma(requestLog, R)
    BY <1>4, <2>1, SigmaDrops
  <2> QED BY <2>2 DEF R
<1>15. SumOver(S, LAMBDA t : requestLog[t]) = Sigma(requestLog, S)
  BY SumOverIsSigma
<1>16. chart'.total = SumOver(S, LAMBDA t : requestLog[t])
  BY <1>12, <1>13, <1>14, <1>15
<1> QED BY <1>2, <1>16 DEF S

LEMMA ChartTypeKept == ChartType /\ [ChartNext]_chartVars => ChartType'
<1> SUFFICES ASSUME ChartType, [ChartNext]_chartVars PROVE ChartType'
  OBVIOUS
<1>1. CASE Tick
  BY <1>1, ChartAssumption DEF Tick, ChartType
<1>2. CASE AddUsage
  <2>1. PICK s \in ChartSlots, b \in Starts : usage' = [usage EXCEPT ![s][b] = @ + 1]
    BY <1>2 DEF AddUsage
  <2>2. usage[s] \in [Starts -> Nat]
    BY DEF ChartType
  <2>3. usage' \in [ChartSlots -> [Starts -> Nat]]
    BY <2>1, <2>2 DEF ChartType
  <2> QED BY <1>2, <2>3 DEF AddUsage, ChartType
<1>3. CASE LogRequest
  BY <1>3 DEF LogRequest, ChartType
<1>4. CASE Forget \/ GetUsage \/ GetSummary \/ GetTunnelUsage
  BY <1>4 DEF Forget, GetUsage, GetSummary, GetTunnelUsage, ChartType
<1>5. CASE UNCHANGED chartVars
  BY <1>5 DEF chartVars, ChartType
<1> QED BY <1>1, <1>2, <1>3, <1>4, <1>5 DEF ChartNext

\* ChartAccountsAll: a series adds up to the usage of the whole periods in its
\* window and its peak is part of it, and a breakdown adds up to the requests of
\* its period, whatever the window's start and the size of its buckets.
THEOREM ChartsCorrect == ChartSpec => ChartAccountsAll
<1>1. ChartInit => ChartType
  <2> SUFFICES ASSUME ChartInit PROVE ChartType
    OBVIOUS
  <2> QED BY ChartAssumption DEF ChartInit, ChartType
<1> DEFINE Accounts ==
      /\ chart'.kind = "series" =>
         LET whole == {b \in Starts : chart'.window.start =< b /\ b + Period =< chart'.window.end}
         IN /\ chart'.total = SumOver(whole, LAMBDA b : usage[chart'.slot][b])
            /\ chart'.peak =< chart'.total
      /\ chart'.kind = "hourly" =>
         chart'.total = SumOver(chart'.from..chart'.to, LAMBDA t : requestLog[t])
<1>2. ASSUME ChartType, [ChartNext]_chartVars PROVE [Accounts]_chart
  <2>1. CASE GetUsage
    <3>1. chart'.kind # "hourly"
      BY <1>2, <2>1, UsageSeries
    <3> QED BY <1>2, <2>1, <3>1, UsageSeries
  <2>2. CASE GetTunnelUsage
    <3>1. chart'.kind # "series"
      BY <1>2, <2>2, HourlyBreakdown
    <3> QED BY <1>2, <2>2, <3>1, HourlyBreakdown
  <2>3. CASE GetSummary
    <3>1. chart'.kind = "summary"
      BY <2>3 DEF GetSummary
    <3> QED BY <3>1
  <2>4. CASE Forget
    <3>1. chart'.kind = "none"
      BY <2>4 DEF Forget, NoChart
    <3> QED BY <3>1
  <2>5. CASE Tick \/ AddUsage \/ LogRequest \/ UNCHANGED chartVars
    BY <2>5 DEF Tick, AddUsage, LogRequest, chartVars
  <2> QED BY <1>2, <2>1, <2>2, <2>3, <2>4, <2>5 DEF ChartNext
<1>3. QED BY <1>1, <1>2, ChartTypeKept, PTL DEF ChartSpec, ChartAccountsAll

-----------------------------------------------------------------------------
(* The lists and the tables that walk their pages. *)

\* The tables of the dashboard and of the console.
Tables ==
  {MembersTable, ApiKeysView, TunnelsView, useTunnelRequests, ActiveTunnelsCard,
   FeedbackHistoryTab, AdminFeedbackTable, InvitationsTab, MyAccountsTable,
   AdminUsersTable, AdminRolesTable, AdminAbilitiesTable, AuditLogView}

\* Row i comes before row j.  The newest of rows with equal keys is first in a list
\* sorted in memory, which is the only one whose order is owed for such keys.
KeyIn(d, o, i) == IF o.by = "status" THEN IF d[i] = "open" THEN 1 ELSE 0 ELSE i
Ahead(d, o, i, j) ==
  LET a == KeyIn(d, o, i) b == KeyIn(d, o, j) IN
  IF a = b THEN j < i ELSE IF o.order = "asc" THEN a < b ELSE b < a
AheadOf(d, o, S, e) == {j \in S : Ahead(d, o, j, e)}
\* The first n rows of S, and S as a list.
FirstOf(d, o, S, n) == {e \in S : Cardinality(AheadOf(d, o, S, e)) < n}
Lined(d, o, S) == {s \in SetToSeqs(S) : \A i, j \in DOMAIN s : i < j => Ahead(d, o, s[i], s[j])}

Grown == changed \subseteq {"grown"}
Paged == IF shown = Blank THEN table.page - 1 ELSE table.page
\* The rows that are paged over.
Base == IF listing.pages = "browser" THEN ToSet(pageFetch.rows) ELSE Matching(table.filter)
RowCount == Cardinality(Base)
Loaded == listing.pages = "browser" => pageFetch.read
ItemsRead == Slice(pageFetch.rows, 0, table.limit)

ListShape(l) ==
  /\ l.pages \in {"server", "browser", "overfetch"} /\ l.sorts \subseteq ByAny
  /\ l.pages = "browser" => l.total = "snapshot"
  /\ l.pages = "server" => l.total \in {"snapshot", "count"}
  /\ l.pages = "overfetch" => l.total = "none"

ListTypes ==
  /\ ListShape(listing)
  /\ db \in Seq(Statuses)
  /\ table \in [page : Nat \ {0}, limit : Limits, filter : {"all", "open"}, sort : ByAny]
  /\ pageFetch \in [rows : Seq(DOMAIN db), read : BOOLEAN, total : Nat, counted : BOOLEAN]
  /\ shown \in [items : Seq(Nat), pages : Nat]
  /\ walk \in Seq(Nat)
  /\ before \subseteq DOMAIN db

\* What has been fetched.
FetchInv ==
  /\ shown # Blank => shown.pages > 0
  /\ listing.pages # "browser" /\ shown # Blank => pageFetch = Idle
  /\ listing.pages = "browser" =>
       /\ pageFetch.read => pageFetch.rows \in Lined(db, newestFirst, Base)
       /\ pageFetch.read /\ listing.reads = "first" => Len(pageFetch.rows) =< Cap
       /\ ~pageFetch.read => pageFetch = Idle /\ shown = Blank /\ walk = <<>> /\ table.page = 1

\* What was there when the walk began.
BeforeInv ==
  /\ listing.pages # "browser" \/ ~pageFetch.read =>
       /\ changed = {} => before = Matching(table.filter)
       /\ Grown => /\ before \subseteq Matching(table.filter)
                   /\ \A i \in Matching(table.filter) \ before : \A j \in before : j < i
  /\ listing.pages = "browser" /\ pageFetch.read =>
       /\ changed = {} => Visible = Base
       /\ Grown /\ listing.reads # "first" => before \subseteq Base

\* No page past the end.
PageInv == Grown =>
  /\ table.page > 1 => (table.page - 1) * table.limit < RowCount
  /\ shown # Blank => /\ shown.pages > 1 => (shown.pages - 1) * table.limit < RowCount
                      /\ table.page > 1 => shown.items # <<>>
  /\ listing.pages # "browser" /\ shown = Blank =>
       /\ pageFetch.counted /\ listing.pages = "server" => pageFetch.total =< RowCount
       /\ pageFetch.read /\ table.page > 1 => pageFetch.rows # <<>>
       /\ pageFetch.read /\ Len(pageFetch.rows) > table.limit => table.page * table.limit < RowCount

\* Nothing has changed: the walk is the beginning of the list.
QuietInv == changed = {} /\ ~Tied /\ Loaded =>
  /\ walk # Broken => \A s \in Lined(db, table.sort, Base) : walk = Slice(s, 0, Paged * table.limit)
  /\ listing.pages # "browser" /\ shown = Blank =>
       /\ pageFetch.read => \A s \in Lined(db, table.sort, Base) :
            pageFetch.rows = Slice(s, (table.page - 1) * table.limit,
                                   IF listing.pages = "overfetch" THEN table.limit + 1 ELSE table.limit)
       /\ pageFetch.counted /\ listing.pages = "server" => pageFetch.total = RowCount
  /\ shown # Blank /\ table.page = shown.pages => RowCount =< table.page * table.limit

\* Rows have been inserted: those that were there are on the pages turned, or further on.
GrowInv == Grown /\ ~Tied /\ Loaded /\ listing.reads # "first" /\ walk # Broken
           /\ (listing.total # "count" \/ table.sort.order = "asc") =>
  /\ before \cap FirstOf(db, table.sort, Base, Paged * table.limit) \subseteq ToSet(walk)
  /\ listing.pages # "browser" /\ shown = Blank =>
       /\ pageFetch.read =>
            /\ before \cap FirstOf(db, table.sort, Base, table.page * table.limit)
                 \subseteq ToSet(walk) \cup ToSet(ItemsRead)
            /\ \/ listing.pages = "overfetch" /\ Len(pageFetch.rows) =< table.limit
               \/ listing.total = "snapshot" /\ pageFetch.total =< table.page * table.limit
               => before \subseteq ToSet(walk) \cup ToSet(ItemsRead)
       /\ pageFetch.counted /\ listing.total = "count" => Cardinality(before) =< pageFetch.total
  /\ shown # Blank /\ table.page = shown.pages => before \subseteq ToSet(walk)

ListInv == ListTypes /\ FetchInv /\ BeforeInv /\ PageInv /\ QuietInv /\ GrowInv

-----------------------------------------------------------------------------
(* Orders of rows. *)

LEMMA AheadOrders ==
  ASSUME NEW d \in Seq(Statuses), NEW o \in ByAny
  PROVE  /\ \A i \in DOMAIN d : ~Ahead(d, o, i, i)
         /\ \A i, j \in DOMAIN d : i # j => Ahead(d, o, i, j) \/ Ahead(d, o, j, i)
         /\ \A i, j, k \in DOMAIN d : Ahead(d, o, i, j) /\ Ahead(d, o, j, k) => Ahead(d, o, i, k)
<1>1. DOMAIN d \subseteq Nat /\ \A i \in DOMAIN d : KeyIn(d, o, i) \in Nat
  BY LenProperties DEF KeyIn
<1> DEFINE key(i) == KeyIn(d, o, i)
<1>2. \A i, j : Ahead(d, o, i, j) <=>
        IF key(i) = key(j) THEN j < i ELSE IF o.order = "asc" THEN key(i) < key(j) ELSE key(j) < key(i)
  BY DEF Ahead
<1>3. \A i \in DOMAIN d : i \in Nat /\ key(i) \in Nat
  BY <1>1
<1> HIDE DEF key
<1> QED BY <1>2, <1>3

\* Two rows are in no two orders.
LEMMA AheadOnce ==
  ASSUME NEW d \in Seq(Statuses), NEW o \in ByAny, NEW i \in DOMAIN d, NEW j \in DOMAIN d,
         Ahead(d, o, i, j)
  PROVE  i # j /\ ~Ahead(d, o, j, i)
BY AheadOrders

LEMMA RowsFinite ==
  ASSUME NEW d \in Seq(Statuses), NEW S \in SUBSET DOMAIN d
  PROVE  /\ IsFiniteSet(S) /\ Cardinality(S) \in Nat /\ DOMAIN d = 1..Len(d) /\ Len(d) \in Nat
         /\ \A T \in SUBSET S : IsFiniteSet(T) /\ Cardinality(T) \in Nat
<1>1. DOMAIN d = 1..Len(d) /\ Len(d) \in Nat
  BY LenProperties
<1>2. IsFiniteSet(1..Len(d))
  BY <1>1, FS_Interval
<1>3. IsFiniteSet(S)
  BY <1>1, <1>2, FS_Subset
<1> QED BY <1>1, <1>3, FS_Subset, FS_CardinalityType

\* A row has as many rows ahead of it as its place says: later rows have more.
LEMMA Ranks ==
  ASSUME NEW d \in Seq(Statuses), NEW o \in ByAny, NEW S \in SUBSET DOMAIN d
  PROVE  /\ \A e \in S : /\ Cardinality(AheadOf(d, o, S, e)) \in Nat
                         /\ Cardinality(AheadOf(d, o, S, e)) < Cardinality(S)
         /\ \A e, f \in S : Ahead(d, o, e, f) =>
              Cardinality(AheadOf(d, o, S, e)) < Cardinality(AheadOf(d, o, S, f))
<1>1. \A T \in SUBSET S : IsFiniteSet(T) /\ Cardinality(T) \in Nat
  BY RowsFinite
<1>2. ASSUME NEW T \in SUBSET S, NEW U \in SUBSET T, NEW x \in T, x \notin U
      PROVE  Cardinality(U) < Cardinality(T)
  BY <1>1, <1>2, FS_Subset
<1>3. ASSUME NEW e \in S
      PROVE  /\ Cardinality(AheadOf(d, o, S, e)) \in Nat
             /\ Cardinality(AheadOf(d, o, S, e)) < Cardinality(S)
  <2>1. AheadOf(d, o, S, e) \in SUBSET S /\ e \notin AheadOf(d, o, S, e)
    BY AheadOrders DEF AheadOf
  <2> QED BY <1>1, <1>2, <2>1
<1>4. ASSUME NEW e \in S, NEW f \in S, Ahead(d, o, e, f)
      PROVE  Cardinality(AheadOf(d, o, S, e)) < Cardinality(AheadOf(d, o, S, f))
  <2>1. \A j \in S : Ahead(d, o, j, e) => Ahead(d, o, j, f)
    BY <1>4, AheadOrders
  <2>2. /\ AheadOf(d, o, S, e) \in SUBSET AheadOf(d, o, S, f)
        /\ e \in AheadOf(d, o, S, f) /\ e \notin AheadOf(d, o, S, e)
        /\ AheadOf(d, o, S, f) \in SUBSET S
    BY <2>1, <1>4, AheadOrders DEF AheadOf
  <2> QED BY <1>2, <2>2
<1> QED BY <1>3, <1>4

\* What a sequence of all the rows is.
LEMMA SeqOfAll ==
  ASSUME NEW d \in Seq(Statuses), NEW S \in SUBSET DOMAIN d, NEW s \in SetToSeqs(S)
  PROVE  /\ s \in Seq(S) /\ s \in Seq(Nat) /\ s \in Seq(DOMAIN d)
         /\ Len(s) = Cardinality(S) /\ DOMAIN s = 1..Cardinality(S)
         /\ ToSet(s) = S /\ \A i \in DOMAIN s : s[i] \in S
         /\ \A i, j \in DOMAIN s : s[i] = s[j] => i = j
<1> DEFINE n == Cardinality(S)
<1>1. IsFiniteSet(S) /\ n \in Nat /\ S \subseteq Nat
  BY RowsFinite
<1>2. s \in [1..n -> S] /\ \A i, j \in 1..n : i # j => s[i] # s[j]
  BY Zenon DEF SetToSeqs
<1>3. s \in Seq(S) /\ Len(s) = n /\ DOMAIN s = 1..n
  <2>1. s \in Seq(S)
    BY <1>1, <1>2
  <2>2. Len(s) \in Nat /\ DOMAIN s = 1..Len(s) /\ DOMAIN s = 1..n
    BY <1>2, <2>1, LenProperties
  <2>3. Len(s) = n
    BY <1>1, <2>2
  <2> QED BY <2>1, <2>2, <2>3
<1>4. s \in Injection(1..n, S)
  BY <1>2 DEF Injection, IsInjective
<1>5. IsFiniteSet(1..n) /\ Cardinality(1..n) = n
  BY <1>1, FS_Interval
<1>6. s \in Surjection(1..n, S)
  BY <1>1, <1>4, <1>5, FS_Injection
<1>7. \A e \in S : \E i \in 1..n : s[i] = e
  BY <1>6 DEF Surjection
<1>8. ToSet(s) = S
  BY <1>2, <1>3, <1>7 DEF ToSet
<1>9. s \in Seq(Nat) /\ s \in Seq(DOMAIN d)
  BY <1>1, <1>3, SeqMonotonic
<1> QED BY <1>2, <1>3, <1>8, <1>9

\* A list has at place k the row with k - 1 rows ahead of it.
LEMMA LinedRanks ==
  ASSUME NEW d \in Seq(Statuses), NEW o \in ByAny, NEW S \in SUBSET DOMAIN d,
         NEW s \in Lined(d, o, S)
  PROVE  \A k \in DOMAIN s : Cardinality(AheadOf(d, o, S, s[k])) = k - 1
<1>1. s \in SetToSeqs(S) /\ \A i, j \in DOMAIN s : i < j => Ahead(d, o, s[i], s[j])
  BY DEF Lined
<1>2. /\ DOMAIN s = 1..Cardinality(S) /\ ToSet(s) = S /\ \A i \in DOMAIN s : s[i] \in S
      /\ \A i, j \in DOMAIN s : s[i] = s[j] => i = j
  BY <1>1, SeqOfAll
<1>3. Cardinality(S) \in Nat
  BY RowsFinite
<1> SUFFICES ASSUME NEW k \in DOMAIN s
             PROVE  Cardinality(AheadOf(d, o, S, s[k])) = k - 1
  OBVIOUS
<1> DEFINE T == AheadOf(d, o, S, s[k])
           f == [i \in 1..k - 1 |-> s[i]]
<1>4. k \in 1..Cardinality(S) /\ k \in Int /\ k - 1 \in Nat /\ 1..k - 1 \subseteq DOMAIN s
  BY <1>2, <1>3
<1>5. \A i \in 1..k - 1 : s[i] \in T
  BY <1>1, <1>2, <1>4 DEF AheadOf
<1>6. ASSUME NEW e \in T PROVE \E i \in 1..k - 1 : s[i] = e
  <2>1. e \in S /\ Ahead(d, o, e, s[k])
    BY <1>6 DEF AheadOf
  <2>2. PICK i \in DOMAIN s : s[i] = e
    BY <1>2, <2>1 DEF ToSet
  <2>3. i # k /\ ~(k < i)
    BY <1>1, <1>2, <2>1, <2>2, AheadOnce
  <2> QED BY <1>2, <1>4, <2>2, <2>3
<1>7. f \in Bijection(1..k - 1, T)
  <2>1. f \in [1..k - 1 -> T]
    BY <1>5
  <2>2. \A i, j \in 1..k - 1 : f[i] = f[j] => i = j
    BY <1>2, <1>4
  <2>3. \A e \in T : \E i \in 1..k - 1 : f[i] = e
    BY <1>6
  <2> QED BY <2>1, <2>2, <2>3 DEF Bijection, Injection, Surjection, IsInjective
<1>8. IsFiniteSet(1..k - 1) /\ Cardinality(1..k - 1) = k - 1
  BY <1>4, FS_Interval
<1> QED BY <1>7, <1>8, FS_Bijection DEF ExistsBijection

\* A set of rows is listed in one way.
LEMMA LinedOnce ==
  ASSUME NEW d \in Seq(Statuses), NEW o \in ByAny, NEW S \in SUBSET DOMAIN d,
         NEW s \in Lined(d, o, S), NEW t \in Lined(d, o, S)
  PROVE  s = t
<1>1. s \in SetToSeqs(S) /\ t \in SetToSeqs(S)
  BY DEF Lined
<1>2. /\ s \in Seq(S) /\ Len(s) = Cardinality(S) /\ DOMAIN s = 1..Cardinality(S)
      /\ \A i \in DOMAIN s : s[i] \in S
      /\ t \in Seq(S) /\ Len(t) = Cardinality(S) /\ DOMAIN t = 1..Cardinality(S)
      /\ ToSet(t) = S
  BY <1>1, SeqOfAll
<1>3. Cardinality(S) \in Nat
  BY RowsFinite
<1>4. ASSUME NEW k \in 1..Len(s) PROVE s[k] = t[k]
  <2>1. PICK m \in DOMAIN t : t[m] = s[k]
    BY <1>2 DEF ToSet
  <2>2. Cardinality(AheadOf(d, o, S, s[k])) = k - 1 /\ Cardinality(AheadOf(d, o, S, t[m])) = m - 1
    BY <1>2, LinedRanks
  <2>3. k \in Int /\ m \in Int
    BY <1>2, <1>3
  <2>4. k = m
    BY <2>1, <2>2, <2>3
  <2> QED BY <2>1, <2>4
<1> QED BY <1>2, <1>4, SeqEqual

\* Every set of rows is listed.
LEMMA LinedExists ==
  ASSUME NEW d \in Seq(Statuses), NEW o \in ByAny, NEW S \in SUBSET DOMAIN d
  PROVE  Lined(d, o, S) # {}
<1> DEFINE n == Cardinality(S)
           rank == [e \in S |-> Cardinality(AheadOf(d, o, S, e)) + 1]
<1>1. IsFiniteSet(S) /\ n \in Nat /\ DOMAIN d \subseteq Nat
  BY RowsFinite
<1>2. rank \in [S -> 1..n]
  BY <1>1, Ranks
<1>3. \A e, f \in S : Ahead(d, o, e, f) => rank[e] < rank[f]
  BY Ranks
<1>4. \A e, f \in S : e # f => Ahead(d, o, e, f) \/ Ahead(d, o, f, e)
  BY AheadOrders
<1> HIDE DEF rank
<1>5. \A e, f \in S : rank[e] = rank[f] => e = f
  <2>1. \A e \in S : rank[e] \in Int
    BY <1>1, <1>2
  <2> QED BY <1>3, <1>4, <2>1
<1>6. rank \in Injection(S, 1..n)
  BY <1>2, <1>5 DEF Injection, IsInjective
<1>7. IsFiniteSet(1..n) /\ Cardinality(1..n) = n
  BY <1>1, FS_Interval
<1>8. rank \in Surjection(S, 1..n)
  BY <1>1, <1>6, <1>7, FS_Injection
<1> DEFINE s == [k \in 1..n |-> CHOOSE e \in S : rank[e] = k]
<1>9. \A k \in 1..n : s[k] \in S /\ rank[s[k]] = k
  <2>1. \A k \in 1..n : \E e \in S : rank[e] = k
    BY <1>8 DEF Surjection
  <2> QED BY <2>1
<1>10. s \in [1..n -> S] /\ DOMAIN s = 1..n
  BY <1>9
<1> HIDE DEF s
<1>11. \A i, j \in 1..n : i # j => s[i] # s[j]
  BY <1>9
<1>12. s \in SetToSeqs(S)
  BY <1>10, <1>11, Zenon DEF SetToSeqs
<1>13. ASSUME NEW i \in 1..n, NEW j \in 1..n, i < j PROVE Ahead(d, o, s[i], s[j])
  <2>1. s[i] \in S /\ s[j] \in S /\ rank[s[i]] = i /\ rank[s[j]] = j
    BY <1>9
  <2>2. i \in Int /\ j \in Int
    BY <1>1
  <2>3. ~Ahead(d, o, s[j], s[i]) /\ s[i] # s[j]
    BY <1>3, <2>1, <2>2, <1>13
  <2> QED BY <1>4, <2>1, <2>3
<1> QED BY <1>10, <1>12, <1>13 DEF Lined

\* The first rows of more rows are, of the fewer, among the first.
LEMMA FirstOfFewer ==
  ASSUME NEW d \in Seq(Statuses), NEW o \in ByAny, NEW S \in SUBSET DOMAIN d,
         NEW T \in SUBSET S, NEW n \in Nat
  PROVE  T \cap FirstOf(d, o, S, n) \subseteq FirstOf(d, o, T, n)
<1> SUFFICES ASSUME NEW e \in T, e \in FirstOf(d, o, S, n) PROVE e \in FirstOf(d, o, T, n)
  OBVIOUS
<1>1. AheadOf(d, o, T, e) \in SUBSET AheadOf(d, o, S, e) /\ AheadOf(d, o, S, e) \in SUBSET S
  BY DEF AheadOf
<1>2. IsFiniteSet(AheadOf(d, o, S, e)) /\ Cardinality(AheadOf(d, o, S, e)) \in Nat
  BY <1>1, RowsFinite
<1>3. Cardinality(AheadOf(d, o, T, e)) =< Cardinality(AheadOf(d, o, S, e))
      /\ Cardinality(AheadOf(d, o, T, e)) \in Nat
  BY <1>1, <1>2, FS_Subset, FS_CardinalityType
<1>4. Cardinality(AheadOf(d, o, S, e)) < n
  BY DEF FirstOf
<1>5. Cardinality(AheadOf(d, o, T, e)) < n
  BY <1>2, <1>3, <1>4
<1> QED BY <1>5 DEF FirstOf

\* None, fewer and all.
LEMMA FirstOfNumbers ==
  ASSUME NEW d \in Seq(Statuses), NEW o \in ByAny, NEW S \in SUBSET DOMAIN d,
         NEW m \in Nat, NEW n \in Nat
  PROVE  /\ FirstOf(d, o, S, 0) = {}
         /\ Cardinality(S) =< n => FirstOf(d, o, S, n) = S
         /\ m =< n => FirstOf(d, o, S, m) \subseteq FirstOf(d, o, S, n)
<1>1. Cardinality(S) \in Nat
  BY RowsFinite
<1>2. \A e \in S : /\ Cardinality(AheadOf(d, o, S, e)) \in Nat
                   /\ Cardinality(AheadOf(d, o, S, e)) < Cardinality(S)
  BY Ranks
<1> QED BY <1>1, <1>2 DEF FirstOf

\* A slice.
LEMMA SliceIs ==
  ASSUME NEW X, NEW s \in Seq(X), NEW k \in Nat, NEW n \in Nat
  PROVE  /\ Slice(s, k, n) \in Seq(X)
         /\ Len(Slice(s, k, n)) = IF k + n < Len(s) THEN n ELSE IF k < Len(s) THEN Len(s) - k ELSE 0
         /\ \A i \in 1..Len(Slice(s, k, n)) : Slice(s, k, n)[i] = s[k + i] /\ k + i \in 1..Len(s)
<1>1. Len(s) \in Nat /\ \A i \in 1..Len(s) : s[i] \in X
  BY LenProperties, ElementOfSeq
<1> DEFINE last == IF k + n < Len(s) THEN k + n ELSE Len(s)
<1>2. last \in Int /\ k + 1 \in Int /\ last =< Len(s) /\ Len(s) \in Nat
  BY <1>1
<1>3. \A i \in k + 1..last : s[i] \in X
  BY <1>1, <1>2
<1> HIDE DEF last
<1>4. /\ SubSeq(s, k + 1, last) \in Seq(X)
      /\ Len(SubSeq(s, k + 1, last)) = IF k + 1 <= last THEN last - (k + 1) + 1 ELSE 0
      /\ \A i \in 1 .. last - (k + 1) + 1 : SubSeq(s, k + 1, last)[i] = s[(k + 1) + i - 1]
  BY <1>2, <1>3, SubSeqProperties
<1>5. Slice(s, k, n) = SubSeq(s, k + 1, last)
  BY DEF Slice, last
<1>6. Len(Slice(s, k, n)) = IF k + 1 =< last THEN last - k ELSE 0
  BY <1>2, <1>4, <1>5
<1>7. ASSUME NEW i \in 1..Len(Slice(s, k, n))
      PROVE  Slice(s, k, n)[i] = s[k + i] /\ k + i \in 1..Len(s)
  <2>1. i \in 1..last - (k + 1) + 1 /\ (k + 1) + i - 1 = k + i /\ k + i \in 1..Len(s)
    BY <1>2, <1>6, <1>7
  <2> QED BY <1>4, <1>5, <2>1
<1>8. Len(Slice(s, k, n)) = IF k + n < Len(s) THEN n ELSE IF k < Len(s) THEN Len(s) - k ELSE 0
  BY <1>2, <1>6 DEF last
<1> QED BY <1>4, <1>5, <1>7, <1>8

LEMMA Beginning ==
  ASSUME NEW X, NEW s \in Seq(X), NEW n \in Nat
  PROVE  /\ Slice(s, 0, n) \in Seq(X)
         /\ Len(Slice(s, 0, n)) = IF n < Len(s) THEN n ELSE Len(s)
         /\ \A i \in 1..Len(Slice(s, 0, n)) : Slice(s, 0, n)[i] = s[i]
<1>1. Len(s) \in Nat /\ 0 \in Nat
  BY LenProperties
<1> DEFINE z == 0
           b == Slice(s, z, n)
<1>2. z \in Nat
  BY <1>1
<1>9. z = 0
  OBVIOUS
<1> HIDE DEF z
<1>3. /\ b \in Seq(X)
      /\ Len(b) = IF z + n < Len(s) THEN n ELSE IF z < Len(s) THEN Len(s) - z ELSE 0
      /\ \A i \in 1..Len(b) : b[i] = s[z + i]
  BY <1>2, SliceIs
<1> HIDE DEF b
<1>4. /\ Len(b) = IF n < Len(s) THEN n ELSE Len(s)
      /\ \A i \in 1..Len(b) : b[i] = s[i]
  BY <1>1, <1>9, <1>3
<1> QED BY <1>9, <1>3, <1>4, Zenon DEF b

\* The beginning of a list and the slice after it.
LEMMA SliceJoins ==
  ASSUME NEW X, NEW s \in Seq(X), NEW k \in Nat, NEW n \in Nat
  PROVE  Slice(s, 0, k) \o Slice(s, k, n) = Slice(s, 0, k + n)
<1> DEFINE a == Slice(s, 0, k) b == Slice(s, k, n) c == Slice(s, 0, k + n)
<1>1. Len(s) \in Nat /\ k + n \in Nat /\ 0 \in Nat
  BY LenProperties
<1>2. /\ a \in Seq(X) /\ Len(a) = IF k < Len(s) THEN k ELSE Len(s)
      /\ \A i \in 1..Len(a) : a[i] = s[i]
  BY Beginning
<1>3. /\ b \in Seq(X)
      /\ Len(b) = IF k + n < Len(s) THEN n ELSE IF k < Len(s) THEN Len(s) - k ELSE 0
      /\ \A i \in 1..Len(b) : b[i] = s[k + i]
  BY SliceIs
<1>4. /\ c \in Seq(X) /\ Len(c) = IF k + n < Len(s) THEN k + n ELSE Len(s)
      /\ \A i \in 1..Len(c) : c[i] = s[i]
  BY <1>1, Beginning
<1> HIDE DEF a, b, c
<1>5. /\ a \o b \in Seq(X) /\ Len(a \o b) = Len(a) + Len(b)
      /\ \A i \in 1..Len(a) + Len(b) : (a \o b)[i] = IF i =< Len(a) THEN a[i] ELSE b[i - Len(a)]
  BY <1>2, <1>3, ConcatProperties, ZenonT(60)
<1>6. Len(a) \in Nat /\ Len(b) \in Nat /\ Len(a) + Len(b) = Len(c)
  <2> DEFINE la == Len(a) lb == Len(b) lc == Len(c) ls == Len(s)
  <2>1. la = IF k < ls THEN k ELSE ls
    BY <1>2
  <2>2. lb = IF k + n < ls THEN n ELSE IF k < ls THEN ls - k ELSE 0
    BY <1>3
  <2>3. lc = IF k + n < ls THEN k + n ELSE ls
    BY <1>4
  <2>4. ls \in Nat
    BY <1>1
  <2> HIDE DEF la, lb, lc, ls
  <2>5. la \in Nat /\ lb \in Nat /\ la + lb = lc
    BY <2>1, <2>2, <2>3, <2>4
  <2> QED BY <2>5 DEF la, lb, lc
<1>7. ASSUME NEW i \in 1..Len(c) PROVE (a \o b)[i] = c[i]
  <2>1. CASE i =< Len(a)
    BY <1>2, <1>4, <1>5, <1>6, <2>1
  <2>2. CASE Len(a) < i
    <3> DEFINE la == Len(a) lb == Len(b) lc == Len(c) ls == Len(s)
    <3>3. la = IF k < ls THEN k ELSE ls
      BY <1>2
    <3>4. lc = IF k + n < ls THEN k + n ELSE ls
      BY <1>4
    <3>5. ls \in Nat /\ la \in Nat /\ lb \in Nat /\ la + lb = lc /\ i \in 1..lc /\ la < i
      BY <1>1, <1>6, <2>2
    <3> HIDE DEF la, lb, lc, ls
    <3>6. i - la \in 1..lb /\ la = k /\ k + (i - la) = i /\ ~(i =< la) /\ i \in 1..la + lb
      BY <3>3, <3>4, <3>5
    <3>1. /\ i - Len(a) \in 1..Len(b) /\ Len(a) = k /\ k + (i - Len(a)) = i
          /\ ~(i =< Len(a)) /\ i \in 1..Len(a) + Len(b)
      BY <3>6 DEF la, lb
    <3>2. (a \o b)[i] = b[i - Len(a)] /\ b[i - Len(a)] = s[i]
      <4>1. (a \o b)[i] = b[i - Len(a)]
        BY <1>5, <3>1, Zenon
      <4>2. b[i - Len(a)] = s[k + (i - Len(a))]
        BY <1>3, <3>1, Zenon
      <4> QED BY <3>1, <4>1, <4>2, Zenon
    <3> QED BY <1>4, <3>2
  <2> QED BY <1>6, <2>1, <2>2
<1>8. a \o b = c
  BY <1>4, <1>5, <1>6, <1>7, SeqEqual
<1> QED BY <1>8 DEF a, b, c

\* The whole list, none of it, and whether there is any.
LEMMA SliceEnds ==
  ASSUME NEW X, NEW s \in Seq(X), NEW k \in Nat, NEW n \in Nat
  PROVE  /\ Slice(s, 0, 0) = <<>>
         /\ Len(s) =< n => Slice(s, 0, n) = s
         /\ k < Len(s) /\ 0 < n => Slice(s, k, n) # <<>>
<1>1. Len(s) \in Nat
  BY LenProperties
<1>2. Slice(s, 0, 0) = <<>>
  <2>1. Slice(s, 0, 0) \in Seq(X) /\ Len(Slice(s, 0, 0)) = IF 0 < Len(s) THEN 0 ELSE Len(s)
    BY Beginning
  <2>2. Len(Slice(s, 0, 0)) = 0
    BY <1>1, <2>1
  <2> QED BY <2>1, <2>2, EmptySeq
<1>3. ASSUME Len(s) =< n PROVE Slice(s, 0, n) = s
  <2> DEFINE t == Slice(s, 0, n)
  <2>1. /\ t \in Seq(X) /\ Len(t) = IF n < Len(s) THEN n ELSE Len(s)
        /\ \A i \in 1..Len(t) : t[i] = s[i]
    BY Beginning
  <2> HIDE DEF t
  <2>2. Len(t) = Len(s)
    BY <1>1, <1>3, <2>1
  <2>3. t = s
    BY <2>1, <2>2, SeqEqual
  <2> QED BY <2>3 DEF t
<1>4. ASSUME k < Len(s), 0 < n PROVE Slice(s, k, n) # <<>>
  <2> DEFINE t == Slice(s, k, n)
  <2>1. Len(t) = IF k + n < Len(s) THEN n ELSE IF k < Len(s) THEN Len(s) - k ELSE 0
    BY SliceIs
  <2> HIDE DEF t
  <2>2. Len(t) > 0
    BY <1>1, <1>4, <2>1
  <2>3. t # <<>>
    BY <2>2, EmptySeq
  <2> QED BY <2>3 DEF t
<1> QED BY <1>2, <1>3, <1>4

\* A slice of a list holds the rows that come after the first k, up to n of them.
LEMMA SliceHolds ==
  ASSUME NEW d \in Seq(Statuses), NEW o \in ByAny, NEW S \in SUBSET DOMAIN d,
         NEW s \in Lined(d, o, S), NEW k \in Nat, NEW n \in Nat
  PROVE  FirstOf(d, o, S, k + n) \subseteq FirstOf(d, o, S, k) \cup ToSet(Slice(s, k, n))
<1>1. s \in SetToSeqs(S)
  BY DEF Lined
<1>2. s \in Seq(S) /\ ToSet(s) = S /\ Len(s) = Cardinality(S) /\ DOMAIN s = 1..Cardinality(S)
  BY <1>1, SeqOfAll
<1>3. Cardinality(S) \in Nat
  BY RowsFinite
<1> SUFFICES ASSUME NEW e \in FirstOf(d, o, S, k + n), e \notin FirstOf(d, o, S, k)
             PROVE  e \in ToSet(Slice(s, k, n))
  OBVIOUS
<1>4. PICK m \in DOMAIN s : s[m] = e
  BY <1>2 DEF FirstOf, ToSet
<1>5. Cardinality(AheadOf(d, o, S, e)) = m - 1
  BY <1>4, LinedRanks
<1>6. e \in S /\ m - 1 < k + n /\ ~(m - 1 < k)
  BY <1>5 DEF FirstOf
<1>12. s \in Seq(S)
  BY <1>2
<1> DEFINE t == Slice(s, k, n) c == Len(s)
<1>7. /\ t \in Seq(S) /\ Len(t) = IF k + n < c THEN n ELSE IF k < c THEN c - k ELSE 0
      /\ \A i \in 1..Len(t) : t[i] = s[k + i]
  <2>1. /\ Slice(s, k, n) \in Seq(S)
        /\ Len(Slice(s, k, n)) = IF k + n < Len(s) THEN n ELSE IF k < Len(s) THEN Len(s) - k ELSE 0
        /\ \A i \in 1..Len(Slice(s, k, n)) : Slice(s, k, n)[i] = s[k + i] /\ k + i \in 1..Len(s)
    BY <1>12, SliceIs, Zenon
  <2> QED BY <2>1, Zenon
<1>8. c \in Nat /\ m \in 1..c
  BY <1>2, <1>3, <1>4
<1>9. DOMAIN t = 1..Len(t)
  BY <1>7, LenProperties
<1> HIDE DEF t, c
<1>10. m - k \in 1..Len(t) /\ k + (m - k) = m
  BY <1>6, <1>7, <1>8
<1>11. t[m - k] = e
  BY <1>4, <1>7, <1>10
<1> QED BY <1>9, <1>10, <1>11 DEF t, ToSet

\* A sequence that repeats nothing lists its members.
LEMMA SeqOfMembers ==
  ASSUME NEW X, NEW s \in Seq(X), \A i, j \in DOMAIN s : s[i] = s[j] => i = j
  PROVE  s \in SetToSeqs(ToSet(s)) /\ Cardinality(ToSet(s)) = Len(s)
<1>1. Len(s) \in Nat /\ DOMAIN s = 1..Len(s) /\ s \in [1..Len(s) -> ToSet(s)]
  BY LenProperties DEF ToSet
<1>2. s \in Bijection(1..Len(s), ToSet(s))
  BY <1>1 DEF Bijection, Injection, Surjection, IsInjective, ToSet
<1>3. IsFiniteSet(1..Len(s)) /\ Cardinality(1..Len(s)) = Len(s)
  BY <1>1, FS_Interval
<1>4. Cardinality(ToSet(s)) = Len(s)
  BY <1>2, <1>3, FS_Bijection DEF ExistsBijection
<1>5. \A i, j \in 1..Len(s) : i # j => s[i] # s[j]
  BY <1>1
<1> QED BY <1>1, <1>4, <1>5 DEF SetToSeqs

\* The first rows of a list are a list.
LEMMA BeginningIs ==
  ASSUME NEW d \in Seq(Statuses), NEW o \in ByAny, NEW S \in SUBSET DOMAIN d,
         NEW s \in Lined(d, o, S), NEW n \in Nat
  PROVE  LET t == Slice(s, 0, n) IN
         /\ t \in Seq(DOMAIN d) /\ Len(t) =< n /\ ToSet(t) = FirstOf(d, o, S, n)
         /\ t \in Lined(d, o, ToSet(t))
<1> DEFINE t == Slice(s, 0, n)
<1>1. s \in SetToSeqs(S) /\ \A i, j \in DOMAIN s : i < j => Ahead(d, o, s[i], s[j])
  BY DEF Lined
<1>2. /\ s \in Seq(DOMAIN d) /\ Len(s) = Cardinality(S) /\ DOMAIN s = 1..Len(s)
      /\ \A i, j \in DOMAIN s : s[i] = s[j] => i = j
      /\ \A i \in DOMAIN s : s[i] \in S
  BY <1>1, SeqOfAll
<1>3. Cardinality(S) \in Nat
  BY RowsFinite
<1>4. /\ t \in Seq(DOMAIN d) /\ Len(t) = IF n < Len(s) THEN n ELSE Len(s)
      /\ \A i \in 1..Len(t) : t[i] = s[i]
  BY <1>2, Beginning
<1>5. 0 \in Nat /\ FirstOf(d, o, S, 0 + n) \subseteq FirstOf(d, o, S, 0) \cup ToSet(t)
  BY SliceHolds
<1>6. FirstOf(d, o, S, 0) = {} /\ 0 + n = n
  BY FirstOfNumbers
<1> HIDE DEF t
<1>7. DOMAIN t = 1..Len(t) /\ Len(t) \in Nat /\ Len(t) =< n /\ 1..Len(t) \subseteq DOMAIN s
  BY <1>2, <1>3, <1>4, LenProperties
<1>8. ASSUME NEW i \in 1..Len(t) PROVE t[i] \in FirstOf(d, o, S, n)
  <2>1. Cardinality(AheadOf(d, o, S, s[i])) = i - 1
    BY <1>7, LinedRanks
  <2>2. i - 1 < n
    BY <1>7
  <2> QED BY <1>2, <1>4, <1>7, <2>1, <2>2 DEF FirstOf
<1>9. ToSet(t) = FirstOf(d, o, S, n)
  BY <1>5, <1>6, <1>7, <1>8 DEF ToSet
<1>10. \A i, j \in DOMAIN t : t[i] = t[j] => i = j
  BY <1>2, <1>4, <1>7
<1>11. t \in SetToSeqs(ToSet(t))
  BY <1>4, <1>10, SeqOfMembers
<1>12. \A i, j \in DOMAIN t : i < j => Ahead(d, o, t[i], t[j])
  BY <1>1, <1>4, <1>7
<1> QED BY <1>4, <1>7, <1>9, <1>11, <1>12 DEF Lined, t

-----------------------------------------------------------------------------
(* Pages. *)

LEMMA Pages ==
  ASSUME NEW p \in Nat \ {0}, NEW m \in Nat \ {0}
  PROVE  /\ (p - 1) * m \in Nat /\ p * m \in Nat /\ p * m = (p - 1) * m + m
         /\ p = 1 => (p - 1) * m = 0
         /\ \A q \in 1..p : (q - 1) * m =< (p - 1) * m
<1>1. \A a, b \in Nat : a =< b => a * m =< b * m /\ a * m \in Nat
  OBVIOUS
<1>2. p - 1 \in Nat /\ \A q \in 1..p : q - 1 \in Nat /\ q - 1 =< p - 1
  OBVIOUS
<1>3. p * m = (p - 1) * m + m
  OBVIOUS
<1> QED BY <1>1, <1>2, <1>3

LEMMA PageCountIs ==
  ASSUME NEW n \in Nat, NEW m \in Nat \ {0}
  PROVE  LET q == pageCount(n, m) IN
         /\ q \in Nat \ {0} /\ n =< q * m
         /\ q > 1 => (q - 1) * m < n
<1>1. CASE n = 0
  BY <1>1 DEF pageCount
<1>2. CASE n # 0
  <2> DEFINE a == n + m - 1
             q == a \div m
  <2>1. a \in Nat /\ a >= m
    BY <1>2
  <2>2. pageCount(n, m) = q
    BY <1>2 DEF pageCount, ceilDiv
  <2> HIDE DEF a
  <2>3. q \in Nat /\ q * m =< a /\ a < q * m + m
    BY <2>1
  <2> HIDE DEF q
  <2>4. q # 0
    BY <2>1, <2>3
  <2>5. (q - 1) * m = q * m - m
    BY <2>3
  <2> QED BY <2>1, <2>2, <2>3, <2>4, <2>5 DEF a
<1> QED BY <1>1, <1>2

-----------------------------------------------------------------------------
(* Lists as the database and the browser sort them. *)

LEMMA KeyIsKeyIn == \A o, i : Key(o, i) = KeyIn(db, o, i)
BY DEF Key, KeyIn

LEMMA LinedSorted ==
  ASSUME db \in Seq(Statuses), NEW o \in ByAny, NEW S \in SUBSET DOMAIN db,
         NEW s \in Lined(db, o, S)
  PROVE  Sorted(o, s)
<1>1. s \in SetToSeqs(S) /\ \A i, j \in DOMAIN s : i < j => Ahead(db, o, s[i], s[j])
  BY DEF Lined
<1>2. \A i \in DOMAIN s : s[i] \in S
  BY <1>1, SeqOfAll
<1>3. \A i \in S : KeyIn(db, o, i) \in Nat
  BY RowsFinite DEF KeyIn
<1>4. \A i, j \in S : Ahead(db, o, i, j) => InOrder(o, i, j)
  BY <1>3, KeyIsKeyIn DEF Ahead, InOrder
<1> QED BY <1>1, <1>2, <1>4 DEF Sorted

\* By age no two rows have the same key, and the list is the one there is.
LEMMA OrdersAreLined ==
  ASSUME db \in Seq(Statuses), NEW o \in ByAny, NEW S \in SUBSET DOMAIN db,
         o.by = "createdAt"
  PROVE  Orders(o, S) = Lined(db, o, S)
<1>1. Lined(db, o, S) \subseteq Orders(o, S)
  BY LinedSorted DEF Orders, Lined
<1>2. ASSUME NEW s \in Orders(o, S) PROVE s \in Lined(db, o, S)
  <2>1. s \in SetToSeqs(S) /\ \A i, j \in DOMAIN s : i < j => InOrder(o, s[i], s[j])
    BY DEF Orders, Sorted
  <2>2. /\ \A i \in DOMAIN s : s[i] \in S /\ i \in Nat
        /\ \A i, j \in DOMAIN s : s[i] = s[j] => i = j
    BY <2>1, SeqOfAll, RowsFinite
  <2>3. \A i \in S : Key(o, i) = i /\ KeyIn(db, o, i) = i /\ i \in Nat
    BY RowsFinite DEF Key, KeyIn
  <2>4. \A i, j \in S : i # j /\ InOrder(o, i, j) => Ahead(db, o, i, j)
    BY <2>3 DEF InOrder, Ahead, ByAny
  <2>5. \A i, j \in DOMAIN s : i < j => s[i] # s[j]
    BY <2>2
  <2> QED BY <2>1, <2>2, <2>4, <2>5 DEF Lined
<1> QED BY <1>1, <1>2

\* A batch in the browser has the newest row first.
LEMMA NewestFirst ==
  ASSUME db \in Seq(Statuses), NEW S \in SUBSET DOMAIN db, NEW s \in Lined(db, newestFirst, S),
         NEW i \in S, NEW j \in S
  PROVE  Position(s, i) < Position(s, j) <=> j < i
<1>1. newestFirst \in ByAny /\ newestFirst.by = "createdAt" /\ newestFirst.order = "desc"
  BY DEF newestFirst, ByAny
<1>2. s \in SetToSeqs(S) /\ \A x, y \in DOMAIN s : x < y => Ahead(db, newestFirst, s[x], s[y])
  BY DEF Lined
<1>3. ToSet(s) = S /\ DOMAIN s = 1..Cardinality(S) /\ Cardinality(S) \in Nat
  BY <1>2, SeqOfAll, RowsFinite
<1>4. \A e \in S : Position(s, e) \in DOMAIN s /\ s[Position(s, e)] = e
  <2>1. \A e \in S : \E x \in DOMAIN s : s[x] = e
    BY <1>3 DEF ToSet
  <2> QED BY <2>1 DEF Position
<1>5. i \in Nat /\ j \in Nat
  BY RowsFinite
<1>6. \A x, y \in S : Ahead(db, newestFirst, x, y) => y < x
  BY <1>1, RowsFinite DEF Ahead, KeyIn
<1> DEFINE a == Position(s, i) b == Position(s, j)
<1>7. a \in Int /\ b \in Int /\ s[a] = i /\ s[b] = j /\ (a < b => j < i) /\ (b < a => i < j)
  <2>1. a \in DOMAIN s /\ b \in DOMAIN s /\ s[a] = i /\ s[b] = j
    BY <1>4
  <2>2. a < b => Ahead(db, newestFirst, i, j)
    BY <1>2, <2>1
  <2>3. b < a => Ahead(db, newestFirst, j, i)
    BY <1>2, <2>1
  <2>4. a \in Int /\ b \in Int
    BY <1>3, <2>1
  <2> QED BY <1>6, <2>1, <2>2, <2>3, <2>4
<1> HIDE DEF a, b
<1>8. a < b <=> j < i
  BY <1>5, <1>7
<1> QED BY <1>8 DEF a, b

\* A page of a batch in the browser is a slice of its list.
LEMMA PaginateIs ==
  ASSUME db \in Seq(Statuses), NEW batch, ToSet(batch) \in SUBSET DOMAIN db,
         batch \in Lined(db, newestFirst, ToSet(batch)), table.sort \in ByAny,
         NEW s \in Lined(db, table.sort, ToSet(batch))
  PROVE  paginate(batch) = [items |-> Slice(s, (table.page - 1) * table.limit, table.limit),
                            pages |-> pageCount(Len(batch), table.limit)]
<1> DEFINE S == ToSet(batch)
           stable(t) == \A i, j \in DOMAIN t : i < j =>
                          /\ InOrder(table.sort, t[i], t[j])
                          /\ InOrder(table.sort, t[j], t[i]) =>
                               Position(batch, t[i]) < Position(batch, t[j])
           sorted == CHOOSE t \in SetToSeqs(S) : stable(t)
<1>1. \A i, j \in S : Position(batch, i) < Position(batch, j) <=> j < i
  BY NewestFirst
<1>2. \A i \in S : KeyIn(db, table.sort, i) \in Nat /\ i \in Nat
  BY RowsFinite DEF KeyIn
<1>3. \A i, j \in S : i # j =>
        (Ahead(db, table.sort, i, j) <=>
           /\ InOrder(table.sort, i, j)
           /\ InOrder(table.sort, j, i) => Position(batch, i) < Position(batch, j))
  BY <1>1, <1>2, KeyIsKeyIn DEF Ahead, InOrder
<1>4. ASSUME NEW t \in SetToSeqs(S) PROVE stable(t) <=> t \in Lined(db, table.sort, S)
  <2>1. /\ \A i \in DOMAIN t : t[i] \in S /\ i \in Nat
        /\ \A i, j \in DOMAIN t : t[i] = t[j] => i = j
    BY SeqOfAll, RowsFinite
  <2>2. \A i, j \in DOMAIN t : i < j => t[i] \in S /\ t[j] \in S /\ t[i] # t[j]
    BY <2>1
  <2> QED BY <1>3, <2>2 DEF Lined
<1> HIDE DEF stable
<1>5. s \in SetToSeqs(S) /\ stable(s)
  BY <1>4 DEF Lined
<1>6. sorted \in SetToSeqs(S) /\ stable(sorted)
  BY <1>5
<1>7. sorted \in Lined(db, table.sort, S)
  BY <1>4, <1>6
<1>8. sorted = s
  BY <1>7, LinedOnce
<1>9. paginate(batch) = [items |-> Slice(sorted, (table.page - 1) * table.limit, table.limit),
                         pages |-> pageCount(Len(batch), table.limit)]
  BY Zenon DEF paginate, stable, sorted
<1> QED BY <1>8, <1>9, Zenon

\* Keys that stay keep the order.
LEMMA SameOrder ==
  ASSUME NEW d, NEW e, NEW o, NEW S, \A i \in S : KeyIn(d, o, i) = KeyIn(e, o, i)
  PROVE  \A i, j \in S : Ahead(d, o, i, j) <=> Ahead(e, o, i, j)
BY DEF Ahead

LEMMA SameLists ==
  ASSUME NEW d \in Seq(Statuses), NEW e \in Seq(Statuses), NEW o \in ByAny,
         NEW S \in SUBSET DOMAIN d, DOMAIN d \subseteq DOMAIN e,
         o.by = "createdAt" \/ \A i \in S : d[i] = e[i]
  PROVE  /\ \A n : FirstOf(d, o, S, n) = FirstOf(e, o, S, n)
         /\ Lined(d, o, S) = Lined(e, o, S)
<1>1. \A i \in S : KeyIn(d, o, i) = KeyIn(e, o, i)
  BY DEF KeyIn
<1>2. \A i, j \in S : Ahead(d, o, i, j) <=> Ahead(e, o, i, j)
  BY <1>1, SameOrder
<1>3. \A s \in SetToSeqs(S) : \A i \in DOMAIN s : s[i] \in S
  BY SeqOfAll
<1>4. Lined(d, o, S) = Lined(e, o, S)
  BY <1>2, <1>3 DEF Lined
<1>5. \A i \in S : AheadOf(d, o, S, i) = AheadOf(e, o, S, i)
  BY <1>2 DEF AheadOf
<1>6. \A n : FirstOf(d, o, S, n) = FirstOf(e, o, S, n)
  BY <1>5 DEF FirstOf
<1> QED BY <1>4, <1>6

LEMMA NewestIsByAge == newestFirst \in ByAny /\ newestFirst.by = "createdAt"
BY DEF newestFirst, ByAny

LEMMA VisibleIs ==
  ASSUME db \in Seq(Statuses), before \subseteq DOMAIN db
  PROVE  Visible = IF listing.reads = "first" /\ listing.pages = "browser"
                   THEN FirstOf(db, newestFirst, before, Cap) ELSE before
<1>1. \A i \in before : AheadOf(db, newestFirst, before, i) = {j \in before : j > i}
  <2>1. \A i \in before : i \in Nat
    BY RowsFinite
  <2>2. \A i, j \in before : Ahead(db, newestFirst, j, i) <=> i < j
    BY <2>1 DEF Ahead, KeyIn, newestFirst
  <2> QED BY <2>1, <2>2 DEF AheadOf
<1> QED BY <1>1 DEF Visible, FirstOf

LEMMA MatchingRows == Matching(table.filter) \in SUBSET DOMAIN db
BY DEF Matching

\* What a read of the rows returns.
LEMMA ReadsAre ==
  ASSUME ListTypes, NEW rows \in Reads
  PROVE  /\ rows \in Seq(DOMAIN db)
         /\ listing.pages = "browser" =>
              /\ rows \in Lined(db, newestFirst, ToSet(rows))
              /\ IF listing.reads = "first"
                 THEN Len(rows) =< Cap
                      /\ ToSet(rows) = FirstOf(db, newestFirst, Matching(table.filter), Cap)
                 ELSE ToSet(rows) = Matching(table.filter)
         /\ listing.pages # "browser" =>
              \E s \in Orders(table.sort, Matching(table.filter)) :
                rows = Slice(s, (table.page - 1) * table.limit,
                             IF listing.pages = "overfetch" THEN table.limit + 1 ELSE table.limit)
<1> DEFINE M == Matching(table.filter)
<1>1. /\ db \in Seq(Statuses) /\ M \in SUBSET DOMAIN db /\ table.sort \in ByAny
      /\ table.page \in Nat \ {0} /\ table.limit \in Nat \ {0} /\ Cap \in Nat
  BY ListingAssumption, MatchingRows DEF ListTypes
<1>2. Orders(newestFirst, M) = Lined(db, newestFirst, M)
  BY <1>1, NewestIsByAge, OrdersAreLined
<1>3. CASE listing.pages = "browser"
  <2>1. CASE listing.reads = "first"
    <3>2. Reads = {Slice(s, 0, Cap) : s \in Orders(newestFirst, M)}
      BY <1>3, <2>1 DEF Reads
    <3>1. PICK s \in Lined(db, newestFirst, M) : rows = Slice(s, 0, Cap)
      BY <1>2, <3>2
    <3> QED BY <1>1, <1>3, <2>1, <3>1, NewestIsByAge, BeginningIs
  <2>2. CASE listing.reads # "first"
    <3>1. rows \in Lined(db, newestFirst, M)
      BY <1>2, <1>3, <2>2 DEF Reads
    <3>2. rows \in SetToSeqs(M)
      BY <3>1 DEF Lined
    <3>3. rows \in Seq(DOMAIN db) /\ ToSet(rows) = M
      BY <1>1, <3>2, SeqOfAll
    <3> QED BY <1>3, <2>2, <3>1, <3>3
  <2> QED BY <2>1, <2>2
<1>4. CASE listing.pages # "browser"
  <2> DEFINE take == IF listing.pages = "overfetch" THEN table.limit + 1 ELSE table.limit
             skip == (table.page - 1) * table.limit
  <2>1. PICK s \in Orders(table.sort, M) : rows = Slice(s, skip, take)
    BY <1>4 DEF Reads
  <2>2. s \in SetToSeqs(M)
    BY DEF Orders
  <2>3. s \in Seq(DOMAIN db)
    BY <1>1, <2>2, SeqOfAll
  <2>4. skip \in Nat /\ take \in Nat
    BY <1>1, Pages
  <2> HIDE DEF skip, take
  <2>5. rows \in Seq(DOMAIN db)
    BY <2>1, <2>3, <2>4, SliceIs
  <2> QED BY <1>4, <2>1, <2>5 DEF skip, take
<1> QED BY <1>3, <1>4

-----------------------------------------------------------------------------
(* The tables. *)

LEMMA TablesPaged == \A l \in Tables : ListShape(l)
<1> USE DEF ListShape, Table, ByAny, ByAge, newestFirst, Finder, Guarded, InMemory, InBrowser, Overfetching
<1>1. ListShape(MembersTable) /\ ListShape(ApiKeysView) /\ ListShape(TunnelsView)
      /\ ListShape(useTunnelRequests)
  BY DEF MembersTable, useMembersTableList, memberColumns, GET_members, GetAccountMembersUseCase,
         membership_findAllByAccount, ApiKeysView, useApiKeysTableList, apiKeyColumns, GET_apiKeys,
         ListApiKeysUseCase, apiKey_findAllByAccount, TunnelsView, useTunnelHistoryTableList,
         historyColumns, GET_tunnels_history, useTunnelRequests, GET_tunnels_requests
<1>2. ListShape(ActiveTunnelsCard) /\ ListShape(FeedbackHistoryTab) /\ ListShape(AdminFeedbackTable)
  BY DEF ActiveTunnelsCard, useActiveTunnels, GET_tunnels, tunnelSession_findConnectedByAccount,
         FeedbackHistoryTab, useMyFeedbackTableList, feedbackColumns, GET_feedback_my,
         GetMyFeedbackUseCase, feedback_findByUserId, AdminFeedbackTable, useAdminFeedbackTableList,
         adminFeedbackColumns, GET_admin_feedback, AdminListFeedbackUseCase, feedback_findAll
<1>3. ListShape(InvitationsTab) /\ ListShape(MyAccountsTable) /\ ListShape(AuditLogView)
  BY DEF InvitationsTab, useInvitationsTableList, invitationColumns, GET_invitations,
         MyAccountsTable, useMyAccountsTableList, myAccountColumns, GET_me_accounts,
         AuditLogView, useAdminAuditLogList, GET_audit_logs, auditLog_findAll
<1>4. ListShape(AdminUsersTable) /\ ListShape(AdminRolesTable) /\ ListShape(AdminAbilitiesTable)
  BY DEF AdminUsersTable, useAdminUsersTableList, adminUserColumns, GET_admin_users, adminUser_findAll,
         AdminRolesTable, useAdminRolesTableList, adminRoleColumns, GET_admin_roles, adminRole_findAll,
         AdminAbilitiesTable, useAdminAbilitiesTableList, adminAbilityColumns, GET_admin_abilities,
         adminAbility_findAll
<1> QED BY <1>1, <1>2, <1>3, <1>4 DEF Tables

\* A walk that begins.
WalkStarts ==
  /\ ListTypes
  /\ shown = Blank /\ walk = <<>> /\ changed = {} /\ table.page = 1
  /\ IF pageFetch = Idle THEN before = Matching(table.filter)
     ELSE /\ listing.pages = "browser" /\ pageFetch.read
          /\ pageFetch.rows \in Lined(db, newestFirst, ToSet(pageFetch.rows))
          /\ listing.reads = "first" => Len(pageFetch.rows) =< Cap
          /\ before = ToSet(pageFetch.rows)

LEMMA RowsInDb ==
  ASSUME ListTypes
  PROVE  /\ ToSet(pageFetch.rows) \in SUBSET DOMAIN db
         /\ Matching(table.filter) \in SUBSET DOMAIN db
         /\ Base \in SUBSET DOMAIN db
         /\ IsFiniteSet(Base) /\ RowCount \in Nat
<1>1. pageFetch.rows \in Seq(DOMAIN db) /\ db \in Seq(Statuses)
  BY DEF ListTypes
<1>2. ToSet(pageFetch.rows) \in SUBSET DOMAIN db
  BY <1>1, LenProperties, ElementOfSeq DEF ToSet
<1>3. Matching(table.filter) \in SUBSET DOMAIN db
  BY MatchingRows
<1>4. Base \in SUBSET DOMAIN db
  BY <1>2, <1>3 DEF Base
<1> QED BY <1>1, <1>2, <1>3, <1>4, RowsFinite DEF RowCount

LEMMA Started == WalkStarts => ListInv
<1> SUFFICES ASSUME WalkStarts PROVE ListInv
  OBVIOUS
<1> USE DEF WalkStarts
<1>1. ListTypes
  OBVIOUS
<1>2. /\ db \in Seq(Statuses) /\ table.sort \in ByAny /\ table.limit \in Nat /\ Base \in SUBSET DOMAIN db
      /\ before \subseteq DOMAIN db /\ RowCount \in Nat
  BY <1>1, RowsInDb, ListingAssumption DEF ListTypes
<1>11. (1 - 1) * table.limit = 0
  BY <1>2
<1>3. Paged * table.limit = 0
  BY <1>11 DEF Paged
<1>4. pageFetch = Idle => ~pageFetch.read /\ ~pageFetch.counted
  BY DEF Idle
<1>5. FetchInv
  BY <1>4 DEF FetchInv, Base
<1>6. listing.pages = "browser" /\ pageFetch.read => Visible = Base
  <2> SUFFICES ASSUME listing.pages = "browser", pageFetch.read PROVE Visible = Base
    OBVIOUS
  <2>1. before = Base
    BY <1>4 DEF Base
  <2>2. pageFetch.rows \in SetToSeqs(Base)
    BY <1>4 DEF Lined, Base
  <2>3. Len(pageFetch.rows) = Cardinality(Base)
    BY <1>2, <2>2, SeqOfAll
  <2>4. listing.reads = "first" => FirstOf(db, newestFirst, Base, Cap) = Base
    BY <1>2, <1>4, <2>3, NewestIsByAge, ListingAssumption, FirstOfNumbers
  <2> QED BY <1>2, <2>1, <2>4, VisibleIs
<1>7. BeforeInv
  BY <1>4, <1>6 DEF BeforeInv, Base
<1>8. PageInv
  BY <1>4 DEF PageInv
<1>9. QuietInv
  <2>1. \A s \in Lined(db, table.sort, Base) : Slice(s, 0, 0) = <<>>
    <3> SUFFICES ASSUME NEW s \in Lined(db, table.sort, Base) PROVE Slice(s, 0, 0) = <<>>
      OBVIOUS
    <3>1. s \in SetToSeqs(Base)
      BY DEF Lined
    <3>2. s \in Seq(Nat)
      BY <1>2, <3>1, SeqOfAll
    <3> QED BY <3>2, SliceEnds
  <2> QED BY <1>3, <1>4, <2>1 DEF QuietInv
<1>10. GrowInv
  <2>1. FirstOf(db, table.sort, Base, 0) = {}
    BY <1>2, FirstOfNumbers
  <2> QED BY <1>3, <1>4, <2>1 DEF GrowInv
<1> QED BY <1>1, <1>5, <1>7, <1>8, <1>9, <1>10 DEF ListInv

LEMMA ListStarts == ASSUME Listings \subseteq Tables PROVE ListInit => ListInv
<1> SUFFICES ASSUME ListInit PROVE WalkStarts
  BY Started
<1> USE DEF ListInit
<1>1. ListShape(listing)
  BY TablesPaged
<1>2. db \in Seq(Statuses)
  <2>1. PICK n \in 0..MaxRows - 1 : db \in [1..n -> Statuses]
    OBVIOUS
  <2>2. n \in Nat
    BY ListingAssumption
  <2> QED BY <2>1, <2>2
<1>3. table \in [page : Nat \ {0}, limit : Limits, filter : {"all", "open"}, sort : ByAny]
      /\ table.page = 1
  BY <1>1 DEF ListShape
<1>4. pageFetch \in [rows : Seq(DOMAIN db), read : BOOLEAN, total : Nat, counted : BOOLEAN]
  BY DEF Idle
<1>5. shown \in [items : Seq(Nat), pages : Nat] /\ walk \in Seq(Nat)
  BY DEF Blank
<1>6. before \subseteq DOMAIN db
  BY MatchingRows
<1> QED BY <1>1, <1>2, <1>3, <1>4, <1>5, <1>6 DEF ListTypes, WalkStarts

\* What a walk that starts over starts from.
LEMMA StartsOver ==
  ASSUME ListInv, TableStep, StartWalk,
         table' \in [page : {1}, limit : Limits, filter : {"all", "open"}, sort : ByAny],
         \/ pageFetch' = Idle
         \/ pageFetch' = pageFetch /\ table'.filter = table.filter
  PROVE  ListInv'
<1>1. shown' = Blank /\ listing' = listing /\ db' = db /\ shown # Blank
      /\ walk' = <<>> /\ changed' = {} /\ table'.page = 1
      /\ before' = IF pageFetch'.read THEN ToSet(pageFetch'.rows) ELSE Matching(table.filter)'
  BY DEF TableStep, StartWalk, Matching
<1>2. ListTypes /\ FetchInv /\ ToSet(pageFetch.rows) \subseteq DOMAIN db
  BY RowsInDb DEF ListInv
<1>3. pageFetch' = Idle \/ (pageFetch' = pageFetch /\ listing.pages = "browser" /\ pageFetch.read)
  BY <1>1, <1>2 DEF FetchInv
<1>4. Idle.read = FALSE /\ Idle \in [rows : Seq(DOMAIN db), read : BOOLEAN, total : Nat, counted : BOOLEAN]
  BY DEF Idle
<1>5. Matching(table.filter)' \subseteq DOMAIN db'
  BY DEF Matching
<1>6. before' \subseteq DOMAIN db'
  BY <1>1, <1>2, <1>3, <1>4, <1>5
<1>7. ListTypes'
  BY <1>1, <1>2, <1>3, <1>4, <1>6 DEF ListTypes, Blank
<1>8. IF pageFetch' = Idle THEN before' = Matching(table.filter)'
      ELSE /\ listing'.pages = "browser" /\ pageFetch'.read
           /\ pageFetch'.rows \in Lined(db', newestFirst, ToSet(pageFetch'.rows))
           /\ listing'.reads = "first" => Len(pageFetch'.rows) =< Cap
           /\ before' = ToSet(pageFetch'.rows)
  BY <1>1, <1>2, <1>3, <1>4 DEF FetchInv, Base
<1>9. WalkStarts'
  BY <1>1, <1>7, <1>8 DEF WalkStarts
<1> QED BY <1>9, Started, PTL

\* The table turned to a later page, or the same page sorted in another way.
LEMMA TurnsKeep ==
  ASSUME ListInv, TableStep, UNCHANGED <<pageFetch, before, changed>>,
         table' \in [page : Nat \ {0}, limit : {table.limit}, filter : {table.filter}, sort : ByAny],
         Grown => (table'.page - 1) * table.limit < RowCount,
         \/ walk' = Broken
         \/ walk' = walk /\ table'.page = table.page + 1 /\ table'.sort = table.sort
  PROVE  ListInv'
<1>1. /\ shown' = Blank /\ listing' = listing /\ db' = db /\ shown # Blank
      /\ pageFetch' = pageFetch /\ before' = before /\ changed' = changed
      /\ table'.limit = table.limit /\ table'.filter = table.filter
  BY DEF TableStep
<1>2. ListTypes /\ FetchInv /\ BeforeInv /\ QuietInv /\ GrowInv
  BY DEF ListInv
<1>3. /\ Base' = Base /\ RowCount' = RowCount /\ (Grown <=> Grown') /\ (Loaded <=> Loaded')
      /\ Matching(table.filter)' = Matching(table.filter)
  BY <1>1 DEF Base, RowCount, Grown, Loaded, Matching
<1>4. listing.pages # "browser" => ~pageFetch.read /\ ~pageFetch.counted
  BY <1>1, <1>2 DEF FetchInv, Idle
<1>5. table.page \in Nat \ {0} /\ table.limit \in Limits /\ table'.page \in Nat \ {0}
  BY <1>2 DEF ListTypes
<1>6. ListTypes'
  <2>1. table' \in [page : Nat \ {0}, limit : Limits, filter : {"all", "open"}, sort : ByAny]
    BY <1>2, <1>5 DEF ListTypes
  <2>2. walk' \in Seq(Nat)
    <3>1. Broken \in Seq(Nat)
      BY DEF Broken
    <3>2. walk \in Seq(Nat) /\ (walk' = Broken \/ walk' = walk)
      BY <1>2 DEF ListTypes
    <3> QED BY <3>1, <3>2
  <2>3. shown' \in [items : Seq(Nat), pages : Nat]
    BY <1>1 DEF Blank
  <2> QED BY <1>1, <1>2, <2>1, <2>2, <2>3 DEF ListTypes
<1>7. FetchInv'
  BY <1>1, <1>2, <1>3 DEF FetchInv
<1>8. BeforeInv'
  BY <1>1, <1>2, <1>3 DEF BeforeInv, Visible
<1>9. PageInv'
  BY <1>1, <1>3, <1>4 DEF PageInv
<1>10. ASSUME walk' # Broken PROVE Paged' = Paged /\ (Tied <=> Tied')
  BY <1>1, <1>5, <1>10 DEF Paged, Tied
<1>11. QuietInv'
  BY <1>1, <1>2, <1>3, <1>4, <1>10 DEF QuietInv
<1>12. GrowInv'
  BY <1>1, <1>2, <1>3, <1>4, <1>10 DEF GrowInv
<1> QED BY <1>6, <1>7, <1>8, <1>9, <1>11, <1>12 DEF ListInv

LEMMA SetPageKeeps == ListInv /\ setPage => ListInv'
<1> SUFFICES ASSUME ListInv, setPage PROVE ListInv'
  OBVIOUS
<1>1. TableStep /\ UNCHANGED pageFetch /\ shown # Blank
  BY DEF setPage, TableStep
<1>2. PICK p \in 1..shown.pages :
        /\ p # table.page /\ table' = [table EXCEPT !.page = p]
        /\ CASE p = 1 -> StartWalk
             [] p = table.page + 1 -> UNCHANGED <<walk, before, changed>>
             [] OTHER -> walk' = Broken /\ UNCHANGED <<before, changed>>
  BY DEF setPage
<1>3. ListTypes /\ FetchInv /\ PageInv
  BY DEF ListInv
<1>4. /\ table \in [page : Nat \ {0}, limit : Limits, filter : {"all", "open"}, sort : ByAny]
      /\ shown.pages \in Nat \ {0} /\ Limits \subseteq Nat \ {0} /\ RowCount \in Nat
  BY <1>1, <1>3, RowsInDb, ListingAssumption DEF ListTypes, FetchInv
<1>5. CASE p = 1
  <2>1. table' \in [page : {1}, limit : Limits, filter : {"all", "open"}, sort : ByAny]
        /\ table'.filter = table.filter /\ StartWalk
    BY <1>2, <1>4, <1>5
  <2> QED BY <1>1, <2>1, StartsOver
<1>6. CASE p # 1
  <2>1. /\ table' \in [page : Nat \ {0}, limit : {table.limit}, filter : {table.filter}, sort : ByAny]
        /\ table'.page = p /\ table'.sort = table.sort
    BY <1>2, <1>4
  <2>2. /\ UNCHANGED <<before, changed>>
        /\ walk' = Broken \/ (walk' = walk /\ p = table.page + 1)
    BY <1>2, <1>4, <1>6
  <2>3. ASSUME Grown PROVE (p - 1) * table.limit < RowCount
    <3>1. (p - 1) * table.limit =< (shown.pages - 1) * table.limit
      BY <1>4, Pages
    <3>2. shown.pages > 1
      BY <1>4, <1>6
    <3>3. (shown.pages - 1) * table.limit < RowCount
      BY <1>1, <1>3, <2>3, <3>2 DEF PageInv
    <3>4. (p - 1) * table.limit \in Nat /\ (shown.pages - 1) * table.limit \in Nat
      <4>1. p \in Nat \ {0}
        BY <1>4
      <4>2. table.limit \in Nat \ {0}
        BY <1>4
      <4> QED BY <1>4, <4>1, <4>2, Pages
    <3> QED BY <1>4, <3>1, <3>3, <3>4
  <2> QED BY <1>1, <2>1, <2>2, <2>3, TurnsKeep
<1> QED BY <1>5, <1>6

LEMMA SetSortingKeeps == ListInv /\ setSorting => ListInv'
<1> SUFFICES ASSUME ListInv, setSorting PROVE ListInv'
  OBVIOUS
<1>1. TableStep /\ UNCHANGED pageFetch
  BY DEF setSorting
<1>2. PICK s \in listing.sorts : table' = [table EXCEPT !.sort = s]
  BY DEF setSorting
<1>3. ListTypes /\ PageInv
  BY DEF ListInv
<1>4. /\ table \in [page : Nat \ {0}, limit : Limits, filter : {"all", "open"}, sort : ByAny]
      /\ s \in ByAny
  BY <1>3 DEF ListTypes, ListShape
<1>5. CASE table.page = 1
  <2>1. table' \in [page : {1}, limit : Limits, filter : {"all", "open"}, sort : ByAny]
        /\ table'.filter = table.filter /\ StartWalk
    BY <1>2, <1>4, <1>5 DEF setSorting
  <2> QED BY <1>1, <2>1, StartsOver
<1>6. CASE table.page # 1
  <2>1. /\ table' \in [page : Nat \ {0}, limit : {table.limit}, filter : {table.filter}, sort : ByAny]
        /\ table'.page = table.page
    BY <1>2, <1>4
  <2>2. UNCHANGED <<before, changed>> /\ walk' = Broken
    BY <1>6 DEF setSorting
  <2>3. Grown => (table'.page - 1) * table.limit < RowCount
    <3>1. table.page > 1
      BY <1>4, <1>6
    <3> QED BY <1>3, <2>1, <3>1 DEF PageInv
  <2> QED BY <1>1, <2>1, <2>2, <2>3, TurnsKeep
<1> QED BY <1>5, <1>6

\* The least of some page sizes is one of them.
LEMMA LeastLimit == ASSUME Limits # {} PROVE Min(Limits) \in Limits
<1>1. Limits \subseteq Nat
  BY ListingAssumption
<1>2. PICK x \in Limits : \A y \in Limits : ~(<<y, x>> \in OpToRel(<, Nat))
  BY <1>1, NatLessThanWellFounded, WFMin
<1>3. OpToRel(<, Nat) = {ss \in Nat \X Nat : ss[1] < ss[2]}
  BY Zenon DEF OpToRel
<1>4. ASSUME NEW y \in Limits PROVE x =< y
  <2>1. x \in Nat /\ y \in Nat
    BY <1>1
  <2>2. ASSUME y < x PROVE FALSE
    <3>1. <<y, x>> \in OpToRel(<, Nat)
      BY <1>3, <2>1, <2>2
    <3> QED BY <1>2, <3>1, Zenon
  <2> QED BY <2>1, <2>2
<1> QED BY <1>4 DEF Min

LEMMA StartingOverKeeps == ListInv /\ (setLimit \/ setFilters \/ reset) => ListInv'
<1> SUFFICES ASSUME ListInv, setLimit \/ setFilters \/ reset PROVE ListInv'
  OBVIOUS
<1>1. table \in [page : Nat \ {0}, limit : Limits, filter : {"all", "open"}, sort : ByAny]
  BY DEF ListInv, ListTypes
<1>2. TableStep /\ StartWalk
  BY DEF setLimit, setFilters, reset
<1>3. CASE setLimit
  <2>1. table' \in [page : {1}, limit : Limits, filter : {"all", "open"}, sort : ByAny]
        /\ table'.filter = table.filter /\ pageFetch' = pageFetch
    BY <1>1, <1>3 DEF setLimit, withLimit
  <2> QED BY <1>2, <2>1, StartsOver
<1>4. CASE setFilters
  <2>1. table' \in [page : {1}, limit : Limits, filter : {"all", "open"}, sort : ByAny]
        /\ pageFetch' = Idle
    BY <1>1, <1>4 DEF setFilters, withFilters
  <2> QED BY <1>2, <2>1, StartsOver
<1>5. CASE reset
  <2>1. Min(Limits) \in Limits
    BY <1>1, LeastLimit
  <2>2. table' \in [page : {1}, limit : Limits, filter : {"all", "open"}, sort : ByAny]
        /\ table'.filter = "all"
    BY <1>5, <2>1, NewestIsByAge DEF reset
  <2>3. pageFetch' = Idle \/ (pageFetch' = pageFetch /\ table'.filter = table.filter)
    BY <1>5, <2>2 DEF reset
  <2> QED BY <1>2, <2>2, <2>3, StartsOver
<1> QED BY <1>3, <1>4, <1>5

-----------------------------------------------------------------------------
(* Rows come and change. *)

LEMMA ClosedRowKeeps == ListInv /\ CloseRow => ListInv'
<1> SUFFICES ASSUME ListInv, CloseRow PROVE ListInv'
  OBVIOUS
<1>1. ListTypes /\ FetchInv /\ ToSet(pageFetch.rows) \in SUBSET DOMAIN db
  BY RowsInDb DEF ListInv
<1>2. PICK i \in DOMAIN db : db' = [db EXCEPT ![i] = "closed"]
  BY DEF CloseRow
<1>3. changed' = changed \cup {"closed"} /\ UNCHANGED <<listing, table, pageFetch, shown, walk, before>>
  BY DEF CloseRow, Change
<1>4. db' \in Seq(Statuses) /\ DOMAIN db' = DOMAIN db
  <2>1. Len(db) \in Nat /\ db \in [1..Len(db) -> Statuses] /\ DOMAIN db = 1..Len(db)
    BY <1>1, LenProperties DEF ListTypes
  <2>2. db' \in [1..Len(db) -> Statuses]
    BY <1>2, <2>1 DEF Statuses
  <2> QED BY <2>1, <2>2
<1>5. ~Grown' /\ changed' # {}
  BY <1>3 DEF Grown
<1>6. ListTypes'
  BY <1>1, <1>3, <1>4 DEF ListTypes
<1>7. Lined(db, newestFirst, ToSet(pageFetch.rows)) = Lined(db', newestFirst, ToSet(pageFetch.rows))
  <2>1. db \in Seq(Statuses) /\ DOMAIN db \subseteq DOMAIN db'
    BY <1>1, <1>4 DEF ListTypes
  <2> QED BY <1>1, <1>4, <2>1, NewestIsByAge, SameLists
<1>8. FetchInv'
  BY <1>1, <1>3, <1>7 DEF FetchInv, Base
<1>9. BeforeInv' /\ PageInv' /\ QuietInv' /\ GrowInv'
  BY <1>5 DEF BeforeInv, PageInv, QuietInv, GrowInv
<1> QED BY <1>6, <1>8, <1>9 DEF ListInv

LEMMA InsertedRowKeeps == ListInv /\ Insert => ListInv'
<1> SUFFICES ASSUME ListInv, Insert PROVE ListInv'
  OBVIOUS
<1> DEFINE M == Matching(table.filter)
<1>1. /\ ListTypes /\ FetchInv /\ BeforeInv /\ PageInv /\ GrowInv
      /\ ToSet(pageFetch.rows) \in SUBSET DOMAIN db /\ M \in SUBSET DOMAIN db
      /\ Base \in SUBSET DOMAIN db /\ RowCount \in Nat
  BY RowsInDb DEF ListInv
<1>2. /\ db' = Append(db, "open") /\ changed' = changed \cup {"grown"}
      /\ UNCHANGED <<listing, table, pageFetch, shown, walk, before>>
  BY DEF Insert, Change
<1>3. /\ db \in Seq(Statuses) /\ Len(db) \in Nat /\ DOMAIN db = 1..Len(db) /\ table.sort \in ByAny
      /\ table.page \in Nat \ {0} /\ table.limit \in Nat \ {0} /\ before \subseteq DOMAIN db
  BY <1>1, LenProperties, ListingAssumption DEF ListTypes
<1>4. /\ db' \in Seq(Statuses) /\ DOMAIN db' = 1..Len(db) + 1 /\ DOMAIN db \subseteq DOMAIN db'
      /\ \A i \in DOMAIN db : db'[i] = db[i]
      /\ db'[Len(db) + 1] = "open"
  <2>1. "open" \in Statuses
    BY DEF Statuses
  <2>2. db' \in Seq(Statuses) /\ Len(db') = Len(db) + 1
    BY <1>2, <1>3, <2>1, AppendProperties
  <2>3. DOMAIN db' = 1..Len(db')
    BY <2>2, LenProperties
  <2> QED BY <1>2, <1>3, <2>1, <2>2, <2>3, AppendProperties
<1>5. (Grown <=> Grown') /\ changed' # {}
  BY <1>2 DEF Grown
<1>6. Matching(table.filter)' = M \cup {Len(db) + 1}
  <2>1. Matching(table.filter)' = {i \in DOMAIN db' : table.filter = "all" \/ db'[i] = table.filter}
    BY <1>2 DEF Matching
  <2>2. table.filter \in {"all", "open"}
    BY <1>1 DEF ListTypes
  <2>3. DOMAIN db' = DOMAIN db \cup {Len(db) + 1}
    BY <1>3, <1>4
  <2> QED BY <1>4, <2>1, <2>2, <2>3 DEF Matching
<1>7. ListTypes'
  <2>1. pageFetch.rows \in Seq(DOMAIN db')
    BY <1>1, <1>4, SeqMonotonic DEF ListTypes
  <2> QED BY <1>1, <1>2, <1>3, <1>4, <2>1 DEF ListTypes
<1>8. Base \subseteq Base' /\ (listing.pages = "browser" => Base' = Base)
  BY <1>2, <1>6 DEF Base
<1>9. Base' \in SUBSET DOMAIN db' /\ RowCount' \in Nat /\ RowCount =< RowCount'
  <2>1. Base' \in SUBSET DOMAIN db'
    <3>1. M \cup {Len(db) + 1} \subseteq DOMAIN db'
      BY <1>1, <1>3, <1>4
    <3> QED BY <1>1, <1>2, <1>4, <1>6, <3>1 DEF Base
  <2>2. IsFiniteSet(Base') /\ Cardinality(Base') \in Nat
    BY <1>4, <2>1, RowsFinite
  <2> QED BY <1>8, <2>1, <2>2, FS_Subset DEF RowCount
<1>10. FetchInv'
  <2>1. listing.pages = "browser" => Lined(db', newestFirst, Base) = Lined(db, newestFirst, Base)
    BY <1>1, <1>3, <1>4, NewestIsByAge, SameLists
  <2> QED BY <1>1, <1>2, <1>8, <2>1 DEF FetchInv
<1>11. BeforeInv'
  <2>1. \A j \in before : j < Len(db) + 1
    BY <1>3
  <2> QED BY <1>1, <1>2, <1>5, <1>6, <1>8, <2>1 DEF BeforeInv
<1>12. PageInv'
  <2> SUFFICES ASSUME Grown PROVE PageInv'
    BY <1>5 DEF PageInv
  <2>1. \A x \in Int : x < RowCount => x < RowCount'
    BY <1>1, <1>9
  <2>2. \A x \in Nat : x =< RowCount => x =< RowCount'
    BY <1>1, <1>9
  <2>3. /\ (table.page - 1) * table.limit \in Int /\ table.page * table.limit \in Int
        /\ (shown.pages - 1) * table.limit \in Int /\ pageFetch.total \in Nat
    BY <1>1, <1>3 DEF ListTypes
  <2> QED BY <1>1, <1>2, <2>1, <2>2, <2>3 DEF PageInv
<1>13. QuietInv'
  BY <1>5 DEF QuietInv
<1>14. GrowInv'
  <2> SUFFICES ASSUME Grown, ~Tied, Loaded, listing.reads # "first", walk # Broken,
                      listing.total # "count" \/ table.sort.order = "asc"
               PROVE  GrowInv'
    BY <1>2, <1>5 DEF GrowInv, Tied, Loaded
  <2>1. before \subseteq Base
    BY <1>1 DEF BeforeInv, Base, Loaded
  <2>2. ASSUME NEW n \in Nat
        PROVE  before \cap FirstOf(db', table.sort, Base', n) \subseteq FirstOf(db, table.sort, Base, n)
    <3>1. Base \cap FirstOf(db', table.sort, Base', n) \subseteq FirstOf(db', table.sort, Base, n)
      BY <1>3, <1>4, <1>8, <1>9, FirstOfFewer
    <3>2. FirstOf(db', table.sort, Base, n) = FirstOf(db, table.sort, Base, n)
      <4>1. \A i \in Base : db[i] = db'[i]
        BY <1>1, <1>4
      <4>2. \A m : FirstOf(db, table.sort, Base, m) = FirstOf(db', table.sort, Base, m)
        BY <1>1, <1>3, <1>4, <4>1, SameLists
      <4> QED BY <4>2
    <3> QED BY <2>1, <3>1, <3>2
  <2>3. Paged' = Paged /\ ItemsRead' = ItemsRead /\ Paged * table.limit \in Nat
        /\ table.page * table.limit \in Nat
    <3>1. (table.page - 1) * table.limit \in Nat /\ table.page * table.limit \in Nat
      BY <1>3, Pages
    <3> QED BY <1>2, <3>1 DEF Paged, ItemsRead
  <2>4. before \cap FirstOf(db', table.sort, Base', Paged * table.limit) \subseteq ToSet(walk)
    <3>1. before \cap FirstOf(db, table.sort, Base, Paged * table.limit) \subseteq ToSet(walk)
      BY <1>1 DEF GrowInv
    <3> QED BY <2>2, <2>3, <3>1
  <2>5. listing.pages # "browser" /\ shown = Blank /\ pageFetch.read =>
          before \cap FirstOf(db', table.sort, Base', table.page * table.limit)
                 \subseteq ToSet(walk) \cup ToSet(ItemsRead)
    <3> SUFFICES ASSUME listing.pages # "browser", shown = Blank, pageFetch.read
                 PROVE  before \cap FirstOf(db', table.sort, Base', table.page * table.limit)
                          \subseteq ToSet(walk) \cup ToSet(ItemsRead)
      OBVIOUS
    <3>1. before \cap FirstOf(db, table.sort, Base, table.page * table.limit)
                 \subseteq ToSet(walk) \cup ToSet(ItemsRead)
      BY <1>1 DEF GrowInv
    <3> QED BY <2>2, <2>3, <3>1
  <2> QED BY <1>1, <1>2, <2>3, <2>4, <2>5 DEF GrowInv
<1> QED BY <1>7, <1>10, <1>11, <1>12, <1>13, <1>14 DEF ListInv

-----------------------------------------------------------------------------
(* A page is fetched. *)

LEMMA CountedKeeps == ListInv /\ CountRows => ListInv'
<1> SUFFICES ASSUME ListInv, CountRows PROVE ListInv'
  OBVIOUS
<1> DEFINE M == Matching(table.filter)
<1>1. /\ ListTypes /\ FetchInv /\ BeforeInv /\ PageInv /\ QuietInv /\ GrowInv
      /\ M \in SUBSET DOMAIN db /\ RowCount \in Nat
  BY RowsInDb DEF ListInv
<1>2. /\ shown = Blank /\ listing.total = "count"
      /\ pageFetch' = [pageFetch EXCEPT !.total = Cardinality(M), !.counted = TRUE]
      /\ UNCHANGED <<listing, db, table, shown, walk, before, changed>>
  BY DEF CountRows
<1>3. listing.pages = "server"
  BY <1>1, <1>2 DEF ListTypes, ListShape
<1>4. Base = M /\ Base' = M /\ RowCount = Cardinality(M) /\ RowCount' = RowCount
  BY <1>2, <1>3 DEF Base, RowCount, Matching
<1>5. /\ pageFetch'.rows = pageFetch.rows /\ pageFetch'.read = pageFetch.read
      /\ pageFetch'.total = RowCount /\ pageFetch'.counted
      /\ pageFetch' \in [rows : Seq(DOMAIN db), read : BOOLEAN, total : Nat, counted : BOOLEAN]
  BY <1>1, <1>2, <1>4 DEF ListTypes
<1>6. /\ Matching(table.filter)' = M /\ (Grown' <=> Grown) /\ (Tied' <=> Tied) /\ Loaded /\ Loaded'
      /\ Paged' = Paged /\ ItemsRead' = ItemsRead
  BY <1>2, <1>3, <1>5 DEF Matching, Grown, Tied, Loaded, Paged, ItemsRead
<1>7. ListTypes'
  BY <1>1, <1>2, <1>5 DEF ListTypes
<1>8. FetchInv'
  BY <1>2, <1>3 DEF FetchInv
<1>9. BeforeInv'
  BY <1>1, <1>2, <1>3, <1>6 DEF BeforeInv
<1>10. PageInv'
  <2>1. pageFetch'.total =< RowCount'
    BY <1>1, <1>4, <1>5
  <2> QED BY <1>1, <1>2, <1>3, <1>4, <1>5, <1>6, <2>1 DEF PageInv
<1>11. QuietInv'
  BY <1>1, <1>2, <1>3, <1>4, <1>5, <1>6 DEF QuietInv
<1>12. GrowInv'
  <2>1. Grown => Cardinality(before) =< RowCount
    <3> SUFFICES ASSUME Grown PROVE Cardinality(before) =< RowCount
      OBVIOUS
    <3>1. before \subseteq M
      BY <1>1, <1>3 DEF BeforeInv
    <3>2. IsFiniteSet(M)
      BY <1>1, RowsFinite DEF ListTypes
    <3> QED BY <1>4, <3>1, <3>2, FS_Subset
  <2> QED BY <1>1, <1>2, <1>3, <1>4, <1>5, <1>6, <2>1 DEF GrowInv
<1> QED BY <1>7, <1>8, <1>9, <1>10, <1>11, <1>12 DEF ListInv

\* A part of a slice, and two slices joined, as sets.
LEMMA SliceOfSlice ==
  ASSUME NEW X, NEW s \in Seq(X), NEW k \in Nat, NEW n \in Nat, NEW m \in Nat, n =< m
  PROVE  Slice(Slice(s, k, m), 0, n) = Slice(s, k, n)
<1> DEFINE a == Slice(s, k, m) b == Slice(a, 0, n) c == Slice(s, k, n) ls == Len(s)
<1>1. /\ a \in Seq(X) /\ Len(a) = IF k + m < ls THEN m ELSE IF k < ls THEN ls - k ELSE 0
      /\ \A i \in 1..Len(a) : a[i] = s[k + i]
  BY SliceIs
<1>2. /\ c \in Seq(X) /\ Len(c) = IF k + n < ls THEN n ELSE IF k < ls THEN ls - k ELSE 0
      /\ \A i \in 1..Len(c) : c[i] = s[k + i]
  BY SliceIs
<1>3. ls \in Nat
  BY LenProperties
<1> HIDE DEF a, c, ls
<1>4. /\ b \in Seq(X) /\ Len(b) = IF n < Len(a) THEN n ELSE Len(a)
      /\ \A i \in 1..Len(b) : b[i] = a[i]
  BY <1>1, Beginning
<1> HIDE DEF b
<1>5. Len(a) \in Nat /\ Len(b) = Len(c) /\ Len(b) =< Len(a) /\ Len(b) \in Nat
  BY <1>1, <1>2, <1>3, <1>4
<1>6. \A i \in 1..Len(b) : b[i] = c[i]
  BY <1>1, <1>2, <1>4, <1>5
<1>7. b = c
  BY <1>2, <1>4, <1>5, <1>6, SeqEqual
<1> QED BY <1>7 DEF a, b, c

LEMMA JoinedRows ==
  ASSUME NEW X, NEW s \in Seq(X), NEW t \in Seq(X)
  PROVE  s \o t \in Seq(X) /\ ToSet(s) \subseteq ToSet(s \o t) /\ ToSet(t) \subseteq ToSet(s \o t)
<1>1. /\ s \o t \in Seq(X) /\ Len(s \o t) = Len(s) + Len(t)
      /\ \A i \in 1..Len(s) + Len(t) : (s \o t)[i] = IF i =< Len(s) THEN s[i] ELSE t[i - Len(s)]
  BY ConcatProperties
<1>2. /\ Len(s) \in Nat /\ Len(t) \in Nat /\ DOMAIN s = 1..Len(s) /\ DOMAIN t = 1..Len(t)
      /\ DOMAIN (s \o t) = 1..Len(s) + Len(t)
  BY <1>1, LenProperties
<1>3. ASSUME NEW i \in 1..Len(s) PROVE i \in 1..Len(s) + Len(t) /\ (s \o t)[i] = s[i]
  BY <1>1, <1>2
<1>4. ASSUME NEW i \in 1..Len(t)
      PROVE  Len(s) + i \in 1..Len(s) + Len(t) /\ (s \o t)[Len(s) + i] = t[i]
  <2> DEFINE x == Len(s) + i
  <2>1. x \in 1..Len(s) + Len(t) /\ ~(x =< Len(s)) /\ x - Len(s) = i
    BY <1>2
  <2> HIDE DEF x
  <2>2. (s \o t)[x] = t[x - Len(s)]
    BY <1>1, <2>1
  <2>3. x \in 1..Len(s) + Len(t) /\ (s \o t)[x] = t[i]
    BY <2>1, <2>2, Zenon
  <2> QED BY <2>3, Zenon DEF x
<1>5. ToSet(s) = {s[i] : i \in 1..Len(s)} /\ ToSet(t) = {t[i] : i \in 1..Len(t)}
      /\ ToSet(s \o t) = {(s \o t)[i] : i \in 1..Len(s) + Len(t)}
  BY <1>2, Zenon DEF ToSet
<1>6. ToSet(s) \subseteq ToSet(s \o t)
  BY <1>3, <1>5, Zenon
<1>7. ToSet(t) \subseteq ToSet(s \o t)
  BY <1>4, <1>5, Zenon
<1> QED BY <1>1, <1>6, <1>7

LEMMA ReadKeepsBrowser ==
  ASSUME ListInv, ReadRows, listing.pages = "browser"
  PROVE  ListInv'
<1> DEFINE M == Matching(table.filter)
<1>1. /\ ListTypes /\ FetchInv /\ BeforeInv /\ M \in SUBSET DOMAIN db
      /\ db \in Seq(Statuses) /\ table.sort \in ByAny
  BY MatchingRows DEF ListInv, ListTypes
<1>2. PICK rows \in Reads :
        pageFetch' = [pageFetch EXCEPT !.rows = rows, !.read = TRUE,
          !.total = IF listing.total = "snapshot" THEN Cardinality(M) ELSE @,
          !.counted = @ \/ listing.total # "count"]
  BY DEF ReadRows
<1>3. /\ shown = Blank /\ ~pageFetch.read
      /\ UNCHANGED <<listing, db, table, shown, walk, before, changed>>
  BY DEF ReadRows
<1>4. walk = <<>> /\ table.page = 1 /\ before \subseteq DOMAIN db
  BY <1>1, <1>3 DEF FetchInv, ListTypes
<1>5. /\ rows \in Seq(DOMAIN db) /\ rows \in Lined(db, newestFirst, ToSet(rows))
      /\ IF listing.reads = "first"
         THEN Len(rows) =< Cap /\ ToSet(rows) = FirstOf(db, newestFirst, M, Cap)
         ELSE ToSet(rows) = M
  BY <1>1, ReadsAre
<1>6. Cardinality(M) \in Nat
  BY <1>1, RowsFinite
<1>7. /\ pageFetch' \in [rows : Seq(DOMAIN db), read : BOOLEAN, total : Nat, counted : BOOLEAN]
      /\ pageFetch'.rows = rows /\ pageFetch'.read
  BY <1>1, <1>2, <1>5, <1>6 DEF ListTypes
<1>8. ListTypes'
  BY <1>1, <1>3, <1>7 DEF ListTypes
<1>9. Base' = ToSet(rows) /\ Base' \in SUBSET DOMAIN db /\ (Grown <=> Grown')
  <2>1. Base' = ToSet(rows)
    BY <1>3, <1>7 DEF Base
  <2>2. FirstOf(db, newestFirst, M, Cap) \subseteq M
    BY DEF FirstOf
  <2> QED BY <1>1, <1>3, <1>5, <2>1, <2>2 DEF Grown
<1>10. FetchInv'
  BY <1>3, <1>5, <1>7, <1>9 DEF FetchInv
<1>11. BeforeInv'
  <2>1. /\ changed = {} => before = M
        /\ Grown => before \subseteq M
    BY <1>1, <1>3 DEF BeforeInv
  <2>2. changed = {} => Visible = Base'
    BY <1>1, <1>4, <1>5, <1>9, <2>1, VisibleIs
  <2>3. Visible' = Visible
    BY <1>3 DEF Visible
  <2> QED BY <1>3, <1>5, <1>7, <1>9, <2>1, <2>2, <2>3 DEF BeforeInv
<1>12. PageInv'
  BY <1>3, <1>4 DEF PageInv
<1>13. Paged' * table'.limit = 0
  <2>1. Paged' = 1 - 1 /\ table'.limit = table.limit /\ table.limit \in Nat
    BY <1>1, <1>3, <1>4, ListingAssumption DEF Paged, ListTypes
  <2> QED BY <2>1
<1>14. QuietInv'
  <2>1. ASSUME NEW s \in Lined(db, table.sort, Base') PROVE Slice(s, 0, 0) = <<>>
    <3>1. s \in SetToSeqs(Base')
      BY DEF Lined
    <3>2. s \in Seq(Nat)
      BY <1>1, <1>9, <3>1, SeqOfAll
    <3> QED BY <3>2, SliceEnds
  <2> QED BY <1>3, <1>4, <1>13, <2>1 DEF QuietInv
<1>15. GrowInv'
  <2>1. FirstOf(db, table.sort, Base', 0) = {}
    BY <1>1, <1>9, FirstOfNumbers
  <2> QED BY <1>3, <1>13, <2>1 DEF GrowInv
<1> QED BY <1>8, <1>10, <1>11, <1>12, <1>14, <1>15 DEF ListInv

\* What a slice of the rows says of how many there are.
LEMMA SliceLeaves ==
  ASSUME NEW X, NEW s \in Seq(X), NEW p \in Nat \ {0}, NEW m \in Nat \ {0}
  PROVE  /\ p > 1 /\ (p - 1) * m < Len(s) =>
              /\ Slice(s, (p - 1) * m, m) # <<>>
              /\ Slice(s, (p - 1) * m, m + 1) # <<>>
         /\ Len(Slice(s, (p - 1) * m, m)) =< m
         /\ Len(Slice(s, (p - 1) * m, m + 1)) > m <=> p * m < Len(s)
<1> DEFINE k == (p - 1) * m l == Len(s)
<1>1. k \in Nat /\ p * m = k + m /\ l \in Nat /\ m + 1 \in Nat /\ m \in Nat /\ 0 < m /\ 0 < m + 1
  BY Pages, LenProperties
<1> DEFINE a == Slice(s, k, m) b == Slice(s, k, m + 1)
<1>2. Len(a) = IF k + m < l THEN m ELSE IF k < l THEN l - k ELSE 0
  BY <1>1, SliceIs
<1>3. Len(b) = IF k + (m + 1) < l THEN m + 1 ELSE IF k < l THEN l - k ELSE 0
  <2> DEFINE n == m + 1
  <2>1. n \in Nat
    BY <1>1
  <2> HIDE DEF n, k
  <2>2. Len(Slice(s, k, n)) = IF k + n < Len(s) THEN n ELSE IF k < Len(s) THEN Len(s) - k ELSE 0
    BY <1>1, <2>1, SliceIs
  <2> QED BY <2>2, Zenon DEF n
<1>4. k < l => a # <<>> /\ b # <<>>
  BY <1>1, SliceEnds
<1> HIDE DEF a, b, k, l
<1>5. Len(a) =< m /\ (Len(b) > m <=> k + m < l)
  BY <1>1, <1>2, <1>3
<1>6. p * m = k + m
  BY <1>1
<1>7. Len(a) =< m /\ (Len(b) > m <=> p * m < l)
  BY <1>5, <1>6, Zenon
<1> QED BY <1>4, <1>7 DEF a, b, k, l

LEMMA ReadKeepsServer ==
  ASSUME ListInv, ReadRows, listing.pages # "browser"
  PROVE  ListInv'
<1> DEFINE M == Matching(table.filter)
           skip == (table.page - 1) * table.limit
           take == IF listing.pages = "overfetch" THEN table.limit + 1 ELSE table.limit
<1>1. /\ ListTypes /\ FetchInv /\ BeforeInv /\ PageInv /\ QuietInv /\ GrowInv
      /\ M \in SUBSET DOMAIN db /\ RowCount \in Nat /\ db \in Seq(Statuses) /\ table.sort \in ByAny
      /\ table.page \in Nat \ {0} /\ table.limit \in Nat \ {0} /\ before \subseteq DOMAIN db
  BY RowsInDb, ListingAssumption DEF ListInv, ListTypes
<1>2. PICK rows \in Reads :
        pageFetch' = [pageFetch EXCEPT !.rows = rows, !.read = TRUE,
          !.total = IF listing.total = "snapshot" THEN Cardinality(M) ELSE @,
          !.counted = @ \/ listing.total # "count"]
  BY DEF ReadRows
<1>3. /\ shown = Blank /\ ~pageFetch.read
      /\ UNCHANGED <<listing, db, table, shown, walk, before, changed>>
  BY DEF ReadRows
<1>4. PICK s \in Orders(table.sort, M) : rows = Slice(s, skip, take)
  BY <1>1, ReadsAre
<1>5. s \in Seq(Nat) /\ Len(s) = Cardinality(M) /\ rows \in Seq(DOMAIN db)
  <2>1. s \in SetToSeqs(M)
    BY DEF Orders
  <2>2. rows \in Seq(DOMAIN db)
    BY <1>1, ReadsAre
  <2> QED BY <1>1, <2>1, <2>2, SeqOfAll
<1>6. Base = M /\ Base' = M /\ RowCount = Cardinality(M) /\ RowCount' = RowCount
  BY <1>3 DEF Base, RowCount, Matching
<1>7. /\ pageFetch' \in [rows : Seq(DOMAIN db), read : BOOLEAN, total : Nat, counted : BOOLEAN]
      /\ pageFetch'.rows = rows /\ pageFetch'.read
      /\ pageFetch'.total = IF listing.total = "snapshot" THEN RowCount ELSE pageFetch.total
      /\ listing.total # "snapshot" /\ listing.pages = "server" => pageFetch'.counted = pageFetch.counted
      /\ listing.total = "count" => pageFetch'.counted = pageFetch.counted
  BY <1>1, <1>2, <1>5, <1>6 DEF ListTypes, ListShape
<1>8. /\ Matching(table.filter)' = M /\ (Grown' <=> Grown) /\ (Tied' <=> Tied) /\ Loaded /\ Loaded'
      /\ Paged' = table.page - 1 /\ Paged = table.page - 1
  BY <1>3 DEF Matching, Grown, Tied, Loaded, Paged
<1>9. ListTypes'
  BY <1>1, <1>3, <1>7 DEF ListTypes
<1>10. FetchInv'
  BY <1>3 DEF FetchInv
<1>11. BeforeInv'
  BY <1>1, <1>3, <1>8 DEF BeforeInv
<1>12. skip \in Nat /\ take \in Nat /\ table.limit =< take /\ table.page * table.limit = skip + table.limit
       /\ table.page * table.limit \in Nat
  <2>1. skip \in Nat /\ table.page * table.limit = skip + table.limit /\ table.page * table.limit \in Nat
    BY <1>1, Pages
  <2>2. take \in Nat /\ table.limit =< take
    BY <1>1
  <2> QED BY <2>1, <2>2
<1>13. PageInv'
  <2> SUFFICES ASSUME Grown PROVE PageInv'
    BY <1>8 DEF PageInv
  <2>1. /\ table.page > 1 => rows # <<>>
        /\ Len(rows) > table.limit => table.page * table.limit < RowCount
    <3>1. table.page > 1 => skip < Len(s)
      BY <1>1, <1>5, <1>6 DEF PageInv
    <3>2. CASE listing.pages = "overfetch"
      BY <1>1, <1>4, <1>5, <1>6, <3>1, <3>2, SliceLeaves
    <3>3. CASE listing.pages # "overfetch"
      <4>1. rows = Slice(s, skip, table.limit)
        BY <1>4, <3>3
      <4>2. Len(rows) =< table.limit /\ Len(rows) \in Nat
        BY <1>1, <1>5, <4>1, SliceLeaves, LenProperties
      <4>3. ~(Len(rows) > table.limit)
        BY <1>1, <4>2
      <4> QED BY <1>1, <1>5, <3>1, <4>1, <4>3, SliceLeaves
    <3> QED BY <3>2, <3>3
  <2>2. pageFetch'.counted /\ listing.pages = "server" => pageFetch'.total =< RowCount'
    <3>1. CASE listing.total = "snapshot"
      BY <1>1, <1>6, <1>7, <3>1
    <3>2. CASE listing.total # "snapshot"
      <4>1. pageFetch.counted /\ listing.pages = "server" => pageFetch.total =< RowCount
        BY <1>1, <1>3 DEF PageInv
      <4> QED BY <1>6, <1>7, <3>2, <4>1
    <3> QED BY <3>1, <3>2
  <2> QED BY <1>1, <1>3, <1>6, <1>7, <1>8, <2>1, <2>2 DEF PageInv
<1>14. ~Tied => s \in Lined(db, table.sort, M)
  <2> SUFFICES ASSUME ~Tied PROVE s \in Lined(db, table.sort, M)
    OBVIOUS
  <2>1. table.sort.by = "createdAt"
    BY DEF Tied
  <2> QED BY <1>1, <2>1, OrdersAreLined
<1>15. QuietInv'
  <2> SUFFICES ASSUME changed = {}, ~Tied PROVE QuietInv'
    BY <1>3, <1>8 DEF QuietInv
  <2>1. \A t \in Lined(db, table.sort, M) : rows = Slice(t, skip, take)
    BY <1>1, <1>4, <1>14, LinedOnce
  <2>2. pageFetch'.counted /\ listing.pages = "server" => pageFetch'.total = RowCount
    BY <1>1, <1>3, <1>7, <1>8 DEF QuietInv
  <2>3. walk # Broken => \A t \in Lined(db, table.sort, M) : walk = Slice(t, 0, Paged * table.limit)
    BY <1>1, <1>6, <1>8 DEF QuietInv
  <2> QED BY <1>3, <1>6, <1>7, <1>8, <2>1, <2>2, <2>3 DEF QuietInv
<1>16. GrowInv'
  <2> SUFFICES ASSUME Grown, ~Tied, listing.reads # "first", walk # Broken,
                      listing.total # "count" \/ table.sort.order = "asc"
               PROVE  GrowInv'
    BY <1>3, <1>8 DEF GrowInv
  <2>1. before \cap FirstOf(db, table.sort, M, skip) \subseteq ToSet(walk)
    BY <1>1, <1>6, <1>8 DEF GrowInv
  <2>2. ToSet(ItemsRead)' = ToSet(Slice(s, skip, table.limit))
    <3>1. ItemsRead' = Slice(rows, 0, table.limit)
      BY <1>3, <1>7 DEF ItemsRead
    <3>2. Slice(rows, 0, table.limit) = Slice(s, skip, table.limit)
      <4>1. table.limit \in Nat
        BY <1>1
      <4> HIDE DEF skip, take
      <4> QED BY <1>4, <1>5, <1>12, <4>1, SliceOfSlice
    <3> QED BY <3>1, <3>2
  <2>3. before \cap FirstOf(db, table.sort, M, table.page * table.limit)
          \subseteq ToSet(walk) \cup ToSet(ItemsRead)'
    <3>1. FirstOf(db, table.sort, M, skip + table.limit)
            \subseteq FirstOf(db, table.sort, M, skip) \cup ToSet(Slice(s, skip, table.limit))
      <4>1. table.limit \in Nat
        BY <1>1
      <4> HIDE DEF skip
      <4> QED BY <1>1, <1>12, <1>14, <4>1, SliceHolds
    <3>2. FirstOf(db, table.sort, M, table.page * table.limit)
            = FirstOf(db, table.sort, M, skip + table.limit)
      BY <1>12
    <3> HIDE DEF skip
    <3> QED BY <2>1, <2>2, <3>1, <3>2
  <2>4. \/ listing.pages = "overfetch" /\ Len(rows) =< table.limit
        \/ listing.total = "snapshot" /\ RowCount =< table.page * table.limit
        => before \subseteq ToSet(walk) \cup ToSet(ItemsRead)'
    <3> SUFFICES ASSUME \/ listing.pages = "overfetch" /\ Len(rows) =< table.limit
                        \/ listing.total = "snapshot" /\ RowCount =< table.page * table.limit
                 PROVE  before \subseteq ToSet(walk) \cup ToSet(ItemsRead)'
      OBVIOUS
    <3>1. RowCount =< table.page * table.limit
      <4>1. CASE listing.pages = "overfetch" /\ Len(rows) =< table.limit
        <5>1. rows = Slice(s, skip, table.limit + 1)
          BY <1>4, <4>1
        <5>2. Len(rows) > table.limit <=> table.page * table.limit < Len(s)
          BY <1>1, <1>5, <5>1, SliceLeaves
        <5>3. Len(rows) \in Nat
          BY <1>5, LenProperties
        <5>4. ~(Len(rows) > table.limit)
          BY <1>1, <4>1, <5>3
        <5> HIDE DEF skip
        <5> QED BY <1>1, <1>5, <1>6, <1>12, <5>2, <5>4
      <4> QED BY <4>1
    <3>2. FirstOf(db, table.sort, M, table.page * table.limit) = M
      <4> DEFINE n == table.page * table.limit
      <4>1. n \in Nat /\ Cardinality(M) =< n
        BY <1>6, <1>12, <3>1
      <4> HIDE DEF n, M
      <4>2. FirstOf(db, table.sort, M, n) = M
        BY <1>1, <4>1, FirstOfNumbers
      <4> QED BY <4>2 DEF n
    <3>3. before \subseteq M
      BY <1>1 DEF BeforeInv
    <3> QED BY <2>3, <3>2, <3>3
  <2>5. pageFetch'.counted /\ listing.total = "count" => Cardinality(before) =< pageFetch'.total
    BY <1>1, <1>3, <1>7, <1>8 DEF GrowInv
  <2>6. before \cap FirstOf(db, table.sort, M, Paged * table.limit) \subseteq ToSet(walk)
    BY <1>8, <2>1
  <2> HIDE DEF M, skip, take
  <2> QED BY <1>3, <1>6, <1>7, <1>8, <2>3, <2>4, <2>5, <2>6 DEF GrowInv
<1> QED BY <1>9, <1>10, <1>11, <1>13, <1>15, <1>16 DEF ListInv

LEMMA ShowKeepsBrowser ==
  ASSUME ListInv, ShowPage, listing.pages = "browser"
  PROVE  ListInv'
<1> DEFINE skip == (table.page - 1) * table.limit
           last == table.page * table.limit
<1>1. /\ ListTypes /\ FetchInv /\ BeforeInv /\ PageInv /\ QuietInv /\ GrowInv
      /\ Base \in SUBSET DOMAIN db /\ RowCount \in Nat /\ db \in Seq(Statuses) /\ table.sort \in ByAny
      /\ table.page \in Nat \ {0} /\ table.limit \in Nat \ {0} /\ walk \in Seq(Nat)
  BY RowsInDb, ListingAssumption DEF ListInv, ListTypes
<1>2. /\ shown = Blank /\ pageFetch.read
      /\ shown' = Page(pageFetch.rows, pageFetch.total)
      /\ walk' = IF walk = Broken THEN Broken ELSE walk \o shown'.items
      /\ UNCHANGED <<listing, db, table, pageFetch, before, changed>>
  BY DEF ShowPage
<1>3. Base = ToSet(pageFetch.rows) /\ pageFetch.rows \in Lined(db, newestFirst, Base)
  BY <1>1, <1>2 DEF Base, FetchInv
<1>4. PICK s \in Lined(db, table.sort, Base) : TRUE
  BY <1>1, LinedExists
<1>5. /\ s \in Seq(Nat) /\ Len(s) = RowCount /\ Len(pageFetch.rows) = RowCount
  <2>1. s \in SetToSeqs(Base) /\ pageFetch.rows \in SetToSeqs(Base)
    BY <1>3 DEF Lined
  <2> QED BY <1>1, <2>1, SeqOfAll DEF RowCount
<1>6. skip \in Nat /\ last = skip + table.limit /\ last \in Nat /\ table.limit \in Nat
  BY <1>1, Pages
<1>7. shown' = [items |-> Slice(s, skip, table.limit), pages |-> pageCount(RowCount, table.limit)]
  <2>1. Page(pageFetch.rows, pageFetch.total) = paginate(pageFetch.rows)
    BY DEF Page
  <2>2. paginate(pageFetch.rows)
          = [items |-> Slice(s, skip, table.limit), pages |-> pageCount(Len(pageFetch.rows), table.limit)]
    BY <1>1, <1>3, PaginateIs
  <2> QED BY <1>2, <1>5, <2>1, <2>2, Zenon
<1> DEFINE q == pageCount(RowCount, table.limit)
<1>8. q \in Nat \ {0} /\ RowCount =< q * table.limit /\ (q > 1 => (q - 1) * table.limit < RowCount)
  BY <1>1, PageCountIs
<1>9. shown'.items = Slice(s, skip, table.limit) /\ shown'.pages = q /\ shown'.items \in Seq(Nat)
  <2>1. Slice(s, skip, table.limit) \in Seq(Nat)
    <3> HIDE DEF skip
    <3> QED BY <1>5, <1>6, SliceIs
  <2> QED BY <1>7, <2>1
<1> HIDE DEF q
<1>10. shown' # Blank /\ shown' \in [items : Seq(Nat), pages : Nat]
  BY <1>7, <1>8, <1>9 DEF Blank, q
<1>11. walk' \in Seq(Nat)
  BY <1>1, <1>2, <1>9, JoinedRows
<1>12. ListTypes'
  BY <1>1, <1>2, <1>10, <1>11 DEF ListTypes
<1>13. /\ Base' = Base /\ RowCount' = RowCount /\ (Grown' <=> Grown) /\ (Tied' <=> Tied) /\ Loaded /\ Loaded'
       /\ Paged' = table.page /\ Paged = table.page - 1
       /\ Matching(table.filter)' = Matching(table.filter) /\ Visible' = Visible
  BY <1>2, <1>10 DEF Base, RowCount, Grown, Tied, Loaded, Paged, Matching, Visible
<1>14. FetchInv'
  BY <1>1, <1>2, <1>8, <1>9, <1>13, SMTT(60) DEF FetchInv
<1>15. BeforeInv'
  BY <1>1, <1>2, <1>13 DEF BeforeInv
<1>16. PageInv'
  <2> SUFFICES ASSUME Grown PROVE PageInv'
    BY <1>13 DEF PageInv
  <2>1. table.page > 1 => skip < RowCount
    BY <1>1 DEF PageInv
  <2>2. table.page > 1 => shown'.items # <<>>
    <3>1. skip < Len(s) /\ 0 < table.limit => Slice(s, skip, table.limit) # <<>>
      <4> HIDE DEF skip
      <4> QED BY <1>5, <1>6, SliceEnds
    <3>2. 0 < table.limit
      BY <1>1
    <3> HIDE DEF skip
    <3> QED BY <1>5, <1>9, <2>1, <3>1, <3>2
  <2> QED BY <1>2, <1>8, <1>9, <1>10, <1>13, <2>1, <2>2 DEF PageInv
<1>17. table.page = q => RowCount =< last
  BY <1>8
<1>18. QuietInv'
  <2> SUFFICES ASSUME changed = {}, ~Tied PROVE QuietInv'
    BY <1>2, <1>13 DEF QuietInv
  <2>1. ASSUME walk' # Broken, NEW t \in Lined(db, table.sort, Base)
        PROVE  walk' = Slice(t, 0, last)
    <3>1. t = s
      BY <1>1, LinedOnce
    <3>2. walk # Broken /\ walk' = walk \o Slice(s, skip, table.limit)
      BY <1>2, <1>9, <2>1
    <3>3. walk = Slice(s, 0, skip)
      BY <1>1, <1>13, <3>2 DEF QuietInv
    <3>4. Slice(s, 0, skip) \o Slice(s, skip, table.limit) = Slice(s, 0, skip + table.limit)
      <4> HIDE DEF skip
      <4> QED BY <1>5, <1>6, SliceJoins
    <3> HIDE DEF skip
    <3> QED BY <1>6, <3>1, <3>2, <3>3, <3>4, Zenon
  <2> QED BY <1>2, <1>9, <1>10, <1>13, <1>17, <2>1 DEF QuietInv
<1>19. GrowInv'
  <2> SUFFICES ASSUME Grown, ~Tied, listing.reads # "first", walk' # Broken,
                      listing.total # "count" \/ table.sort.order = "asc"
               PROVE  GrowInv'
    BY <1>2, <1>13 DEF GrowInv
  <2>1. walk # Broken /\ walk' = walk \o shown'.items
    BY <1>2
  <2>2. ToSet(walk) \subseteq ToSet(walk') /\ ToSet(shown'.items) \subseteq ToSet(walk')
    BY <1>1, <1>9, <2>1, JoinedRows
  <2>3. before \cap FirstOf(db, table.sort, Base, skip) \subseteq ToSet(walk)
    BY <1>1, <1>13, <2>1 DEF GrowInv
  <2>4. FirstOf(db, table.sort, Base, skip + table.limit)
          \subseteq FirstOf(db, table.sort, Base, skip) \cup ToSet(Slice(s, skip, table.limit))
    <3> HIDE DEF skip
    <3> QED BY <1>1, <1>6, SliceHolds
  <2> HIDE DEF skip
  <2>5. before \cap FirstOf(db, table.sort, Base, last) \subseteq ToSet(walk')
    <3>1. FirstOf(db, table.sort, Base, last) = FirstOf(db, table.sort, Base, skip + table.limit)
      BY <1>6
    <3> HIDE DEF last
    <3> QED BY <1>9, <2>2, <2>3, <2>4, <3>1
  <2>6. ASSUME table.page = q PROVE before \subseteq ToSet(walk')
    <3>1. RowCount =< last
      BY <1>17, <2>6
    <3>2. FirstOf(db, table.sort, Base, last) = Base
      <4> HIDE DEF last
      <4> QED BY <1>1, <1>6, <3>1, FirstOfNumbers DEF RowCount
    <3>3. before \subseteq Base
      BY <1>1, <1>2 DEF BeforeInv
    <3> HIDE DEF last
    <3> QED BY <2>5, <3>2, <3>3
  <2> QED BY <1>2, <1>9, <1>10, <1>13, <2>5, <2>6 DEF GrowInv
<1> QED BY <1>12, <1>14, <1>15, <1>16, <1>18, <1>19 DEF ListInv

\* The rows that were there, oldest first, are ahead of all that came since.
LEMMA OldestFirst ==
  ASSUME NEW d \in Seq(Statuses), NEW o \in ByAny, NEW M \in SUBSET DOMAIN d, NEW B \in SUBSET M,
         o.by = "createdAt", o.order = "asc",
         \A i \in M \ B : \A j \in B : j < i
  PROVE  \A n \in Nat : Cardinality(B) =< n => B \subseteq FirstOf(d, o, M, n)
<1> SUFFICES ASSUME NEW n \in Nat, Cardinality(B) =< n, NEW e \in B PROVE e \in FirstOf(d, o, M, n)
  OBVIOUS
<1>1. \A i \in M : i \in Nat
  BY RowsFinite
<1>2. \A j \in M : Ahead(d, o, j, e) => j < e
  BY <1>1 DEF Ahead, KeyIn
<1>3. \A j \in M : Ahead(d, o, j, e) => j \in B /\ j # e
  <2> SUFFICES ASSUME NEW j \in M, j < e PROVE j \in B /\ j # e
    BY <1>2
  <2>1. e \in Nat /\ j \in Nat
    BY <1>1
  <2> QED BY <2>1
<1>4. AheadOf(d, o, M, e) \in SUBSET B /\ AheadOf(d, o, M, e) # B
  BY <1>3 DEF AheadOf
<1>5. IsFiniteSet(B) /\ Cardinality(B) \in Nat
  BY RowsFinite
<1>6. Cardinality(AheadOf(d, o, M, e)) < Cardinality(B) /\ Cardinality(AheadOf(d, o, M, e)) \in Nat
  BY <1>4, <1>5, FS_Subset, FS_CardinalityType
<1>7. Cardinality(AheadOf(d, o, M, e)) < n
  BY <1>5, <1>6
<1> QED BY <1>7 DEF FirstOf

\* The items of a page of rows the server has cut, and the pages it says there are.
LEMMA PageOf ==
  ASSUME ListTypes, listing.pages # "browser", pageFetch.read,
         table.page \in Nat \ {0}, table.limit \in Nat \ {0}
  PROVE  LET p == Page(pageFetch.rows, pageFetch.total)
             rows == pageFetch.rows IN
         /\ p.items = IF listing.pages = "overfetch" THEN ItemsRead ELSE rows
         /\ p.pages = IF listing.pages = "server" THEN pageCount(pageFetch.total, table.limit)
                      ELSE IF Len(rows) > table.limit THEN table.page + 1 ELSE table.page
         /\ p.items \in Seq(Nat) /\ p.pages \in Nat \ {0} /\ p = [items |-> p.items, pages |-> p.pages]
         /\ ToSet(ItemsRead) \subseteq ToSet(p.items)
         /\ rows # <<>> => p.items # <<>>
<1> DEFINE rows == pageFetch.rows
           p == Page(rows, pageFetch.total)
<1>1. /\ rows \in Seq(Nat) /\ Len(rows) \in Nat /\ table.limit \in Nat /\ pageFetch.total \in Nat
      /\ listing.pages \in {"server", "overfetch"}
  <2>1. rows \in Seq(DOMAIN db) /\ db \in Seq(Statuses) /\ table.limit \in Nat /\ pageFetch.total \in Nat
    BY DEF ListTypes
  <2>2. DOMAIN db \subseteq Nat
    BY <2>1, LenProperties
  <2>3. rows \in Seq(Nat)
    BY <2>1, <2>2, SeqMonotonic
  <2> QED BY <2>1, <2>3, LenProperties DEF ListTypes, ListShape
<1>2. /\ ItemsRead \in Seq(Nat) /\ Len(ItemsRead) = IF table.limit < Len(rows) THEN table.limit ELSE Len(rows)
      /\ \A i \in 1..Len(ItemsRead) : ItemsRead[i] = rows[i]
      /\ Len(rows) =< table.limit => ItemsRead = rows
  BY <1>1, Beginning, SliceEnds DEF ItemsRead
<1>3. ToSet(ItemsRead) \subseteq ToSet(rows)
  <2>1. DOMAIN rows = 1..Len(rows) /\ DOMAIN ItemsRead = 1..Len(ItemsRead)
    BY <1>1, <1>2, LenProperties
  <2>2. 1..Len(ItemsRead) \subseteq 1..Len(rows)
    BY <1>1, <1>2
  <2> QED BY <1>2, <2>1, <2>2 DEF ToSet
<1>4. rows # <<>> => ItemsRead # <<>>
  <2> SUFFICES ASSUME rows # <<>> PROVE ItemsRead # <<>>
    OBVIOUS
  <2>1. Len(rows) # 0
    BY <1>1, EmptySeq
  <2>2. Len(ItemsRead) # 0
    BY <1>1, <1>2, <2>1
  <2> QED BY <2>2, EmptySeq
<1>5. CASE listing.pages = "overfetch"
  <2>1. p = sliceAuditLogPage(rows)
    BY <1>5 DEF Page
  <2>2. p = [items |-> IF Len(rows) > table.limit THEN ItemsRead ELSE rows,
             pages |-> IF Len(rows) > table.limit THEN table.page + 1 ELSE table.page]
    BY <2>1 DEF sliceAuditLogPage, ItemsRead
  <2>3. (IF Len(rows) > table.limit THEN ItemsRead ELSE rows) = ItemsRead
    BY <1>1, <1>2
  <2>4. p = [items |-> ItemsRead, pages |-> IF Len(rows) > table.limit THEN table.page + 1 ELSE table.page]
    BY <2>2, <2>3
  <2> HIDE DEF p, rows
  <2> QED BY <1>2, <1>3, <1>4, <1>5, <2>4 DEF p, rows
<1>6. CASE listing.pages = "server"
  <2>1. p = [items |-> rows, pages |-> pageCount(pageFetch.total, table.limit)]
    BY <1>6 DEF Page
  <2>2. pageCount(pageFetch.total, table.limit) \in Nat \ {0}
    BY <1>1, PageCountIs
  <2> QED BY <1>1, <1>3, <1>6, <2>1, <2>2
<1> QED BY <1>1, <1>5, <1>6

LEMMA ShowKeepsServer ==
  ASSUME ListInv, ShowPage, listing.pages # "browser"
  PROVE  ListInv'
<1> DEFINE M == Matching(table.filter)
           skip == (table.page - 1) * table.limit
           last == table.page * table.limit
           rows == pageFetch.rows
           items == shown'.items
           q == shown'.pages
<1>1. /\ ListTypes /\ FetchInv /\ BeforeInv /\ PageInv /\ QuietInv /\ GrowInv
      /\ M \in SUBSET DOMAIN db /\ RowCount \in Nat /\ db \in Seq(Statuses) /\ table.sort \in ByAny
      /\ table.page \in Nat \ {0} /\ table.limit \in Nat \ {0} /\ walk \in Seq(Nat)
      /\ pageFetch.total \in Nat /\ rows \in Seq(DOMAIN db) /\ before \subseteq DOMAIN db
  BY RowsInDb, ListingAssumption DEF ListInv, ListTypes
<1>2. /\ shown = Blank /\ pageFetch.read /\ pageFetch.counted
      /\ shown' = Page(rows, pageFetch.total)
      /\ walk' = IF walk = Broken THEN Broken ELSE walk \o items
      /\ pageFetch' = Idle
      /\ UNCHANGED <<listing, db, table, before, changed>>
  BY DEF ShowPage
<1>3. /\ items = IF listing.pages = "overfetch" THEN ItemsRead ELSE rows
      /\ q = IF listing.pages = "server" THEN pageCount(pageFetch.total, table.limit)
             ELSE IF Len(rows) > table.limit THEN table.page + 1 ELSE table.page
      /\ items \in Seq(Nat) /\ q \in Nat \ {0} /\ shown' = [items |-> items, pages |-> q]
      /\ ToSet(ItemsRead) \subseteq ToSet(items)
      /\ rows # <<>> => items # <<>>
  BY <1>1, <1>2, PageOf
<1> HIDE DEF items, q
<1>4. shown' # Blank /\ shown' \in [items : Seq(Nat), pages : Nat]
      /\ shown'.items = items /\ shown'.pages = q
  BY <1>3 DEF Blank
<1>5. walk' \in Seq(Nat)
  BY <1>1, <1>2, <1>3, JoinedRows
<1>6. ListTypes'
  <2>1. Idle \in [rows : Seq(DOMAIN db), read : BOOLEAN, total : Nat, counted : BOOLEAN]
    BY DEF Idle
  <2> QED BY <1>1, <1>2, <1>4, <1>5, <2>1 DEF ListTypes
<1>7. Base = M /\ Base' = M /\ RowCount = Cardinality(M) /\ RowCount' = RowCount
  BY <1>2 DEF Base, RowCount, Matching
<1>8. /\ Matching(table.filter)' = M /\ (Grown' <=> Grown) /\ (Tied' <=> Tied) /\ Loaded /\ Loaded'
      /\ Paged' = table.page /\ Paged = table.page - 1
  BY <1>2, <1>4 DEF Matching, Grown, Tied, Loaded, Paged
<1>9. FetchInv'
  BY <1>2, <1>3, <1>4 DEF FetchInv
<1>10. BeforeInv'
  BY <1>1, <1>2, <1>8 DEF BeforeInv
<1>11. /\ skip \in Nat /\ last = skip + table.limit /\ last \in Nat /\ table.limit \in Nat
       /\ Len(rows) \in Nat
  BY <1>1, Pages, LenProperties
<1>12. listing.pages = "server" =>
         pageFetch.total =< q * table.limit /\ (q > 1 => (q - 1) * table.limit < pageFetch.total)
  BY <1>1, <1>3, PageCountIs
<1>13. listing.pages \in {"server", "overfetch"}
       /\ (listing.pages = "overfetch" => listing.total = "none")
       /\ (listing.pages = "server" => listing.total \in {"snapshot", "count"})
  BY <1>1 DEF ListTypes, ListShape
<1>14. PageInv'
  <2> SUFFICES ASSUME Grown PROVE PageInv'
    BY <1>8 DEF PageInv
  <2>1. /\ table.page > 1 => skip < RowCount /\ rows # <<>>
        /\ listing.pages = "server" => pageFetch.total =< RowCount
        /\ Len(rows) > table.limit => last < RowCount
    BY <1>1, <1>2 DEF PageInv
  <2>2. ASSUME q > 1 PROVE (q - 1) * table.limit < RowCount
    <3>1. CASE listing.pages = "server"
      <4>1. (q - 1) * table.limit < pageFetch.total /\ pageFetch.total =< RowCount
        BY <1>12, <2>1, <2>2, <3>1
      <4>2. (q - 1) * table.limit \in Nat
        BY <1>1, <1>3, Pages
      <4> QED BY <1>1, <4>1, <4>2
    <3>2. CASE listing.pages = "overfetch" /\ Len(rows) > table.limit
      <4>1. q - 1 = table.page /\ last < RowCount
        BY <1>1, <1>3, <2>1, <3>2
      <4> QED BY <4>1
    <3>3. CASE listing.pages = "overfetch" /\ ~(Len(rows) > table.limit)
      <4>1. q = table.page /\ skip < RowCount
        BY <1>1, <1>3, <2>1, <2>2, <3>3
      <4> QED BY <4>1
    <3> QED BY <1>13, <3>1, <3>2, <3>3
  <2>3. table.page > 1 => items # <<>>
    BY <1>3, <2>1
  <2> QED BY <1>2, <1>4, <1>8, <1>7, <2>1, <2>2, <2>3 DEF PageInv
<1>15. QuietInv'
  <2> SUFFICES ASSUME changed = {}, ~Tied PROVE QuietInv'
    BY <1>2, <1>8 DEF QuietInv
  <2> DEFINE take == IF listing.pages = "overfetch" THEN table.limit + 1 ELSE table.limit
  <2>1. \A t \in Lined(db, table.sort, M) : rows = Slice(t, skip, take)
    BY <1>1, <1>2, <1>7, <1>8 DEF QuietInv
  <2>2. \A t \in Lined(db, table.sort, M) : t \in Seq(Nat) /\ Len(t) = RowCount
    <3>1. \A t \in Lined(db, table.sort, M) : t \in SetToSeqs(M)
      BY DEF Lined
    <3> QED BY <1>1, <1>7, <3>1, SeqOfAll
  <2>3. ASSUME NEW t \in Lined(db, table.sort, M) PROVE items = Slice(t, skip, table.limit)
    <3>1. CASE listing.pages = "overfetch"
      <4>1. items = Slice(Slice(t, skip, take), 0, table.limit)
        BY <1>3, <2>1, <3>1 DEF ItemsRead
      <4>2. take \in Nat /\ table.limit =< take
        BY <1>11
      <4> HIDE DEF skip, take
      <4> QED BY <1>11, <2>2, <4>1, <4>2, SliceOfSlice
    <3>2. CASE listing.pages # "overfetch"
      <4>1. rows = Slice(t, skip, take) /\ take = table.limit /\ items = rows
        BY <1>3, <2>1, <3>2
      <4> HIDE DEF skip, take
      <4> QED BY <4>1
    <3> QED BY <3>1, <3>2
  <2>4. ASSUME walk' # Broken, NEW t \in Lined(db, table.sort, M) PROVE walk' = Slice(t, 0, last)
    <3>1. walk # Broken /\ walk' = walk \o items
      BY <1>2, <2>4
    <3>2. walk = Slice(t, 0, skip)
      BY <1>1, <1>7, <1>8, <3>1 DEF QuietInv
    <3>3. Slice(t, 0, skip) \o Slice(t, skip, table.limit) = Slice(t, 0, skip + table.limit)
      <4> HIDE DEF skip
      <4> QED BY <1>11, <2>2, SliceJoins
    <3> HIDE DEF skip
    <3> QED BY <1>11, <2>3, <3>1, <3>2, <3>3, Zenon
  <2>5. ASSUME table.page = q PROVE RowCount =< last
    <3>1. CASE listing.pages = "server"
      <4>1. pageFetch.total = RowCount
        BY <1>1, <1>2, <1>8, <3>1 DEF QuietInv
      <4>2. pageFetch.total =< q * table.limit
        BY <1>12, <3>1
      <4> QED BY <2>5, <4>1, <4>2
    <3>2. CASE listing.pages = "overfetch"
      <4>1. ~(Len(rows) > table.limit)
        <5>1. table.page + 1 # table.page
          BY <1>1
        <5> QED BY <1>3, <2>5, <3>2, <5>1
      <4>2. PICK t \in Lined(db, table.sort, M) : TRUE
        BY <1>1, LinedExists
      <4>3. t \in Seq(Nat) /\ Len(t) = RowCount /\ rows = Slice(t, skip, table.limit + 1)
        BY <2>1, <2>2, <3>2
      <4>4. ~(last < Len(t))
        BY <1>1, <4>1, <4>3, SliceLeaves
      <4> HIDE DEF last
      <4> QED BY <1>1, <1>11, <4>3, <4>4
    <3> QED BY <1>13, <3>1, <3>2
  <2> QED BY <1>2, <1>4, <1>7, <1>8, <2>4, <2>5 DEF QuietInv
<1>16. GrowInv'
  <2> SUFFICES ASSUME Grown, ~Tied, listing.reads # "first", walk' # Broken,
                      listing.total # "count" \/ table.sort.order = "asc"
               PROVE  GrowInv'
    BY <1>2, <1>8 DEF GrowInv
  <2>1. walk # Broken /\ walk' = walk \o items
    BY <1>2
  <2>2. ToSet(walk) \subseteq ToSet(walk') /\ ToSet(items) \subseteq ToSet(walk')
    BY <1>1, <1>3, <2>1, JoinedRows
  <2>3. ToSet(walk) \cup ToSet(ItemsRead) \subseteq ToSet(walk')
    BY <1>3, <2>2
  <2>4. before \cap FirstOf(db, table.sort, M, last) \subseteq ToSet(walk) \cup ToSet(ItemsRead)
    BY <1>1, <1>2, <1>7, <1>8, <2>1 DEF GrowInv
  <2>5. ASSUME table.page = q PROVE before \subseteq ToSet(walk')
    <3>1. CASE listing.total = "count"
      <4>1. Cardinality(before) =< pageFetch.total /\ pageFetch.total =< last /\ listing.pages = "server"
        <5>1. listing.pages = "server"
          BY <1>13, <3>1
        <5> QED BY <1>1, <1>2, <1>8, <1>12, <2>1, <2>5, <3>1, <5>1 DEF GrowInv
      <4>2. table.sort.by = "createdAt" /\ table.sort.order = "asc"
        BY <3>1 DEF Tied
      <4>3. before \subseteq M /\ \A i \in M \ before : \A j \in before : j < i
        BY <1>1 DEF BeforeInv
      <4>4. Cardinality(before) =< last
        <5>1. Cardinality(before) \in Nat
          BY <1>1, RowsFinite
        <5> HIDE DEF last
        <5> QED BY <1>1, <1>11, <4>1, <5>1
      <4>5. before \subseteq FirstOf(db, table.sort, M, last)
        <5>1. \A n \in Nat : Cardinality(before) =< n => before \subseteq FirstOf(db, table.sort, M, n)
          <6> HIDE DEF M
          <6> QED BY <1>1, <4>2, <4>3, OldestFirst
        <5> HIDE DEF last, M
        <5> QED BY <1>11, <4>4, <5>1
      <4> HIDE DEF last, M
      <4> QED BY <2>3, <2>4, <4>5
    <3>2. CASE listing.total = "snapshot"
      <4>1. pageFetch.total =< last
        <5>1. listing.pages = "server"
          BY <1>13, <3>2
        <5> QED BY <1>12, <2>5, <5>1
      <4>2. before \subseteq ToSet(walk) \cup ToSet(ItemsRead)
        BY <1>1, <1>2, <1>8, <2>1, <3>2, <4>1 DEF GrowInv
      <4> QED BY <2>3, <4>2
    <3>3. CASE listing.pages = "overfetch"
      <4>1. Len(rows) =< table.limit
        <5>1. table.page + 1 # table.page
          BY <1>1
        <5>2. ~(Len(rows) > table.limit)
          BY <1>3, <2>5, <3>3, <5>1
        <5> QED BY <1>11, <5>2
      <4>2. before \subseteq ToSet(walk) \cup ToSet(ItemsRead)
        BY <1>1, <1>2, <1>8, <2>1, <3>3, <4>1 DEF GrowInv
      <4> QED BY <2>3, <4>2
    <3> QED BY <1>13, <3>1, <3>2, <3>3
  <2> HIDE DEF M
  <2> QED BY <1>2, <1>4, <1>7, <1>8, <2>3, <2>4, <2>5 DEF GrowInv
<1> QED BY <1>6, <1>9, <1>10, <1>14, <1>15, <1>16 DEF ListInv

LEMMA RefetchKeeps == ListInv /\ Refetch => ListInv'
<1> SUFFICES ASSUME ListInv, Refetch PROVE ListInv'
  OBVIOUS
<1> DEFINE skip == (table.page - 1) * table.limit
           last == table.page * table.limit
<1>1. /\ ListTypes /\ FetchInv /\ BeforeInv /\ PageInv /\ QuietInv /\ GrowInv
      /\ Base \in SUBSET DOMAIN db /\ RowCount \in Nat /\ db \in Seq(Statuses) /\ table.sort \in ByAny
      /\ table.page \in Nat \ {0} /\ table.limit \in Nat \ {0} /\ walk \in Seq(Nat)
      /\ pageFetch \in [rows : Seq(DOMAIN db), read : BOOLEAN, total : Nat, counted : BOOLEAN]
  BY RowsInDb, ListingAssumption DEF ListInv, ListTypes
<1>2. /\ listing.pages = "browser" /\ shown # Blank
      /\ UNCHANGED <<listing, role, db, table, before, count>>
      /\ walk' = IF walk = Broken \/ shown'.items = shown.items THEN walk ELSE walk \o shown'.items
      /\ changed' = changed \cup
           {IF ToSet(pageFetch.rows) \subseteq ToSet(pageFetch'.rows) THEN "grown" ELSE "closed"}
  BY DEF Refetch
<1>3. PICK rows \in Reads :
        pageFetch' = [pageFetch EXCEPT !.rows = rows] /\ shown' = Page(rows, Len(rows))
  BY DEF Refetch
<1>4. pageFetch.read
  BY <1>1, <1>2 DEF FetchInv
<1>5. /\ rows \in Seq(DOMAIN db) /\ rows \in Lined(db, newestFirst, ToSet(rows))
      /\ listing.reads = "first" => Len(rows) =< Cap
  BY <1>1, <1>2, ReadsAre
<1>6. /\ pageFetch' \in [rows : Seq(DOMAIN db), read : BOOLEAN, total : Nat, counted : BOOLEAN]
      /\ pageFetch'.rows = rows /\ pageFetch'.read
  BY <1>1, <1>3, <1>4, <1>5
<1> DEFINE B == ToSet(rows)
<1>7. /\ Base = ToSet(pageFetch.rows) /\ Base' = B /\ B \in SUBSET DOMAIN db
      /\ RowCount' = Cardinality(B) /\ RowCount' \in Nat
  <2>1. Base = ToSet(pageFetch.rows) /\ Base' = B
    BY <1>2, <1>6 DEF Base
  <2>2. B \in SUBSET DOMAIN db
    BY <1>5, LenProperties, ElementOfSeq DEF ToSet
  <2> QED BY <1>1, <2>1, <2>2, RowsFinite DEF RowCount
<1>8. PICK s \in Lined(db, table.sort, B) : TRUE
  BY <1>1, <1>7, LinedExists
<1>9. s \in Seq(Nat) /\ Len(s) = RowCount' /\ Len(rows) = RowCount'
  <2>1. s \in SetToSeqs(B) /\ rows \in SetToSeqs(B)
    BY <1>5 DEF Lined
  <2> QED BY <1>1, <1>7, <2>1, SeqOfAll
<1>10. skip \in Nat /\ last = skip + table.limit /\ last \in Nat /\ table.limit \in Nat
  BY <1>1, Pages
<1> DEFINE q == pageCount(Len(rows), table.limit)
<1>11. shown' = [items |-> Slice(s, skip, table.limit), pages |-> q]
  <2>1. Page(rows, Len(rows)) = paginate(rows)
    BY <1>2 DEF Page
  <2>2. paginate(rows) = [items |-> Slice(s, skip, table.limit), pages |-> q]
    BY <1>1, <1>5, <1>7, PaginateIs
  <2> QED BY <1>3, <2>1, <2>2, Zenon
<1>12. q \in Nat \ {0} /\ RowCount' =< q * table.limit /\ (q > 1 => (q - 1) * table.limit < RowCount')
  BY <1>1, <1>7, <1>9, PageCountIs
<1>13. shown'.items = Slice(s, skip, table.limit) /\ shown'.pages = q /\ shown'.items \in Seq(Nat)
  <2>1. Slice(s, skip, table.limit) \in Seq(Nat)
    <3> HIDE DEF skip
    <3> QED BY <1>9, <1>10, SliceIs
  <2> QED BY <1>11, <2>1
<1> HIDE DEF q
<1>14. shown' # Blank /\ shown' \in [items : Seq(Nat), pages : Nat]
  BY <1>11, <1>12, <1>13 DEF Blank, q
<1>15. walk' \in Seq(Nat) /\ ToSet(walk) \subseteq ToSet(walk') /\ (walk' # Broken => walk # Broken)
  BY <1>1, <1>2, <1>13, JoinedRows
<1>16. ListTypes'
  BY <1>1, <1>2, <1>6, <1>14, <1>15 DEF ListTypes
<1>17. changed' # {} /\ (Grown' => Grown /\ Base \subseteq B)
  BY <1>2, <1>6, <1>7 DEF Grown
<1>18. FetchInv'
  BY <1>2, <1>5, <1>6, <1>7, <1>12, <1>13 DEF FetchInv
<1>19. BeforeInv'
  BY <1>1, <1>2, <1>4, <1>6, <1>7, <1>17 DEF BeforeInv
<1>20. Grown' => RowCount =< RowCount'
  <2>1. IsFiniteSet(B)
    BY <1>1, <1>7, RowsFinite
  <2> QED BY <1>7, <1>17, <2>1, FS_Subset DEF RowCount
<1>21. PageInv'
  <2> SUFFICES ASSUME Grown' PROVE PageInv'
    BY DEF PageInv
  <2>1. table.page > 1 => skip < RowCount'
    <3>1. table.page > 1 => skip < RowCount
      BY <1>1, <1>17 DEF PageInv
    <3> HIDE DEF skip
    <3> QED BY <1>1, <1>7, <1>10, <1>20, <3>1
  <2>2. table.page > 1 => shown'.items # <<>>
    <3>1. skip < Len(s) /\ 0 < table.limit => Slice(s, skip, table.limit) # <<>>
      <4> HIDE DEF skip
      <4> QED BY <1>9, <1>10, SliceEnds
    <3>2. 0 < table.limit
      BY <1>1
    <3> HIDE DEF skip
    <3> QED BY <1>9, <1>13, <2>1, <3>1, <3>2
  <2> QED BY <1>2, <1>12, <1>13, <1>14, <2>1, <2>2 DEF PageInv
<1>22. QuietInv'
  BY <1>17 DEF QuietInv
<1>23. GrowInv'
  <2> SUFFICES ASSUME Grown', ~Tied, listing.reads # "first", walk' # Broken
               PROVE  GrowInv'
    BY <1>2 DEF GrowInv, Tied
  <2>1. /\ Grown /\ Loaded /\ walk # Broken /\ Base \subseteq B /\ Paged = table.page
        /\ Paged' = table.page /\ listing.total # "count"
    BY <1>1, <1>2, <1>4, <1>14, <1>15, <1>17 DEF Loaded, Paged, ListTypes, ListShape
  <2>2. before \cap FirstOf(db, table.sort, Base, last) \subseteq ToSet(walk)
    BY <1>1, <2>1 DEF GrowInv
  <2>3. before \subseteq Base
    BY <1>1, <1>2, <1>4, <2>1 DEF BeforeInv
  <2>4. before \cap FirstOf(db, table.sort, B, last) \subseteq ToSet(walk')
    <3>1. Base \cap FirstOf(db, table.sort, B, last) \subseteq FirstOf(db, table.sort, Base, last)
      <4> HIDE DEF last
      <4> QED BY <1>1, <1>7, <1>10, <2>1, FirstOfFewer
    <3> HIDE DEF last
    <3> QED BY <1>15, <2>2, <2>3, <3>1
  <2>5. ASSUME table.page = q PROVE before \subseteq ToSet(walk')
    <3>1. RowCount' =< last
      BY <1>12, <2>5
    <3>2. FirstOf(db, table.sort, B, last) = B
      <4>1. Cardinality(B) =< last
        BY <1>7, <3>1
      <4>2. db \in Seq(Statuses) /\ table.sort \in ByAny /\ B \in SUBSET DOMAIN db
        BY <1>1, <1>7
      <4> HIDE DEF last, B
      <4>3. Cardinality(B) =< last => FirstOf(db, table.sort, B, last) = B
        BY <1>10, <4>2, FirstOfNumbers
      <4> QED BY <4>1, <4>3
    <3> HIDE DEF last
    <3> QED BY <2>1, <2>3, <2>4, <3>2
  <2> QED BY <1>2, <1>7, <1>13, <1>14, <2>1, <2>4, <2>5 DEF GrowInv
<1> QED BY <1>16, <1>18, <1>19, <1>21, <1>22, <1>23 DEF ListInv

LEMMA ListSteps == ListInv /\ [ListNext]_listVars => ListInv'
<1>1. ASSUME ListInv, UNCHANGED listVars PROVE ListInv'
  <2>1. UNCHANGED <<listing, db, table, pageFetch, shown, walk, before, changed>>
    BY <1>1 DEF listVars
  <2>2. /\ Base' = Base /\ RowCount' = RowCount /\ (Grown' <=> Grown) /\ Paged' = Paged
        /\ (Loaded' <=> Loaded) /\ ItemsRead' = ItemsRead /\ (Tied' <=> Tied) /\ Visible' = Visible
        /\ Matching(table.filter)' = Matching(table.filter)
    BY <2>1 DEF Base, RowCount, Grown, Paged, Loaded, ItemsRead, Matching, Tied, Visible
  <2>3. ListTypes' /\ FetchInv'
    BY <1>1, <2>1, <2>2 DEF ListInv, ListTypes, FetchInv
  <2>4. BeforeInv' /\ PageInv'
    BY <1>1, <2>1, <2>2 DEF ListInv, BeforeInv, PageInv
  <2>5. QuietInv' /\ GrowInv'
    BY <1>1, <2>1, <2>2 DEF ListInv, QuietInv, GrowInv
  <2> QED BY <2>3, <2>4, <2>5 DEF ListInv
<1>2. ListInv /\ (ReadRows \/ ShowPage) => ListInv'
  BY ReadKeepsBrowser, ReadKeepsServer, ShowKeepsBrowser, ShowKeepsServer
<1> QED BY <1>1, <1>2, CountedKeeps, RefetchKeeps, SetPageKeeps, SetSortingKeeps, StartingOverKeeps,
           InsertedRowKeeps, ClosedRowKeeps DEF ListNext

\* What the invariant says of the walk.
LEMMA ListsSound == ListInv => ListingSound
<1> SUFFICES ASSUME ListInv PROVE ListingSound
  OBVIOUS
<1>1. /\ ListTypes /\ FetchInv /\ BeforeInv /\ PageInv /\ QuietInv /\ GrowInv
      /\ Base \in SUBSET DOMAIN db /\ RowCount \in Nat /\ db \in Seq(Statuses) /\ table.sort \in ByAny
      /\ table.page \in Nat \ {0} /\ table.limit \in Nat \ {0}
      /\ before \subseteq DOMAIN db
  BY RowsInDb, ListingAssumption DEF ListInv, ListTypes
<1>2. table.page * table.limit \in Nat
  BY <1>1
<1>3. shown # Blank => Loaded /\ Paged = table.page
  BY <1>1 DEF FetchInv, Loaded, Paged
<1>4. QuietWalkExact
  <2> SUFFICES ASSUME WalkDone, changed = {}, ~Tied
               PROVE  /\ ToSet(walk) = Visible /\ Len(walk) = Cardinality(Visible)
                      /\ Sorted(table.sort, walk)
    BY DEF QuietWalkExact
  <2>1. shown # Blank /\ walk # Broken /\ table.page = shown.pages
    BY DEF WalkDone
  <2>2. PICK s \in Lined(db, table.sort, Base) : TRUE
    BY <1>1, LinedExists
  <2>3. s \in Seq(Nat) /\ ToSet(s) = Base /\ Len(s) = RowCount /\ Sorted(table.sort, s)
    <3>1. s \in SetToSeqs(Base)
      BY DEF Lined
    <3> QED BY <1>1, <3>1, SeqOfAll, LinedSorted DEF RowCount
  <2>4. walk = Slice(s, 0, table.page * table.limit) /\ RowCount =< table.page * table.limit
    BY <1>1, <1>3, <2>1 DEF QuietInv
  <2>5. walk = s
    <3> DEFINE n == table.page * table.limit
    <3>1. n \in Nat /\ Len(s) =< n /\ walk = Slice(s, 0, n)
      BY <1>2, <2>3, <2>4
    <3> HIDE DEF n
    <3> QED BY <2>3, <3>1, SliceEnds
  <2>6. Visible = Base
    <3>1. CASE listing.pages = "browser"
      BY <1>1, <1>3, <2>1, <3>1 DEF BeforeInv, Loaded
    <3>2. CASE listing.pages # "browser"
      BY <1>1, <3>2 DEF BeforeInv, Base, Visible
    <3> QED BY <3>1, <3>2
  <2> QED BY <2>3, <2>5, <2>6 DEF RowCount
<1>5. GrowingWalkComplete
  BY <1>1, <1>3 DEF GrowingWalkComplete, GrowInv, WalkDone, Grown
<1>6. NoEmptyPage
  BY <1>1 DEF NoEmptyPage, PageInv, Grown
<1> QED BY <1>4, <1>5, <1>6 DEF ListingSound

\* The tables of the dashboard and of the console page through their lists without
\* losing, repeating or hiding rows, at every page size and for every number of rows.
THEOREM ListsCorrect == ASSUME Listings \subseteq Tables PROVE ListSpec => []ListingSound
<1>1. ListInit => ListInv
  BY ListStarts
<1>2. ListInv /\ [ListNext]_listVars => ListInv'
  BY ListSteps
<1>3. ListInv => ListingSound
  BY ListsSound
<1> QED BY <1>1, <1>2, <1>3, PTL DEF ListSpec

=============================================================================
