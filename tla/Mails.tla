-------------------------------- MODULE Mails --------------------------------
(***************************************************************************)
(* Messages to people's mailboxes: the mails of NotificationService with   *)
(* the links and the dates they state, and what the server does when a link *)
(* is followed.  Time is in hours.                                         *)
(*                                                                         *)
(* A link is a token: of an EmailVerificationToken, a PasswordResetToken   *)
(* or an AccountInvitation.  Whether the person who accepts an invitation  *)
(* is a member already, and the plan has room for one more, is the state   *)
(* of Members; here it is whatever the request finds.                      *)
(***************************************************************************)
EXTENDS Naturals

CONSTANTS Links,       \* tokens that are mailed
          People,      \* mailboxes
          Moments      \* hours at which something may happen

\* The link of the mail about a canceled subscription carries no token.
ASSUME MailsAssumption ==
  Moments \subseteq Nat /\ 0 \in Moments /\ "resubscribe" \notin Links

VARIABLES
  hour,
  token,     \* token of each link
  mail,      \* mails delivered: the template and what it states
  using,     \* links whose request has passed its checks and not committed
  followed,  \* answer to the link followed last
  ended,     \* links used, canceled, or replaced by a later one
  subscription \* the account's subscription: paid until, and whether keys pass

mailVars == <<hour, token, mail, using, followed, ended, subscription>>

NoToken == [kind |-> "none", of |-> "nobody", expires |-> 0, status |-> "none"]
NotFollowed == [link |-> "none"]

MailsInit ==
  /\ hour = 0
  /\ token = [l \in Links |-> NoToken] /\ mail = {}
  /\ using = {} /\ followed = NotFollowed /\ ended = {}
  /\ subscription \in [paidUntil : Moments, open : {TRUE}]

\* A request lasts less than an hour.
TimePasses ==
  /\ using = {}
  /\ hour' \in {m \in Moments : m > hour}
  /\ UNCHANGED <<token, mail, using, followed, ended, subscription>>

-----------------------------------------------------------------------------
(* Mails.  A template states what it is given; send() may fail, and nothing *)
(* but a log line remembers that.                                           *)

Template(name, to, link, until) ==
  [template |-> name, to |-> to, link |-> link, until |-> until]
emailVerification(p, l, hours) == Template("emailVerification", p, l, hour + hours)
accountInvitation(p, l, days) == Template("accountInvitation", p, l, hour + 24 * days)
passwordResetRequest(p, l, hours) == Template("passwordResetRequest", p, l, hour + hours)
passwordResetSuccess(p) == Template("passwordResetSuccess", p, "none", hour)
subscriptionCanceled(until) == Template("subscriptionCanceled", "owner", "resubscribe", until)

send(m) == mail' \in {mail, mail \cup {m}}

SendEmailVerification(p, l) == send(emailVerification(p, l, 24))
SendInvitationStale(p, l) == send(accountInvitation(p, l, 7))
SendInvitation(p, l) == send(accountInvitation(p, l, 3))
SendPasswordReset(p, l) == send(passwordResetRequest(p, l, 1))
SendPasswordResetSuccess(p) == send(passwordResetSuccess(p))
SendSubscriptionCanceled == send(subscriptionCanceled(subscription.paidUntil))

-----------------------------------------------------------------------------
(* Tokens. *)

\* ttlMs of the tokens Register, InviteMember and RequestPasswordReset create.
ttlHours == [verify |-> 24, invite |-> 3 * 24, reset |-> 1]

NewToken(kind, p) ==
  [kind |-> kind, of |-> p, expires |-> hour + ttlHours[kind],
   status |-> IF kind = "invite" THEN "PENDING" ELSE "unused"]
TokensOf(p, kind) == {l \in Links : token[l].kind = kind /\ token[l].of = p}

\* The rows that are left of a person's tokens of a kind, before a new one is
\* saved: one active token at a time.
keepsAll(p, kind) == token
deleteAllByUserId(p, kind) ==
  [l \in Links |-> IF l \in TokensOf(p, kind)
                   THEN [token[l] EXCEPT !.status = "deleted"] ELSE token[l]]

IssueAnew(l, kind, p) ==
  /\ token[l] = NoToken
  /\ token' = [deleteAllByUserId(p, kind) EXCEPT ![l] = NewToken(kind, p)]
  /\ ended' = ended \cup TokensOf(p, kind)
  /\ UNCHANGED <<hour, using, followed, subscription>>

\* Register and resend-verification: until the address is verified.
isEmailVerified(p) == \E l \in TokensOf(p, "verify") : token[l].status = "used"
IssueVerification ==
  \E l \in Links, p \in People :
    /\ ~isEmailVerified(p)
    /\ IssueAnew(l, "verify", p) /\ SendEmailVerification(p, l)

IssueReset ==
  \E l \in Links, p \in People : IssueAnew(l, "reset", p) /\ SendPasswordReset(p, l)

\* InviteMember replaces nothing: a pending invitation of the address, even one
\* that has expired, refuses another.
findPendingByEmail(p) == {l \in TokensOf(p, "invite") : token[l].status = "PENDING"}
IssueInvitation ==
  \E l \in Links, p \in People :
    /\ findPendingByEmail(p) = {} /\ token[l] = NoToken
    /\ token' = [token EXCEPT ![l] = NewToken("invite", p)]
    /\ SendInvitation(p, l)
    /\ UNCHANGED <<hour, using, followed, ended, subscription>>

CancelInvitation ==
  \E l \in Links :
    /\ token[l].kind = "invite" /\ token[l].status = "PENDING"
    /\ token' = [token EXCEPT ![l].status = "CANCELED"]
    /\ ended' = ended \cup {l}
    /\ UNCHANGED <<hour, mail, using, followed, subscription>>

-----------------------------------------------------------------------------
(* Following a link: the request reads the token and checks, then writes    *)
(* what it has decided; two requests may read a token before either writes. *)

\* EmailVerificationToken's and PasswordResetToken's.
ensureTokenValid(t) == t.status = "unused" /\ t.expires > hour
\* Mutant of ensureInvitationValid.
ensureInvitationUnaccepted(t) == t.status # "ACCEPTED" /\ t.expires > hour
ensureInvitationValid(t) == t.status = "PENDING" /\ t.expires > hour

\* fit is whether the visitor may use the link at all.
Answer(m, fit, ok) ==
  /\ followed' = [link |-> m.link, ended |-> m.link \in ended, until |-> m.until,
                  at |-> hour, fit |-> fit, ok |-> ok]
  /\ using' = IF ok THEN using \cup {m.link} ELSE using
  /\ UNCHANGED <<hour, token, mail, ended, subscription>>

VerifyEmail ==
  \E m \in mail : /\ m.template = "emailVerification"
                  /\ Answer(m, TRUE, ensureTokenValid(token[m.link]))

ResetPassword ==
  \E m \in mail : /\ m.template = "passwordResetRequest"
                  /\ Answer(m, TRUE, ensureTokenValid(token[m.link]))

\* The visitor is signed in, perhaps with another address than the invitation's.
AcceptInvitation ==
  \E m \in mail, email \in People, member \in BOOLEAN, canAccept \in BOOLEAN :
    /\ m.template = "accountInvitation"
    /\ Answer(m, email = m.to /\ ~member /\ canAccept,
              /\ ensureInvitationValid(token[m.link])
              /\ email = token[m.link].of /\ ~member /\ canAccept)

\* The transaction writes markUsed or markAccepted, or is rolled back.
markUsed(t) == [t EXCEPT !.status = IF t.kind = "invite" THEN "ACCEPTED" ELSE "used"]
UseCommits ==
  \E l \in using :
    /\ using' = using \ {l}
    /\ \/ /\ token' = [token EXCEPT ![l] = markUsed(token[l])]
          /\ ended' = ended \cup {l}
          /\ IF token[l].kind = "reset" THEN SendPasswordResetSuccess(token[l].of)
             ELSE UNCHANGED mail
       \/ UNCHANGED <<token, ended, mail>>
    /\ UNCHANGED <<hour, followed, subscription>>

\* customer.subscription.deleted: the account is canceled and its keys dropped
\* from the cache; the mail states the end of the paid period.
SubscriptionDeleted ==
  /\ subscription.open /\ subscription' = [subscription EXCEPT !.open = FALSE]
  /\ SendSubscriptionCanceled
  /\ UNCHANGED <<hour, token, using, followed, ended>>

MailsNext ==
  \/ TimePasses \/ IssueVerification \/ IssueInvitation \/ IssueReset
  \/ CancelInvitation \/ VerifyEmail \/ ResetPassword \/ AcceptInvitation
  \/ UseCommits \/ SubscriptionDeleted
MailsSpec == MailsInit /\ [][MailsNext]_mailVars

-----------------------------------------------------------------------------
(* Properties. *)

\* What a mail states of its link is what the server does.  A link that has not
\* been used, canceled or replaced by a later one works until the hour the mail
\* gives; from then on, or once it has been, it does not.  An invitation works so
\* for the mailbox it was sent to, while its owner is no member and the plan has
\* room: those are the only other reasons to refuse it.
MailsKeepTheirWord ==
  [][followed' # followed =>
       (followed'.ok <=> /\ ~followed'.ended /\ followed'.at < followed'.until
                         /\ followed'.fit)]_mailVars

\* The subscriptionCanceled template: "You'll continue to have access until"
\* the end of the paid period.
AccessUntilStated ==
  \A m \in mail : m.template = "subscriptionCanceled" /\ hour < m.until => subscription.open

=============================================================================
