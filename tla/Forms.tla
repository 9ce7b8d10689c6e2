-------------------------------- MODULE Forms --------------------------------
(***************************************************************************)
(* The forms and dialogs of the web and admin apps: what a user can do     *)
(* while a submission is under way, and what its answer does to a form     *)
(* that was closed, opened again or left in the meantime.                  *)
(*                                                                         *)
(* A dialog is part of its page and stays mounted while it is closed.  The *)
(* callbacks given to mutate() run only while the page is mounted, and not *)
(* once the mutation was reset.  What is typed, sent and answered is left  *)
(* out but for which opening of the dialog it belongs to.                  *)
(***************************************************************************)
EXTENDS Naturals, FiniteSets

CONSTANTS FormViews,    \* the views that are checked, of those defined below
          MaxOpenings   \* bound on the openings of a dialog and visits of a page

ASSUME FormsAssumption == MaxOpenings \in Nat

VARIABLES
  view,      \* the view the behaviour is about
  mounted,   \* its page is shown
  open,      \* the dialog is open; TRUE for a form that is part of the page
  opening,   \* number of the opening
  visit,     \* first opening since the page was visited
  draft,     \* opening whose input the form holds, 0 when it is as reset
  message,   \* the form is replaced by a message of success
  sent,      \* submissions under way: their opening, whether they are heard and
             \* (history) whether a timer was about to close the dialog
  timers,    \* timers that run
  secrets    \* secrets by where they are: shown, saved, or lost

formVars == <<view, mounted, open, opening, visit, draft, message, sent, timers, secrets>>

-----------------------------------------------------------------------------
(* The views. *)

View(closing, success, failure) ==
  [closing |-> closing, success |-> success, failure |-> failure,
   secret |-> FALSE, seeded |-> FALSE, onMount |-> FALSE]

\* closing: "free", "settled" (not while a submission is under way), "detach"
\* (the mutation is reset), "forget" (it closes on submitting: its callers in
\* the admin app do not return the promise), "never" (a form of the page).
Dialog == View("free", "close", "keep")
PageForm == View("never", "stay", "keep")

InviteMemberDialog == Dialog
ChangeRoleDialog == Dialog
CreateOrgDialog == Dialog
CreateRoleDialog == Dialog
CreateAbilityDialog == Dialog
CreateApiKeyDialog == [Dialog EXCEPT !.secret = TRUE]
CreateAdminDialog == [Dialog EXCEPT !.closing = "detach"]
UpgradeDialog == [Dialog EXCEPT !.success = "stay"]
TransferOwnershipDialog == [Dialog EXCEPT !.closing = "settled"]
RotateApiKeyDialog == [Dialog EXCEPT !.closing = "settled", !.secret = TRUE]
Confirmation == [Dialog EXCEPT !.closing = "settled", !.failure = "close"]
AdminConfirmation == [Confirmation EXCEPT !.closing = "forget"]
FeedbackButton == [Dialog EXCEPT !.closing = "settled", !.success = "message"]

Login == PageForm
AdminLogin == PageForm
Register == PageForm
SubscriptionCard == PageForm
ForgotPasswordView == [PageForm EXCEPT !.success = "message", !.failure = "message"]
ResetPasswordView == [PageForm EXCEPT !.success = "message"]
ChangePasswordView == [PageForm EXCEPT !.failure = "clear"]
OrgSettingsView == [PageForm EXCEPT !.seeded = TRUE]
ProfileView == OrgSettingsView
AdminFeedbackDetailView == OrgSettingsView
AdminRoleDetailView == OrgSettingsView
EditAdminProfileCard == OrgSettingsView
VerifyEmailView == [PageForm EXCEPT !.success = "message", !.failure = "message", !.onMount = TRUE]
AcceptInvitationView == VerifyEmailView

Views ==
  {InviteMemberDialog, ChangeRoleDialog, CreateOrgDialog, CreateRoleDialog,
   CreateAbilityDialog, CreateApiKeyDialog, CreateAdminDialog, UpgradeDialog,
   TransferOwnershipDialog, RotateApiKeyDialog, Confirmation, AdminConfirmation,
   FeedbackButton, Login, AdminLogin, Register, SubscriptionCard, ForgotPasswordView,
   ResetPasswordView, ChangePasswordView, OrgSettingsView, ProfileView,
   AdminFeedbackDetailView, AdminRoleDetailView, EditAdminProfileCard, VerifyEmailView,
   AcceptInvitationView}

ASSUME FormViewsAssumption == FormViews \subseteq Views

-----------------------------------------------------------------------------

isDialog == view.closing # "never"
isPending == \E s \in sent : s.heard
Submission(n) == [opening |-> n, heard |-> TRUE, hurried |-> "close" \in timers]

FormsInit ==
  /\ view \in FormViews
  /\ mounted = FALSE /\ open = FALSE /\ opening = 0 /\ visit = 0 /\ draft = 0 /\ message = FALSE
  /\ sent = {} /\ timers = {} /\ secrets = [shown |-> {}, saved |-> {}, lost |-> {}]

\* A page is visited.  Some submit as they are mounted.
Mount ==
  /\ ~mounted /\ opening < MaxOpenings
  /\ mounted' = TRUE /\ open' = ~isDialog
  /\ opening' = opening + 1 /\ visit' = opening'
  /\ sent' = IF view.onMount THEN sent \cup {Submission(opening')} ELSE sent
  /\ UNCHANGED <<view, draft, message, timers, secrets>>

\* A page is left: requests go on unheard, and a secret on the screen is gone.
Unmount ==
  /\ mounted /\ mounted' = FALSE /\ open' = FALSE /\ draft' = 0 /\ message' = FALSE
  /\ sent' = {[s EXCEPT !.heard = FALSE] : s \in sent} /\ timers' = {}
  /\ secrets' = [secrets EXCEPT !.shown = {}, !.lost = @ \cup secrets.shown]
  /\ UNCHANGED <<view, visit, opening>>

\* A secret is shown in a modal dialog: nothing else opens meanwhile.
OpenDialog ==
  /\ mounted /\ isDialog /\ ~open /\ opening < MaxOpenings /\ secrets.shown = {}
  /\ open' = TRUE /\ opening' = opening + 1
  /\ UNCHANGED <<view, visit, mounted, draft, message, sent, timers, secrets>>

TypeInto ==
  /\ open /\ ~message /\ ~view.onMount /\ draft' = opening
  /\ UNCHANGED <<view, visit, mounted, open, opening, message, sent, timers, secrets>>

\* The button is disabled while the mutation is pending.
SubmitForm ==
  /\ open /\ ~message /\ draft = opening /\ ~view.onMount /\ ~isPending
  /\ IF view.closing = "forget"
     THEN /\ sent' = sent \cup {[Submission(opening) EXCEPT !.heard = FALSE]}
          /\ open' = FALSE /\ draft' = 0
     ELSE sent' = sent \cup {Submission(opening)} /\ UNCHANGED <<open, draft>>
  /\ UNCHANGED <<view, visit, mounted, opening, message, timers, secrets>>

mayCloseAlways == view.closing # "never"
mayClose == view.closing \in {"free", "detach", "forget"} \/ (view.closing = "settled" /\ ~isPending)

\* The feedback dialog is reset 300 ms after it is closed, the others at once.
Reset == IF view = FeedbackButton
         THEN timers' = timers \cup {"reset"} /\ UNCHANGED <<draft, message>>
         ELSE draft' = 0 /\ UNCHANGED <<timers, message>>

CloseDialog ==
  /\ open /\ mayClose /\ open' = FALSE /\ Reset
  /\ sent' = IF view.closing = "detach" THEN {[s EXCEPT !.heard = FALSE] : s \in sent} ELSE sent
  /\ UNCHANGED <<view, visit, mounted, opening, secrets>>

\* What an answer does to the form, whatever opening it belongs to.
React(how) ==
  \/ how = "close" /\ open' = FALSE /\ draft' = 0 /\ UNCHANGED <<message, timers>>
  \/ how = "clear" /\ draft' = 0 /\ UNCHANGED <<open, message, timers>>
  \/ how \in {"stay", "keep"} /\ UNCHANGED <<open, draft, message, timers>>
  \/ /\ how = "message" /\ message' = TRUE /\ UNCHANGED <<open, draft>>
     /\ timers' = IF isDialog THEN timers \cup {"close"} ELSE timers

NewSecret(s) == secrets' = IF s.heard THEN [secrets EXCEPT !.shown = @ \cup {s.opening}]
                                      ELSE [secrets EXCEPT !.lost = @ \cup {s.opening}]

Succeeds ==
  \E s \in sent :
    /\ sent' = sent \ {s}
    /\ IF s.heard THEN React(view.success) ELSE UNCHANGED <<open, draft, message, timers>>
    /\ IF view.secret THEN NewSecret(s) ELSE UNCHANGED secrets
    /\ UNCHANGED <<view, visit, mounted, opening>>

Fails ==
  \E s \in sent :
    /\ sent' = sent \ {s}
    /\ IF s.heard THEN React(view.failure) ELSE UNCHANGED <<open, draft, message, timers>>
    /\ UNCHANGED <<view, visit, mounted, opening, secrets>>

\* ApiKeySecretDialog closes once its box is ticked.
ConfirmSecret ==
  /\ secrets.shown # {}
  /\ \E s \in secrets.shown :
       secrets' = [secrets EXCEPT !.shown = @ \ {s}, !.saved = @ \cup {s}]
  /\ UNCHANGED <<view, visit, mounted, open, opening, draft, message, sent, timers>>

\* A form filled from the server's copy is filled again when the copy changes.
Reseed ==
  /\ mounted /\ view.seeded /\ draft # 0 /\ draft' = 0
  /\ UNCHANGED <<view, visit, mounted, open, opening, message, sent, timers, secrets>>

\* The feedback dialog closes itself 2 s after a success, by a handleClose that
\* still sees the mutation as it was before the submission.
TimerCloses ==
  /\ "close" \in timers /\ open' = FALSE /\ timers' = (timers \ {"close"}) \cup {"reset"}
  /\ UNCHANGED <<view, visit, mounted, opening, draft, message, sent, secrets>>

TimerResets ==
  /\ "reset" \in timers /\ timers' = timers \ {"reset"} /\ draft' = 0 /\ message' = FALSE
  /\ UNCHANGED <<view, visit, mounted, open, opening, sent, secrets>>

FormsNext ==
  \/ Mount \/ Unmount \/ OpenDialog \/ TypeInto \/ SubmitForm \/ CloseDialog
  \/ Succeeds \/ Fails \/ ConfirmSecret \/ Reseed \/ TimerCloses \/ TimerResets
FormsSpec == FormsInit /\ [][FormsNext]_formVars

-----------------------------------------------------------------------------

\* While a page stays, however its dialog is closed and opened again: at most
\* one submission is under way of those whose answer is heard; a dialog that
\* does not close meanwhile gives the answer to the opening it was made in; and
\* a secret the server made is shown, one at a time, until the user confirms to
\* have stored it, also when the dialog that asked for it was closed.  The
\* feedback dialog may be closed under a submission only by the timer of an
\* earlier success that had not yet fired when the submission was made.
OneSubmission == \A s, t \in sent : s.heard /\ t.heard => s = t
AnswersOwnOpening ==
  view.closing = "settled" =>
    \A s \in sent : s.heard /\ ~s.hurried => open /\ s.opening = opening
FormsSound ==
  [][/\ OneSubmission' /\ AnswersOwnOpening' /\ Cardinality(secrets'.shown) =< 1
     /\ mounted /\ mounted' => /\ secrets.shown \subseteq secrets'.shown \cup secrets'.saved
                               /\ \A n \in secrets'.lost \ secrets.lost : n < visit]_formVars
=============================================================================
