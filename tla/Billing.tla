------------------------------ MODULE Billing ------------------------------
(***************************************************************************)
(* Billing in the API (src/apps/api/src/modules/billing): Stripe webhooks, *)
(* the checkout session, the hourly grace period worker and the plan the   *)
(* account's limits come from.                                             *)
(*                                                                         *)
(* Stripe is the environment.  It moves its subscriptions and posts an     *)
(* event for every move; events are delivered in any order, several at     *)
(* once, and again when the API answers 500 or the answer is lost.  Every  *)
(* await of a handler is a step of its own, so what a handler read may be  *)
(* stale when it writes.  The event number is Stripe's creation order,     *)
(* which the code never looks at; it is kept to say which deliveries were  *)
(* in order.                                                               *)
(***************************************************************************)
EXTENDS Integers, FiniteSets

CONSTANTS Accounts,       \* the accounts
          Subs,           \* Stripe subscription ids
          AccountOf,      \* the account in a subscription's metadata
          Deliveries,     \* webhook requests the API can handle at once
          Checkouts,      \* checkout requests the API can handle at once
          GracePeriod,    \* GRACE_PERIOD_MS, in clock units
          MaxClock,       \* bound on the clock
          MaxEvents,      \* bound on the events Stripe posts
          MaxRetries      \* bound on thrown calls, lost answers and restarts

ASSUME BillingAssumption ==
  /\ AccountOf \in [Subs -> Accounts] /\ IsFiniteSet(Deliveries)
  /\ GracePeriod \in Nat \ {0}
  /\ MaxClock \in Nat /\ MaxEvents \in Nat /\ MaxRetries \in Nat

NoDeadline == -1
NoRow == [status |-> "none", plan |-> "FREE"]

SubscriptionStatus ==
  {"TRIALING", "ACTIVE", "PAST_DUE", "CANCELED", "UNPAID", "INCOMPLETE", "PAUSED"}
InvoiceStatus == {"DRAFT", "OPEN", "PAID", "UNCOLLECTIBLE", "VOID"}
BillingStatus == {"ACTIVE", "PAST_DUE", "SUSPENDED", "CANCELED"}
Plans == {"FREE", "PRO", "ENTERPRISE"}

VARIABLES
  stripe,        \* Stripe's own subscriptions: [status, plan]
  stripeInvoice, \* the status of a subscription's invoice at Stripe
  inflight,      \* events Stripe has still to have acknowledged
  posted,        \* events posted so far
  billing,       \* Account rows: status, graceEndsAt, stripeCustomerId
  subRow,        \* Subscription rows
  invoiceRow,    \* Invoice rows
  delivery,      \* webhook handlers
  checkout,      \* checkout handlers
  sessions,      \* checkout sessions a customer can still complete
  customers,     \* Stripe customers created so far
  worker,        \* GracePeriodWorker: the expired accounts it still has to do
  now,           \* the clock
  graces, failedMails, \* grace periods started, payment failed mails sent
  disorder,      \* some delivery overtook or overlapped another
  retries

stripeVars == <<stripe, stripeInvoice, inflight, posted, sessions>>
billingVars ==
  <<stripe, stripeInvoice, inflight, posted, billing, subRow, invoiceRow,
    delivery, checkout, sessions, customers, worker, now, graces,
    failedMails, disorder, retries>>

(***************************************************************************)
(* The Account row and the four updates of PrismaAccountBillingRepository. *)
(***************************************************************************)
SetStatus(a, st, deadline) ==
  billing' = [billing EXCEPT ![a].status = st, ![a].graceEndsAt = deadline]

updateBillingStatus(a, st) == SetStatus(a, st, NoDeadline)

\* Mutant: the second update of markPastDue forgets "graceEndsAt: null".
pastDueAnyDeadline(a) == billing[a].status = "PAST_DUE"

\* The two conditional updates of markPastDue: each one starts the clock only
\* for the state it names.
pastDueFromActive(a) == billing[a].status = "ACTIVE"
pastDueMissingDeadline(a) ==
  billing[a].status = "PAST_DUE" /\ billing[a].graceEndsAt = NoDeadline

startGrace(a) ==
  /\ SetStatus(a, "PAST_DUE", now + GracePeriod)
  /\ graces' = [graces EXCEPT ![a] = @ + 1]

\* Mutants of markActiveFromPastDue: the deadline stays; the guard is dropped.
markActiveKeepsDeadline(a) ==
  billing' = IF billing[a].status = "PAST_DUE"
             THEN [billing EXCEPT ![a].status = "ACTIVE"] ELSE billing
markActiveFromAny(a) == updateBillingStatus(a, "ACTIVE")

markActiveFromPastDue(a) ==
  billing' = IF billing[a].status = "PAST_DUE"
             THEN [billing EXCEPT ![a].status = "ACTIVE",
                                  ![a].graceEndsAt = NoDeadline]
             ELSE billing

(***************************************************************************)
(* Subscription rows.  save writes the whole entity the handler holds; a   *)
(* create collides with a row another handler created since the read.      *)
(***************************************************************************)
applyStripeUpdate(row, st) == [row EXCEPT !.status = st]

saveSubscription(s, row) == subRow' = [subRow EXCEPT ![s] = row]
createCollides(s, read) == read = NoRow /\ subRow[s] # NoRow

findByStripeSubscriptionId(s) == subRow[s]

\* findByAccountId: the most recently created row; the rows of one account are
\* created in the order of their checkouts, so it is one of those that exist.
findByAccountId(a) == {s \in Subs : AccountOf[s] = a /\ subRow[s] # NoRow}

isPastDue(row) == row.status = "PAST_DUE"
isActive(row) == row.status = "ACTIVE"
isTrialing(row) == row.status = "TRIALING"

\* Invoice.save: an upsert that overwrites whatever status the row has.
saveInvoice(s, st) == invoiceRow' = [invoiceRow EXCEPT ![s] = st]

mapStripeStatus(st) ==
  CASE st = "trialing" -> "TRIALING"
    [] st = "active" -> "ACTIVE"
    [] st = "past_due" -> "PAST_DUE"
    [] st = "canceled" -> "CANCELED"
    [] st = "unpaid" -> "UNPAID"
    [] st = "paused" -> "PAUSED"
    [] OTHER -> "INCOMPLETE"

Subscription_create(ev) == [status |-> mapStripeStatus(ev.status), plan |-> ev.plan]

\* Mutant: every status the switch does not name is a failed payment.
statusDefaultsToPastDue(st) ==
  CASE st \in {"ACTIVE", "TRIALING"} -> "ACTIVE"
    [] st = "CANCELED" -> "CANCELED"
    [] OTHER -> "PAST_DUE"

subscriptionStatusToAccountStatus(st) ==
  CASE st \in {"ACTIVE", "TRIALING"} -> "ACTIVE"
    [] st \in {"PAST_DUE", "UNPAID"} -> "PAST_DUE"
    [] st = "CANCELED" -> "CANCELED"
    [] OTHER -> "none"

(***************************************************************************)
(* The plan the limits come from (packages/shared planResolver).           *)
(***************************************************************************)
NOT_ENTITLED_ACCOUNT_STATUSES == {"SUSPENDED", "RESTRICTED", "CANCELED", "DELETED"}
CONNECTABLE_ACCOUNT_STATUSES == {"ACTIVE", "PAST_DUE"}

resolvePlanForAccount(a) ==
  IF \/ billing[a].status \in NOT_ENTITLED_ACCOUNT_STATUSES
     \/ findByAccountId(a) = {}
  THEN {"FREE"}
  ELSE {subRow[s].plan : s \in findByAccountId(a)}

(***************************************************************************)
(* Stripe: the environment.                                                *)
(***************************************************************************)
Event(kind, s, st, plan) ==
  [n |-> posted + 1, kind |-> kind, sub |-> s, status |-> st, plan |-> plan]
Post(evs) ==
  /\ posted + Cardinality(evs) =< MaxEvents
  /\ inflight' = inflight \cup evs
  /\ posted' = posted + Cardinality(evs)
Second(ev) == [ev EXCEPT !.n = @ + 1]

UNCHANGED_API ==
  UNCHANGED <<billing, subRow, invoiceRow, delivery, checkout, customers,
              worker, now, graces, failedMails, disorder, retries>>

StripeMoves(s, st, plan, inv) ==
  /\ stripe' = [stripe EXCEPT ![s] = [status |-> st, plan |-> plan]]
  /\ stripeInvoice' = [stripeInvoice EXCEPT ![s] = inv]

\* A customer completes a checkout session: a new subscription, not yet paid.
StripeSubscribes(s) ==
  /\ stripe[s].status = "none" /\ sessions[AccountOf[s]] > 0
  /\ sessions' = [sessions EXCEPT ![AccountOf[s]] = @ - 1]
  /\ \E plan \in {"PRO"} :
       /\ StripeMoves(s, "incomplete", plan, "draft")
       /\ Post({Event("upsert", s, "incomplete", plan)})
  /\ UNCHANGED_API

\* A payment goes through; the events of one move are posted in either order.
StripePays(s) ==
  /\ stripe[s].status \in {"incomplete", "past_due", "unpaid"}
  /\ StripeMoves(s, "active", stripe[s].plan, "paid")
  /\ LET up == Event("upsert", s, "active", stripe[s].plan)
         paid == Event("succeeded", s, "paid", stripe[s].plan)
     IN \/ Post({up, Second(paid)}) \/ Post({paid, Second(up)})
  /\ UNCHANGED <<sessions>> /\ UNCHANGED_API

\* A renewal, or the retry of one, fails.
StripeDeclines(s) ==
  /\ stripe[s].status \in {"active", "past_due"}
  /\ StripeMoves(s, "past_due", stripe[s].plan, "open")
  /\ LET up == Event("upsert", s, "past_due", stripe[s].plan)
         failed == Event("failed", s, "open", stripe[s].plan)
     IN IF stripe[s].status = "active"
        THEN Post({up, Second(failed)}) \/ Post({failed, Second(up)})
        ELSE Post({failed})
  /\ UNCHANGED <<sessions>> /\ UNCHANGED_API

\* Stripe gives up retrying, the customer changes plan, or cancels.
StripeTouches(s) ==
  /\ \/ /\ stripe[s].status = "past_due"
        /\ StripeMoves(s, "unpaid", stripe[s].plan, "uncollectible")
        /\ Post({Event("upsert", s, "unpaid", stripe[s].plan)})
     \/ /\ stripe[s].status = "active" /\ stripe[s].plan = "PRO"
        /\ StripeMoves(s, "active", "ENTERPRISE", stripeInvoice[s])
        /\ Post({Event("upsert", s, "active", "ENTERPRISE")})
     \/ /\ stripe[s].status \in {"incomplete", "active", "past_due", "unpaid"}
        /\ StripeMoves(s, "canceled", stripe[s].plan, stripeInvoice[s])
        /\ Post({Event("deleted", s, "canceled", stripe[s].plan)})
     \/ /\ stripe[s].status \notin {"none", "canceled"}
        /\ UNCHANGED <<stripe, stripeInvoice>>
        /\ Post({Event("invoice", s, stripeInvoice[s], stripe[s].plan)})
  /\ UNCHANGED <<sessions>> /\ UNCHANGED_API

(***************************************************************************)
(* The webhook handlers.  pc names the await a handler is at; row is the   *)
(* entity it holds.                                                        *)
(***************************************************************************)
IdleDelivery == [pc |-> "idle"]

UNCHANGED_STRIPE == UNCHANGED <<stripe, stripeInvoice, posted, sessions>>
UNCHANGED_OTHERS ==
  UNCHANGED <<checkout, customers, worker, now>> /\ UNCHANGED_STRIPE

Goto(d, pc) == delivery' = [delivery EXCEPT ![d].pc = pc]

\* The answer 200.  When it is lost on the way Stripe delivers the event again.
Acknowledge(d) ==
  /\ delivery' = [delivery EXCEPT ![d] = IdleDelivery]
  /\ \/ inflight' = inflight \ {delivery[d].ev} /\ UNCHANGED retries
     \/ retries < MaxRetries /\ retries' = retries + 1 /\ UNCHANGED inflight

InOrder(e) ==
  /\ \A f \in inflight : f.n >= e.n
  /\ \A d \in Deliveries : delivery[d].pc = "idle"

\* stripeWebhookRoutes and execute: the signature holds, and the event's kind
\* picks the handler; the handlers of invoices write the invoice first.
DeliverEvent(d, e) ==
  /\ delivery[d].pc = "idle"
  /\ \A d2 \in Deliveries : delivery[d2].pc # "idle" => delivery[d2].ev # e
  /\ delivery' = [delivery EXCEPT ![d] =
       [pc |-> IF e.kind \in {"succeeded", "failed", "invoice"} THEN "invoice" ELSE "read",
        ev |-> e, row |-> NoRow]]
  /\ disorder' = (disorder \/ ~InOrder(e))
  /\ UNCHANGED <<billing, subRow, invoiceRow, inflight, graces,
                 failedMails, retries>>
  /\ UNCHANGED_OTHERS

\* A database call throws: the handler rethrows, the answer is 500 and Stripe
\* delivers the event again; what was written stays written.  The last call that
\* can throw looks up the owner's address, for the two events that mail.
HandlerThrows(d) ==
  /\ delivery[d].pc # "idle"
  /\ delivery[d].pc = "notify" => delivery[d].ev.kind \in {"failed", "deleted"}
  /\ retries < MaxRetries
  /\ retries' = retries + 1
  /\ delivery' = [delivery EXCEPT ![d] = IdleDelivery]
  /\ UNCHANGED <<billing, subRow, invoiceRow, inflight, graces,
                 failedMails, disorder>>
  /\ UNCHANGED_OTHERS

\* resolveAccountIdFromCustomer and upsertInvoice: the account is found through
\* the subscription's row or the customer id of the account; without one there
\* is nothing to file the invoice under.
resolveAccountIdFromCustomer(s) ==
  subRow[s] # NoRow \/ billing[AccountOf[s]].customer # 0

\* Mutant of invoiceStatus.
rawInvoiceStatus(e) == e.status
\* handleInvoiceUpsert's statusMap; the two payment handlers impose theirs.
invoiceStatus(e) ==
  CASE e.kind = "succeeded" -> "PAID"
    [] e.kind = "failed" -> "OPEN"
    [] e.status = "draft" -> "DRAFT"
    [] e.status = "paid" -> "PAID"
    [] e.status = "uncollectible" -> "UNCOLLECTIBLE"
    [] e.status = "void" -> "VOID"
    [] OTHER -> "OPEN"

upsertInvoice(s, st) ==
  IF subRow[s] # NoRow \/ resolveAccountIdFromCustomer(s)
  THEN saveInvoice(s, st) ELSE UNCHANGED invoiceRow

HandleInvoice(d) ==
  LET e == delivery[d].ev IN
  /\ delivery[d].pc = "invoice"
  /\ upsertInvoice(e.sub, invoiceStatus(e))
  /\ IF e.kind = "invoice" THEN Acknowledge(d)
     ELSE Goto(d, "read") /\ UNCHANGED <<inflight, retries>>
  /\ UNCHANGED <<billing, subRow, graces, failedMails, disorder>>
  /\ UNCHANGED_OTHERS

\* Each handler looks its subscription up; only handleSubscriptionUpsert goes on
\* without a row.  A payment that succeeds matters only when the row is past due,
\* one that fails skips the save when the row already says so.
AfterRead(e, row) ==
  IF e.kind # "upsert" /\ row = NoRow THEN "done"
  ELSE CASE e.kind \in {"upsert", "deleted"} -> "save"
         [] e.kind = "succeeded" -> IF isPastDue(row) THEN "save" ELSE "done"
         [] e.kind = "failed" -> IF isPastDue(row) THEN "account" ELSE "save"

ReadSubscription(d) ==
  LET e == delivery[d].ev
      row == findByStripeSubscriptionId(e.sub)
      next == AfterRead(e, row)
  IN /\ delivery[d].pc = "read"
     /\ IF next = "done" THEN Acknowledge(d)
        ELSE /\ delivery' = [delivery EXCEPT ![d].pc = next, ![d].row = row]
             /\ UNCHANGED <<inflight, retries>>
     /\ UNCHANGED <<billing, subRow, invoiceRow, graces, failedMails, disorder>>
     /\ UNCHANGED_OTHERS

NewStatus(e) ==
  CASE e.kind = "upsert" -> mapStripeStatus(e.status)
    [] e.kind = "deleted" -> "CANCELED"
    [] e.kind = "succeeded" -> "ACTIVE"
    [] e.kind = "failed" -> "PAST_DUE"

\* Whole-entity save.  An upsert takes the plan of the event, the others write
\* back the plan they read.
Entity(d) ==
  LET e == delivery[d].ev
  IN IF e.kind = "upsert" THEN Subscription_create(e)
     ELSE applyStripeUpdate(delivery[d].row, NewStatus(e))

SaveSubscription(d) ==
  LET e == delivery[d].ev IN
  /\ delivery[d].pc = "save"
  /\ IF createCollides(e.sub, delivery[d].row) /\ e.kind = "upsert"
     THEN /\ delivery' = [delivery EXCEPT ![d] = IdleDelivery]
          /\ UNCHANGED subRow
     ELSE saveSubscription(e.sub, Entity(d)) /\ Goto(d, "account")
  /\ UNCHANGED <<billing, invoiceRow, inflight, graces, failedMails,
                 disorder, retries>>
  /\ UNCHANGED_OTHERS

\* The account part of a handler.  markPastDue's second update follows in a step
\* of its own when the account was not ACTIVE.
Implied(e) == subscriptionStatusToAccountStatus(NewStatus(e))

AccountStep(d) ==
  LET e == delivery[d].ev
      a == AccountOf[e.sub]
  IN /\ delivery[d].pc = "account"
     /\ CASE Implied(e) = "PAST_DUE" ->
               IF pastDueFromActive(a)
               THEN startGrace(a) /\ Goto(d, "notify") /\ UNCHANGED <<inflight, retries>>
               ELSE /\ Goto(d, "deadline")
                    /\ UNCHANGED <<billing, graces, inflight, retries>>
          [] Implied(e) = "ACTIVE" ->
               /\ markActiveFromPastDue(a)
               /\ UNCHANGED graces
               /\ IF e.kind = "upsert" /\ billing[a].status # "PAST_DUE"
                  THEN Acknowledge(d)
                  ELSE Goto(d, "notify") /\ UNCHANGED <<inflight, retries>>
          [] Implied(e) = "CANCELED" ->
               /\ updateBillingStatus(a, "CANCELED")
               /\ Goto(d, "notify") /\ UNCHANGED <<graces, inflight, retries>>
          [] OTHER -> Acknowledge(d) /\ UNCHANGED <<billing, graces>>
     /\ UNCHANGED <<subRow, invoiceRow, failedMails, disorder>>
     /\ UNCHANGED_OTHERS

\* Mutant: the handler goes on to the mail whether or not it started the clock.
MailsEveryFailure(d) ==
  /\ delivery[d].pc = "deadline"
  /\ Goto(d, "notify")
  /\ UNCHANGED <<billing, graces, inflight, retries, subRow, invoiceRow,
                 failedMails, disorder>>
  /\ UNCHANGED_OTHERS

MissingDeadlineStep(d) ==
  LET a == AccountOf[delivery[d].ev.sub] IN
  /\ delivery[d].pc = "deadline"
  /\ IF pastDueMissingDeadline(a)
     THEN startGrace(a) /\ Goto(d, "notify") /\ UNCHANGED <<inflight, retries>>
     ELSE Acknowledge(d) /\ UNCHANGED <<billing, graces>>
  /\ UNCHANGED <<subRow, invoiceRow, failedMails, disorder>>
  /\ UNCHANGED_OTHERS

\* The mail that follows a change of the account (the invalidation of its cached
\* keys is in ApiKeys).
NotifyStep(d) ==
  LET e == delivery[d].ev
      a == AccountOf[e.sub]
  IN /\ delivery[d].pc = "notify"
     /\ failedMails' = IF e.kind = "failed" THEN [failedMails EXCEPT ![a] = @ + 1]
                       ELSE failedMails
     /\ Acknowledge(d)
     /\ UNCHANGED <<billing, subRow, invoiceRow, graces, disorder>>
     /\ UNCHANGED_OTHERS

(***************************************************************************)
(* GracePeriodWorker: one read of the expired accounts, then an update for *)
(* each of them.                                                           *)
(***************************************************************************)
Expired(a) == billing[a].status = "PAST_DUE" /\ billing[a].graceEndsAt =< now

\* Mutant: lt for lte.
WorkerTickLate ==
  /\ worker = {}
  /\ \E a \in Accounts : Expired(a) /\ billing[a].graceEndsAt < now
  /\ worker' = {a \in Accounts : Expired(a) /\ billing[a].graceEndsAt < now}
  /\ UNCHANGED <<billing, subRow, invoiceRow, inflight, delivery, graces,
                 failedMails, disorder, retries, checkout, customers, now>>
  /\ UNCHANGED_STRIPE

WorkerTick ==
  /\ worker = {}
  /\ \E a \in Accounts : Expired(a)
  /\ worker' = {a \in Accounts : Expired(a)}
  /\ UNCHANGED <<billing, subRow, invoiceRow, inflight, delivery, graces,
                 failedMails, disorder, retries, checkout, customers, now>>
  /\ UNCHANGED_STRIPE

WorkerSuspends(a) ==
  /\ a \in worker
  /\ worker' = worker \ {a}
  /\ SetStatus(a, "SUSPENDED", NoDeadline)
  /\ UNCHANGED <<subRow, invoiceRow, inflight, delivery, graces, failedMails,
                 disorder, retries, checkout, customers, now>>
  /\ UNCHANGED_STRIPE

\* The update throws: the account is left for the next tick.
WorkerFails(a) ==
  /\ a \in worker /\ retries < MaxRetries
  /\ retries' = retries + 1
  /\ worker' = worker \ {a}
  /\ UNCHANGED <<billing, subRow, invoiceRow, inflight, delivery, graces,
                 failedMails, disorder, checkout, customers, now>>
  /\ UNCHANGED_STRIPE

\* The API process stops: timers and handlers in memory are gone, Stripe's
\* unanswered deliveries come again, the worker ticks at once after the restart.
ApiRestarts ==
  /\ retries < MaxRetries
  /\ retries' = retries + 1
  /\ worker' = {}
  /\ delivery' = [d \in Deliveries |-> IdleDelivery]
  /\ checkout' = [c \in Checkouts |-> [pc |-> "idle"]]
  /\ UNCHANGED <<billing, subRow, invoiceRow, inflight, graces,
                 failedMails, disorder, customers, now>>
  /\ UNCHANGED_STRIPE

(***************************************************************************)
(* The checkout route and use case.                                        *)
(***************************************************************************)
UNCHANGED_WEBHOOKS ==
  UNCHANGED <<subRow, invoiceRow, inflight, delivery, worker, now, graces, failedMails, disorder, retries, stripe, stripeInvoice, posted>>

\* The owner asks for a checkout; a live subscription refuses it.
CreateCheckoutSession(c, a) ==
  /\ checkout[c].pc = "idle"
  /\ sessions[a] < Cardinality({s \in Subs : AccountOf[s] = a /\ stripe[s].status = "none"})
  /\ \A s \in findByAccountId(a) : ~isActive(subRow[s]) /\ ~isTrialing(subRow[s])
  /\ checkout' = [checkout EXCEPT ![c] = [pc |-> "customer", account |-> a]]
  /\ UNCHANGED <<billing, customers, sessions>> /\ UNCHANGED_WEBHOOKS

\* Get or create the Stripe customer.
GetStripeCustomerId(c) ==
  /\ checkout[c].pc = "customer"
  /\ IF billing[checkout[c].account].customer # 0
     THEN checkout' = [checkout EXCEPT ![c].pc = "session"] /\ UNCHANGED customers
     ELSE /\ customers' = customers + 1
          /\ checkout' = [checkout EXCEPT ![c] =
               [pc |-> "store", account |-> checkout[c].account, id |-> customers + 1]]
  /\ UNCHANGED <<billing, sessions>> /\ UNCHANGED_WEBHOOKS

setStripeCustomerId(c) ==
  /\ checkout[c].pc = "store"
  /\ billing' = [billing EXCEPT ![checkout[c].account].customer = checkout[c].id]
  /\ checkout' = [checkout EXCEPT ![c] = [pc |-> "session", account |-> checkout[c].account]]
  /\ UNCHANGED <<customers, sessions>> /\ UNCHANGED_WEBHOOKS

CreateSession(c) ==
  /\ checkout[c].pc = "session"
  /\ sessions' = [sessions EXCEPT ![checkout[c].account] = @ + 1]
  /\ checkout' = [checkout EXCEPT ![c] = [pc |-> "idle"]]
  /\ UNCHANGED <<billing, customers>> /\ UNCHANGED_WEBHOOKS

(***************************************************************************)
(* Time.                                                                   *)
(***************************************************************************)
ClockTicks ==
  /\ now < MaxClock
  /\ now' = now + 1
  /\ UNCHANGED <<billing, subRow, invoiceRow, inflight, delivery, checkout,
                 customers, worker, graces, failedMails, disorder, retries>>
  /\ UNCHANGED_STRIPE

(***************************************************************************)
(* The specification.                                                      *)
(***************************************************************************)
\* A new account, or one whose subscriptions are paid up.
BillingInit ==
  /\ \E old \in BOOLEAN :
       /\ stripe = [s \in Subs |-> IF old THEN [status |-> "active", plan |-> "PRO"]
                                  ELSE [status |-> "none", plan |-> "FREE"]]
       /\ subRow = [s \in Subs |-> IF old THEN [status |-> "ACTIVE", plan |-> "PRO"]
                                  ELSE NoRow]
       /\ stripeInvoice = [s \in Subs |-> IF old THEN "paid" ELSE "draft"]
       /\ invoiceRow = [s \in Subs |-> IF old THEN "PAID" ELSE "none"]
       /\ customers = IF old THEN 1 ELSE 0
       /\ billing = [a \in Accounts |->
                       [status |-> "ACTIVE", graceEndsAt |-> NoDeadline,
                        customer |-> IF old THEN 1 ELSE 0]]
  /\ inflight = {} /\ posted = 0
  /\ delivery = [d \in Deliveries |-> IdleDelivery]
  /\ checkout = [c \in Checkouts |-> [pc |-> "idle"]]
  /\ sessions = [a \in Accounts |-> 0]
  /\ worker = {} /\ now = 0
  /\ graces = [a \in Accounts |-> 0] /\ failedMails = [a \in Accounts |-> 0]
  /\ disorder = FALSE /\ retries = 0

StripeNext ==
  \E s \in Subs : \/ StripeSubscribes(s) \/ StripePays(s)
                  \/ StripeDeclines(s) \/ StripeTouches(s)

HandlerStep(d) ==
  \/ HandleInvoice(d) \/ ReadSubscription(d) \/ SaveSubscription(d)
  \/ AccountStep(d) \/ MissingDeadlineStep(d) \/ NotifyStep(d)

WebhookNext ==
  \E d \in Deliveries :
    \/ \E e \in inflight : DeliverEvent(d, e)
    \/ HandlerStep(d)
    \/ HandlerThrows(d)

CheckoutNext ==
  \E c \in Checkouts :
    \/ \E a \in Accounts : CreateCheckoutSession(c, a)
    \/ GetStripeCustomerId(c) \/ setStripeCustomerId(c) \/ CreateSession(c)

WorkerNext == WorkerTick \/ \E a \in Accounts : WorkerSuspends(a) \/ WorkerFails(a)

BillingNext ==
  \/ StripeNext \/ WebhookNext \/ CheckoutNext \/ WorkerNext
  \/ ApiRestarts \/ ClockTicks

BillingSpec == BillingInit /\ [][BillingNext]_billingVars
(***************************************************************************)
(* Properties.                                                             *)
(***************************************************************************)
BillingTypeOK ==
  /\ \A a \in Accounts : /\ billing[a].status \in BillingStatus
                         /\ billing[a].graceEndsAt \in {NoDeadline} \cup Nat
                         /\ billing[a].customer \in Nat
  /\ \A s \in Subs : /\ subRow[s] = NoRow \/ subRow[s].status \in SubscriptionStatus
                     /\ subRow[s].plan \in Plans
                     /\ invoiceRow[s] \in {"none"} \cup InvoiceStatus
  /\ worker \subseteq Accounts
  /\ now \in 0..MaxClock /\ posted \in 0..MaxEvents /\ retries \in 0..MaxRetries

(* An account has a grace deadline exactly while it is PAST_DUE, whatever    *)
(* order the payment and the subscription events arrive in: without one the  *)
(* worker would never find it, with a leftover one it would be suspended for *)
(* an old failure.                                                           *)
DeadlineIffPastDue ==
  \A a \in Accounts :
    billing[a].status = "PAST_DUE" <=> billing[a].graceEndsAt # NoDeadline

(* Retries of the payment, duplicates and late events never move a running   *)
(* grace deadline (markPastDue is set-if-absent).                            *)
GraceNotExtended ==
  \A a \in Accounts :
    (billing[a].status = "PAST_DUE" /\ billing'[a].status = "PAST_DUE")
      => billing'[a].graceEndsAt = billing[a].graceEndsAt

(* No Stripe event, however late, brings a suspended or canceled account     *)
(* back: markPastDue and markActiveFromPastDue are guarded.                  *)
NotRevived ==
  \A a \in Accounts :
    billing[a].status \in {"SUSPENDED", "CANCELED"}
      => billing'[a].status \in {"SUSPENDED", "CANCELED"}

(* The owner gets at most one payment failed mail per grace period.          *)
OneMailPerGrace == \A a \in Accounts : failedMails[a] =< graces[a]

(* When the events were handled one at a time in the order Stripe posted     *)
(* them, with failures and restarts in between but every one acknowledged,   *)
(* the rows mirror Stripe: the subscription row has its status and plan, and *)
(* the account is PAST_DUE only for an unpaid subscription.                  *)
NothingInFlight == inflight = {} /\ ~disorder
InOrderMirrorsStripe ==
  NothingInFlight =>
    \A s \in Subs : stripe[s].status # "none" =>
      /\ subRow[s].status = mapStripeStatus(stripe[s].status)
      /\ subRow[s].plan = stripe[s].plan
      /\ (Subs = {s} /\ billing[AccountOf[s]].status = "PAST_DUE")
           => stripe[s].status \in {"past_due", "unpaid"}
      /\ stripe[s].status = "canceled"
           => /\ billing[AccountOf[s]].status \in {"CANCELED", "SUSPENDED"}
              /\ resolvePlanForAccount(AccountOf[s]) = {"FREE"}

(* Whatever order, repetition and overlap the webhooks, the checkouts and    *)
(* the grace period worker run in, the account's standing stays consistent   *)
(* (HandleStripeWebhook, GracePeriod.worker, the account repository's        *)
(* guarded updates): each step keeps the deadline with the status, extends   *)
(* no grace and revives no account, mails once per grace period, and in      *)
(* order delivery leaves the rows as Stripe has them.                        *)
BillingConsistent ==
  [][/\ (BillingTypeOK /\ DeadlineIffPastDue /\ OneMailPerGrace /\ InOrderMirrorsStripe)'
     /\ GraceNotExtended /\ NotRevived]_billingVars

(* Fairness of the API process: the hourly tick and its statements run, and  *)
(* the clock does.                                                           *)
BillingFairness ==
  /\ WF_billingVars(WorkerNext)
  /\ WF_billingVars(ClockTicks)

BillingLiveSpec == BillingSpec /\ BillingFairness

(* An account whose deadline has passed does not stay PAST_DUE.              *)
GraceEnds ==
  \A a \in Accounts : Expired(a) ~> billing[a].status # "PAST_DUE"
=============================================================================
