----------------------------- MODULE WebSession -----------------------------
(***************************************************************************)
(* The signed-in session of the dashboard in a browser with several tabs:  *)
(* the 401 interceptor and its refresh queue (apps/web api/wrapper/http.ts;*)
(* the admin console's is the same code over another store), the page-load *)
(* bootstrap (bootstrapSession.ts), the cross-tab lock (crossTabLock.ts),  *)
(* login and logout (useLogin.ts, useLogout.ts), the route guard           *)
(* (AuthGuard.tsx) and the middleware that classifies paths (proxy.ts).    *)
(*                                                                         *)
(* Each tab keeps its access token in memory; the refresh cookie and the   *)
(* readable flag cookie is_authenticated are shared by the tabs.  Tokens   *)
(* and cookies are generation numbers.                                     *)
(***************************************************************************)
EXTENDS Naturals, Sequences, FiniteSets

CONSTANTS Tabs,
          Requests,      \* API calls the pages of a tab make
          Nobody,        \* no request, no tab
          MaxToken       \* bound: refreshes and logins of one behaviour

ASSUME WebAssumption == Nobody \notin Tabs /\ Nobody \notin Requests /\ MaxToken \in Nat

VARIABLES
  access,       \* access[t]: accessToken of the store, 0 when null
  signedIn,     \* signedIn[t]: isAuthenticated of the store
  boot,         \* bootstrapStatus
  page,         \* the page the tab shows: "dashboard" or "login"
  req,          \* req[r]: [st, tab, tok] of an API call
  isRefreshing, \* isRefreshing[t]: the request that runs the refresh, or Nobody
  phase,        \* phase[t]: where that handler is: "off", "lock", "refresh", "retry"
  failedQueue,  \* failedQueue[t]
  lock,         \* the tab that holds vhyxvoid:auth-refresh
  bootPhase,    \* bootPhase[t]: "off", "lock" or "refresh" for the bootstrap
  sentCookie,   \* sentCookie[t]: the refresh cookie a refresh in flight carries
  flag,         \* the is_authenticated cookie
  cookie,       \* the refresh_token cookie, a generation, 0 when absent
  issued,       \* tokens issued so far
  rotated,      \* refresh tokens the api has exchanged for a successor
  reused,       \* refresh tokens the api was shown after it had exchanged them
  alive,        \* the session is not revoked on the api
  minValid      \* access tokens below this are expired

webVars == <<access, signedIn, boot, page, req, isRefreshing, phase, failedQueue, lock,
             bootPhase, sentCookie, flag, cookie, issued, rotated, reused, alive, minValid>>

store == <<access, signedIn>>
interceptor == <<isRefreshing, phase, failedQueue>>
cookies == <<flag, cookie>>
api == <<issued, rotated, reused, alive, minValid>>
bootstrap == <<boot, bootPhase>>

Done == {"ok", "error"}
idleRequest == [st |-> "idle", tab |-> Nobody, tok |-> 0]

WebInit ==
  /\ access = [t \in Tabs |-> 0] /\ signedIn = [t \in Tabs |-> FALSE]
  /\ boot = [t \in Tabs |-> "idle"] /\ bootPhase = [t \in Tabs |-> "off"]
  /\ page = [t \in Tabs |-> "dashboard"]
  /\ req = [r \in Requests |-> idleRequest]
  /\ isRefreshing = [t \in Tabs |-> Nobody] /\ phase = [t \in Tabs |-> "off"]
  /\ failedQueue = [t \in Tabs |-> <<>>]
  /\ lock = Nobody /\ sentCookie = [t \in Tabs |-> 0]
  /\ flag = TRUE /\ cookie = 1 /\ issued = 1
  /\ rotated = {} /\ reused = {} /\ alive = TRUE /\ minValid = 1

-----------------------------------------------------------------------------
(* What the pieces of the client do to the store, the cookies and the page. *)

setTokens(t, n) ==
  /\ access' = [access EXCEPT ![t] = n]
  /\ signedIn' = [signedIn EXCEPT ![t] = TRUE]

clearSession(t) ==
  /\ access' = [access EXCEPT ![t] = 0]
  /\ signedIn' = [signedIn EXCEPT ![t] = FALSE]

\* proxy.ts: a guest page is not shown to a browser with the flag, a protected
\* page not to one without it.
middleware(path, authenticated) ==
  IF path = "login" /\ authenticated THEN "dashboard"
  ELSE IF path = "dashboard" /\ ~authenticated THEN "login" ELSE path

\* Mutant of clearSessionCookie.
keepSessionCookie == flag
clearSessionCookie == FALSE

\* A full page load runs the middleware and starts the bootstrap over; what the
\* old page still waited for is gone with it.
loadPage(t, path, authenticated) ==
  /\ page' = [page EXCEPT ![t] = middleware(path, authenticated)]
  /\ boot' = [boot EXCEPT ![t] = "idle"]

-----------------------------------------------------------------------------
(* The api, as far as the client sees it. *)

accepts(tok) == alive /\ tok >= minValid

\* POST /auth/refresh: exchanges the presented cookie.  The grace window of the
\* rotation accepts a token that was just exchanged, and such a token is recorded
\* as reused.
apiRefreshOk == alive
rotate(c) ==
  /\ issued' = issued + 1
  /\ rotated' = rotated \cup {c}
  /\ reused' = IF c \in rotated THEN reused \cup {c} ELSE reused
  /\ cookie' = issued + 1
  /\ UNCHANGED <<alive, minValid, flag>>

AccessExpires ==
  /\ minValid' = issued + 1 /\ minValid # issued + 1 /\ issued <= MaxToken
  /\ UNCHANGED <<store, bootstrap, page, req, interceptor, lock, sentCookie, cookies,
                 issued, rotated, reused, alive>>

SessionRevoked ==
  /\ alive /\ alive' = FALSE
  /\ UNCHANGED <<store, bootstrap, page, req, interceptor, lock, sentCookie, cookies,
                 issued, rotated, reused, minValid>>

-----------------------------------------------------------------------------
(* Bootstrap of a page load. *)

\* bootstrapSession(): without the flag cookie there is nothing to restore.
bootstrapSession(t) ==
  /\ boot[t] = "idle"
  /\ IF flag
     THEN /\ boot' = [boot EXCEPT ![t] = "loading"]
          /\ bootPhase' = [bootPhase EXCEPT ![t] = "lock"]
          /\ UNCHANGED store
     ELSE /\ boot' = [boot EXCEPT ![t] = "done"] /\ clearSession(t) /\ UNCHANGED bootPhase
  /\ UNCHANGED <<page, req, interceptor, lock, sentCookie, cookies, api>>

\* Mutant of lockFree.
lockIgnored == TRUE

\* withCrossTabLock(): navigator.locks grants the lock to one tab at a time.
lockFree == lock = Nobody

sendsRefresh(t) ==
  /\ lockFree /\ lock' = t
  /\ sentCookie' = [sentCookie EXCEPT ![t] = cookie]

bootstrapSends(t) ==
  /\ bootPhase[t] = "lock" /\ sendsRefresh(t)
  /\ bootPhase' = [bootPhase EXCEPT ![t] = "refresh"]
  /\ UNCHANGED <<store, boot, page, req, interceptor, cookies, api>>

bootstrapEnds(t) ==
  /\ bootPhase[t] = "refresh" /\ lock' = Nobody
  /\ bootPhase' = [bootPhase EXCEPT ![t] = "off"] /\ boot' = [boot EXCEPT ![t] = "done"]
  /\ \/ /\ apiRefreshOk /\ rotate(sentCookie[t])
        /\ setTokens(t, issued + 1)
     \/ /\ ~apiRefreshOk /\ clearSession(t) /\ flag' = clearSessionCookie
        /\ UNCHANGED <<cookie, api>>
  /\ UNCHANGED <<page, req, interceptor, sentCookie>>

\* AuthGuard: a dashboard page without a session goes to the login page by a client
\* navigation, which runs the middleware and no bootstrap.
AuthGuard(t) ==
  /\ page[t] = "dashboard" /\ boot[t] = "done" /\ ~signedIn[t]
  /\ page' = [page EXCEPT ![t] = middleware("login", flag)]
  /\ UNCHANGED <<store, bootstrap, req, interceptor, lock, sentCookie, cookies, api>>

-----------------------------------------------------------------------------
(* API calls and the 401 interceptor. *)

\* httpClient: getAuthHeaders reads the token of the store when it sends.  Pages
\* call only after the bootstrap (useBootstrapReady).
httpClient(r, t) ==
  /\ req[r].st = "idle" /\ page[t] = "dashboard" /\ boot[t] = "done" /\ signedIn[t]
  /\ req' = [req EXCEPT ![r] = [st |-> "sent", tab |-> t, tok |-> access[t]]]
  /\ UNCHANGED <<store, bootstrap, page, interceptor, lock, sentCookie, cookies, api>>

\* The api answers a call with anything but 401.
Answered(r, outcome) ==
  /\ req[r].st = "sent" /\ accepts(req[r].tok)
  /\ req' = [req EXCEPT ![r].st = outcome]
  /\ UNCHANGED <<store, bootstrap, page, interceptor, lock, sentCookie, cookies, api>>

\* handleUnauthorized(): queue behind the refresh under way, or start one.
handleUnauthorized(r) ==
  LET t == req[r].tab IN
  /\ req[r].st = "sent" /\ ~accepts(req[r].tok)
  /\ IF isRefreshing[t] # Nobody
     THEN /\ failedQueue' = [failedQueue EXCEPT ![t] = Append(@, r)]
          /\ req' = [req EXCEPT ![r].st = "queued"]
          /\ UNCHANGED <<isRefreshing, phase>>
     ELSE /\ isRefreshing' = [isRefreshing EXCEPT ![t] = r]
          /\ phase' = [phase EXCEPT ![t] = "lock"]
          /\ req' = [req EXCEPT ![r].st = "refreshing"]
          /\ UNCHANGED failedQueue
  /\ UNCHANGED <<store, bootstrap, page, lock, sentCookie, cookies, api>>

interceptorSends(t) ==
  /\ phase[t] = "lock" /\ sendsRefresh(t)
  /\ phase' = [phase EXCEPT ![t] = "refresh"]
  /\ UNCHANGED <<store, bootstrap, page, req, isRefreshing, failedQueue, cookies, api>>

Queued(t) == {failedQueue[t][i] : i \in DOMAIN failedQueue[t]}

\* Mutant of processQueue.
processQueueOwnerOnly(t, outcome, owner) ==
  [r \in Requests |->
     IF r = owner THEN [req[r] EXCEPT !.st = outcome, !.tok = access'[t]] ELSE req[r]]

\* processQueue(): every queued call, and the owner of the refresh after them,
\* retries with the new token or fails.
processQueue(t, outcome, owner) ==
  [r \in Requests |->
     IF r = owner \/ r \in Queued(t)
     THEN [req[r] EXCEPT !.st = outcome, !.tok = access'[t]] ELSE req[r]]

\* hardLogout(): store and flag are cleared, and the login page replaces this one;
\* the calls still in flight and the interceptor's fields go with the page.
hardLogout(t, calls) ==
  /\ clearSession(t) /\ flag' = clearSessionCookie
  /\ loadPage(t, "login", flag')
  /\ req' = [r \in Requests |->
               IF calls[r].tab = t /\ calls[r].st \notin Done
               THEN [calls[r] EXCEPT !.st = "gone"] ELSE calls[r]]
  /\ isRefreshing' = [isRefreshing EXCEPT ![t] = Nobody]
  /\ phase' = [phase EXCEPT ![t] = "off"]
  /\ failedQueue' = [failedQueue EXCEPT ![t] = <<>>]

\* The refresh answered: the queue retries, and the handler retries its own call
\* while isRefreshing stays set.
refreshOk(t) ==
  /\ phase[t] = "refresh" /\ apiRefreshOk
  /\ lock' = Nobody /\ rotate(sentCookie[t]) /\ setTokens(t, issued + 1)
  /\ req' = processQueue(t, "retried", isRefreshing[t])
  /\ failedQueue' = [failedQueue EXCEPT ![t] = <<>>]
  /\ phase' = [phase EXCEPT ![t] = "retry"]
  /\ UNCHANGED <<bootstrap, page, isRefreshing, sentCookie>>

refreshFails(t) ==
  /\ phase[t] = "refresh" /\ ~apiRefreshOk
  /\ lock' = Nobody /\ hardLogout(t, processQueue(t, "error", isRefreshing[t]))
  /\ UNCHANGED <<bootPhase, sentCookie, cookie, api>>

\* A retried call is answered, also with 401: it is not retried again.  Only when
\* the handler's own retry is over does isRefreshing fall, and when that retry
\* fails, for whatever reason, the catch block signs the user out.
Retried(r, outcome) ==
  LET t == req[r].tab
      owner == isRefreshing[t] = r /\ phase[t] = "retry" IN
  /\ req[r].st = "retried" /\ (accepts(req[r].tok) \/ outcome = "error")
  /\ IF owner /\ outcome = "error"
     THEN hardLogout(t, processQueue(t, "error", r))
     ELSE /\ req' = [req EXCEPT ![r].st = outcome]
          /\ isRefreshing' = IF owner THEN [isRefreshing EXCEPT ![t] = Nobody] ELSE isRefreshing
          /\ phase' = IF owner THEN [phase EXCEPT ![t] = "off"] ELSE phase
          /\ UNCHANGED <<store, boot, page, flag, failedQueue>>
  /\ UNCHANGED <<bootPhase, lock, sentCookie, cookie, api>>

-----------------------------------------------------------------------------
(* Signing in and out. *)

\* useLogin: the api sets the refresh cookie, the client the flag.
useLogin(t) ==
  /\ page[t] = "login" /\ boot[t] = "done" /\ issued < MaxToken
  /\ issued' = issued + 1 /\ cookie' = issued + 1 /\ flag' = TRUE /\ alive' = TRUE
  /\ setTokens(t, issued + 1)
  /\ page' = [page EXCEPT ![t] = "dashboard"]
  /\ UNCHANGED <<bootstrap, req, interceptor, lock, sentCookie, rotated, reused, minValid>>

\* useLogout: the api revokes the session; the client forgets it either way.
useLogout(t) ==
  /\ page[t] = "dashboard" /\ signedIn[t]
  /\ alive' = FALSE /\ flag' = clearSessionCookie
  /\ clearSession(t)
  /\ page' = [page EXCEPT ![t] = "login"]
  /\ UNCHANGED <<bootstrap, req, interceptor, lock, sentCookie, cookie, issued, rotated,
                 reused, minValid>>

SessionSteps == AccessExpires \/ SessionRevoked
                \/ \E t \in Tabs : useLogin(t) \/ useLogout(t)
BootSteps == \E t \in Tabs : bootstrapSession(t) \/ bootstrapSends(t) \/ bootstrapEnds(t)
                             \/ AuthGuard(t)
RefreshSteps == \E t \in Tabs : interceptorSends(t) \/ refreshOk(t) \/ refreshFails(t)
RequestEnds(r) == handleUnauthorized(r) \/ \E o \in Done : Answered(r, o) \/ Retried(r, o)
RequestSteps == \E r \in Requests :
               \/ \E t \in Tabs : httpClient(r, t)
               \/ RequestEnds(r)

WebNext == SessionSteps \/ BootSteps \/ RefreshSteps \/ RequestSteps

\* The api answers what it is asked, locks are granted in turn and React runs
\* effects.
WebFairness ==
  /\ \A t \in Tabs :
       /\ WF_webVars(bootstrapSession(t)) /\ SF_webVars(bootstrapSends(t))
       /\ WF_webVars(bootstrapEnds(t)) /\ WF_webVars(AuthGuard(t))
       /\ SF_webVars(interceptorSends(t))
       /\ WF_webVars(refreshOk(t) \/ refreshFails(t))
  /\ \A r \in Requests :
       WF_webVars(RequestEnds(r))
WebSpec == WebInit /\ [][WebNext]_webVars /\ WebFairness

-----------------------------------------------------------------------------
(* Properties. *)

\* Under the cross-tab lock no refresh cookie is ever presented twice, whatever
\* tabs bootstrap and refresh at the same time.
NoCookieReuse == reused = {}

\* A call that was queued while the refresh was still under way is settled, or
\* its page is gone.
QueuedBehindRefreshSettles ==
  \A r \in Requests :
    (req[r].st = "queued" /\ phase[req[r].tab] \in {"lock", "refresh"}) ~> req[r].st \in Done \cup {"gone"}

\* A page load that finds its session revoked ends on the login page, unless
\* somebody signs in meanwhile: the flag cookie must be cleared before AuthGuard
\* navigates, or proxy.ts sends the tab back to a dashboard that shows nothing.
RevokedEndsAtLogin ==
  \A t \in Tabs : (boot[t] = "loading" /\ ~alive) ~> (page[t] = "login" \/ alive)

\* The tabs of a browser share one session (http.ts, refresh-lock.ts,
\* bootstrapSession, AuthGuard, proxy.ts) and no interleaving of them breaks it:
\* no cookie is spent twice, no queued call hangs behind a refresh, and a tab
\* whose session is gone ends at the login page.
WebSessionSound == []NoCookieReuse /\ QueuedBehindRefreshSettles /\ RevokedEndsAtLogin
=============================================================================
