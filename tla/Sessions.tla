------------------------------ MODULE Sessions ------------------------------
(***************************************************************************)
(* Sign-up, login, refresh-token rotation, logout and password changes of  *)
(* one user (src/apps/api/src/modules/identity), and the cached auth state *)
(* every guarded request is checked against (AuthStateCache).              *)
(*                                                                         *)
(* Requests overlap.  A use case is a transaction at READ COMMITTED: it    *)
(* reads what is committed, its writes become visible together when it     *)
(* commits, and a row it has written or selected FOR UPDATE is locked      *)
(* until then; a second writer waits.  save() of an entity writes every    *)
(* column of it, so what was read before the lock overwrites what was      *)
(* committed meanwhile.  A transaction may fail at any step (timeout,      *)
(* deadlock, lost connection) and then leaves nothing.                     *)
(*                                                                         *)
(* A session is the number of its row and of its refresh token; a password *)
(* is the number of the change that set it.                                *)
(***************************************************************************)
EXTENDS Integers, FiniteSets

CONSTANTS Jobs,          \* requests that may run at once
          MaxSessions,   \* MAX_SESSIONS
          MaxFailures,   \* failed logins that lock the account
          LockTime,      \* length of the lockout
          RefreshTtl,    \* life of a refresh token
          RotationGraceT, \* REFRESH_ROTATION_GRACE_MS
          TokenTtl,      \* life of an e-mailed token
          AuthTtl,       \* AUTH_STATE_TTL_SEC
          MaxSid, MaxTok, MaxVersion, MaxTick, MaxRequests \* bounds

NobodyS == "nobody" \* holds a lock that is free

ASSUME SessionsAssumption ==
  /\ MaxSessions \in Nat \ {0} /\ MaxFailures \in Nat \ {0}
  /\ LockTime \in Nat /\ RefreshTtl \in Nat \ {0} /\ RotationGraceT \in Nat
  /\ NobodyS \notin Jobs
  /\ TokenTtl \in Nat \ {0} /\ AuthTtl \in Nat \ {0}
  /\ MaxSid \in Nat /\ MaxTok \in Nat /\ MaxVersion \in Nat /\ MaxTick \in Nat /\ MaxRequests \in Nat

NoUser == [verified |-> FALSE, password |-> 0, failed |-> 0, lockedUntil |-> 0, version |-> 0]
NoSession == [revokedAt |-> -1, replacedBy |-> 0, cipher |-> FALSE, expiresAt |-> 0, root |-> 0]
NoToken == [open |-> FALSE, expiresAt |-> 0]
NoAuth == [version |-> -1, at |-> 0]
IdleJob == [pc |-> "idle"]
Unrevoked == -1

VARIABLES
  user,       \* the User row; password 0 is no row
  session,    \* Session rows
  emailTok, resetTok, \* EmailVerificationToken and PasswordResetToken rows
  personal,   \* personal accounts of the user
  authEntry,  \* Redis: the cached auth state
  job,        \* requests
  userLock, sessLock, \* row locks
  tick,
  begun,      \* requests begun
  rotations,  \* refreshes that rotated
  versionAt   \* when tokenVersion last changed

sessionVars == <<user, session, emailTok, resetTok, personal, authEntry, job,
                 userLock, sessLock, tick, begun, rotations, versionAt>>
Rows == <<user, session, emailTok, resetTok, personal>>
Locks == <<userLock, sessLock>>
Ghosts == <<rotations, versionAt>>

Sids == {i \in 1..MaxSid : session[i] # NoSession}

(***************************************************************************)
(* Entities.                                                               *)
(***************************************************************************)
User_register(pw) == [NoUser EXCEPT !.password = pw]
ensureCanLogin(u) == u.lockedUntil =< tick
verifyEmail(u) == [u EXCEPT !.verified = TRUE]
recordFailedLoginAttempt(u) ==
  [u EXCEPT !.failed = @ + 1,
            !.lockedUntil = IF u.failed + 1 >= MaxFailures THEN tick + LockTime ELSE @]
resetLoginAttempts(u) == [u EXCEPT !.failed = 0, !.lockedUntil = 0]
resetPassword(u, pw) ==
  [u EXCEPT !.password = pw, !.failed = 0, !.lockedUntil = 0, !.version = @ + 1]
incrementTokenVersion(u) == [u EXCEPT !.version = @ + 1]

Session_create(root) ==
  [revokedAt |-> Unrevoked, replacedBy |-> 0, cipher |-> FALSE,
   expiresAt |-> tick + RefreshTtl, root |-> root]
isRevokedS(s) == s.revokedAt # Unrevoked
isExpiredS(s) == s.expiresAt =< tick
isValid(s) == ~isRevokedS(s) /\ ~isExpiredS(s)
revokeS(s) == IF isRevokedS(s) THEN s ELSE [s EXCEPT !.revokedAt = tick]
wasRotatedWithin(s) ==
  /\ isRevokedS(s) /\ s.replacedBy # 0 /\ s.cipher
  /\ tick - s.revokedAt =< RotationGraceT

Token_create == [open |-> TRUE, expiresAt |-> tick + TokenTtl]
ensureValid(t) == t.open /\ t.expiresAt > tick
markUsed(t) == [t EXCEPT !.open = FALSE]

(***************************************************************************)
(* Repositories and the unit of work.                                      *)
(***************************************************************************)
Active == {i \in Sids : isValid(session[i])}
unrevoked == {i \in Sids : ~isRevokedS(session[i])}
countActiveByUserId == Cardinality(Active)
oldestActive == IF Active = {} THEN 0 ELSE CHOOSE i \in Active : \A k \in Active : i =< k
FreshSid == IF Sids = {} THEN 1 ELSE 1 + Cardinality(Sids)
purgeRotationCiphers(s) ==
  IF isRevokedS(s) /\ s.revokedAt < tick - RotationGraceT
  THEN [s EXCEPT !.cipher = FALSE] ELSE s
\* deleteAllByUserId, then the new token.
replaceTokens(toks) ==
  LET n == 1 + Cardinality({t \in 1..MaxTok : toks[t] # NoToken}) IN
  [t \in 1..MaxTok |-> IF t = n THEN Token_create
                       ELSE IF toks[t] = NoToken THEN NoToken ELSE markUsed(toks[t])]
roomFor(toks) == \E t \in 1..MaxTok : toks[t] = NoToken

Begins(j) == job[j].pc = "idle" /\ begun < MaxRequests
Step(j, rec) ==
  /\ job' = [job EXCEPT ![j] = rec]
  /\ begun' = IF job[j].pc = "idle" THEN begun + 1 ELSE begun
Done(j) == Step(j, IdleJob)
LocksOf(j) == {i \in 1..MaxSid : sessLock[i] = j}
\* Mutant of lockUser.
lockUserAlways(j) == TRUE
lockUser(j) == userLock \in {NobodyS, j}
freeFor(j, ids) == \A i \in ids : sessLock[i] \in {NobodyS, j}
\* Mutant of Unlock.
UnlockUserOnly(j) ==
  userLock' = (IF userLock = j THEN NobodyS ELSE userLock) /\ UNCHANGED sessLock
Unlock(j) ==
  /\ userLock' = IF userLock = j THEN NobodyS ELSE userLock
  /\ sessLock' = [i \in 1..MaxSid |-> IF sessLock[i] = j THEN NobodyS ELSE sessLock[i]]
saveUser(u) ==
  /\ user' = u
  /\ versionAt' = IF u.version # user.version THEN tick ELSE versionAt
revokeRows(ids) == [i \in 1..MaxSid |->
  IF i \in ids /\ ~isRevokedS(session[i]) THEN [revokeS(session[i]) EXCEPT !.cipher = FALSE]
  ELSE [session[i] EXCEPT !.cipher = FALSE]]

\* A transaction that fails before its commit.
TxFails(j) ==
  /\ job[j].pc \notin {"idle", "invalidate", "auth"}
  /\ Done(j) /\ Unlock(j)
  /\ UNCHANGED Rows /\ UNCHANGED <<authEntry, tick, rotations, versionAt>>

\* After the commit: AuthStateCache.invalidateUser, which fails soft.
InvalidateUser(j) ==
  /\ job[j].pc = "invalidate"
  /\ authEntry' \in {NoAuth, authEntry}
  /\ Done(j)
  /\ UNCHANGED Rows /\ UNCHANGED Locks /\ UNCHANGED Ghosts /\ UNCHANGED tick

(***************************************************************************)
(* Sign-up.                                                                *)
(***************************************************************************)
\* Register: a new user, or a new token for one who has not verified.
Register(j) ==
  /\ Begins(j) /\ Done(j) /\ roomFor(emailTok)
  /\ ~user.verified
  /\ saveUser(IF user.password = 0 THEN User_register(1) ELSE user)
  /\ emailTok' = replaceTokens(emailTok)
  /\ UNCHANGED <<session, resetTok, personal, authEntry, tick, rotations>>
  /\ UNCHANGED Locks

\* The route reads the user before its transaction.
ResendVerification(j) ==
  /\ Begins(j) /\ Done(j) /\ roomFor(emailTok)
  /\ user.password # 0 /\ ~user.verified
  /\ emailTok' = replaceTokens(emailTok)
  /\ UNCHANGED <<user, session, resetTok, personal, authEntry, tick>>
  /\ UNCHANGED Locks /\ UNCHANGED Ghosts

VerifyEmailReads(j, t) ==
  /\ Begins(j)
  /\ ensureValid(emailTok[t])
  /\ Step(j, [pc |-> "verify_save", tok |-> t, u |-> verifyEmail(user)])
  /\ UNCHANGED Rows /\ UNCHANGED Locks /\ UNCHANGED Ghosts /\ UNCHANGED <<authEntry, tick>>

\* save(user) locks the row and only then are the accounts looked up.
VerifyEmailSaves(j) ==
  /\ job[j].pc = "verify_save" /\ lockUser(j)
  /\ userLock' = j
  /\ Step(j, [pc |-> "verify_accounts", tok |-> job[j].tok, u |-> job[j].u])
  /\ UNCHANGED Rows /\ UNCHANGED Ghosts /\ UNCHANGED <<authEntry, sessLock, tick>>

\* Mutant of VerifyEmailFindsAccounts.
VerifyEmailAlwaysFirst(j) ==
  /\ job[j].pc = "verify_accounts"
  /\ Step(j, [pc |-> "verify_commit", tok |-> job[j].tok, u |-> job[j].u, first |-> TRUE])
  /\ UNCHANGED Rows /\ UNCHANGED Locks /\ UNCHANGED Ghosts /\ UNCHANGED <<authEntry, tick>>
VerifyEmailFindsAccounts(j) ==
  /\ job[j].pc = "verify_accounts"
  /\ Step(j, [pc |-> "verify_commit", tok |-> job[j].tok, u |-> job[j].u,
              first |-> personal = 0])
  /\ UNCHANGED Rows /\ UNCHANGED Locks /\ UNCHANGED Ghosts /\ UNCHANGED <<authEntry, tick>>

VerifyEmailCommits(j) ==
  /\ job[j].pc = "verify_commit"
  /\ saveUser(job[j].u)
  /\ emailTok' = [emailTok EXCEPT ![job[j].tok] = markUsed(@)]
  /\ personal' = IF job[j].first THEN personal + 1 ELSE personal
  /\ Done(j) /\ Unlock(j)
  /\ UNCHANGED <<session, resetTok, authEntry, tick, rotations>>

(***************************************************************************)
(* Login.  The user is read before the transaction.                        *)
(***************************************************************************)
LoginReads(j, pw) ==
  /\ Begins(j)
  /\ user.password # 0 /\ ensureCanLogin(user)
  /\ Step(j, IF pw = user.password
             THEN [pc |-> "login_save", u |-> resetLoginAttempts(user)]
             ELSE [pc |-> "login_fail", u |-> recordFailedLoginAttempt(user)])
  /\ UNCHANGED Rows /\ UNCHANGED Locks /\ UNCHANGED Ghosts /\ UNCHANGED <<authEntry, tick>>

\* A failure is saved outside a transaction: one statement.
LoginFails(j) ==
  /\ job[j].pc = "login_fail" /\ lockUser(j)
  /\ saveUser(job[j].u)
  /\ Done(j)
  /\ UNCHANGED <<session, emailTok, resetTok, personal, authEntry, tick, rotations>>
  /\ UNCHANGED Locks

LoginSaves(j) ==
  /\ job[j].pc = "login_save" /\ lockUser(j)
  /\ userLock' = j
  /\ Step(j, [pc |-> "login_count", u |-> job[j].u])
  /\ UNCHANGED Rows /\ UNCHANGED Ghosts /\ UNCHANGED <<authEntry, sessLock, tick>>

\* countActiveByUserId and the row revokeOldestActiveSession will update.
LoginCounts(j) ==
  /\ job[j].pc = "login_count"
  /\ Step(j, [pc |-> "login_commit", u |-> job[j].u,
              evict |-> IF countActiveByUserId >= MaxSessions THEN oldestActive ELSE 0])
  /\ UNCHANGED Rows /\ UNCHANGED Locks /\ UNCHANGED Ghosts /\ UNCHANGED <<authEntry, tick>>

LoginCommits(j) ==
  LET e == job[j].evict  n == FreshSid IN
  /\ job[j].pc = "login_commit" /\ n =< MaxSid
  /\ e # 0 => freeFor(j, {e})
  /\ saveUser(job[j].u)
  /\ session' = [i \in 1..MaxSid |->
       CASE i = n -> Session_create(n)
         [] i = e -> [session[i] EXCEPT !.revokedAt = tick]
         [] OTHER -> session[i]]
  /\ Done(j) /\ Unlock(j)
  /\ UNCHANGED <<emailTok, resetTok, personal, authEntry, tick, rotations>>

(***************************************************************************)
(* Refresh: the session row is selected FOR UPDATE.                        *)
(***************************************************************************)
\* Mutant of findByTokenHashForUpdate.
findByTokenHashUnlocked(j, i) == TRUE
findByTokenHashForUpdate(j, i) == freeFor(j, {i})
successorOk(s) == wasRotatedWithin(s) /\ isValid(session[s.replacedBy])

RefreshRotates(j, i) ==
  /\ Begins(j) /\ findByTokenHashForUpdate(j, i)
  /\ isValid(session[i]) /\ ensureCanLogin(user)
  /\ sessLock' = [sessLock EXCEPT ![i] = j]
  /\ Step(j, [pc |-> "rotate", sid |-> i])
  /\ UNCHANGED Rows /\ UNCHANGED Ghosts /\ UNCHANGED <<authEntry, userLock, tick>>

RefreshCommits(j) ==
  LET i == job[j].sid  n == FreshSid IN
  /\ job[j].pc = "rotate" /\ n =< MaxSid
  /\ session' = [k \in 1..MaxSid |->
       CASE k = n -> Session_create(session[i].root)
         [] k = i -> [revokeS(session[i]) EXCEPT !.replacedBy = n, !.cipher = TRUE]
         [] OTHER -> purgeRotationCiphers(session[k])]
  /\ rotations' = rotations + 1
  /\ Done(j) /\ Unlock(j)
  /\ UNCHANGED <<user, emailTok, resetTok, personal, authEntry, tick, versionAt>>

\* A token that was rotated just now gets the same successor; any other revoked
\* token is reuse, and the revocation of everything follows the transaction.
RefreshReused(j, i) ==
  /\ Begins(j) /\ findByTokenHashForUpdate(j, i)
  /\ isRevokedS(session[i]) /\ ~isExpiredS(session[i]) /\ ~successorOk(session[i])
  /\ Step(j, [pc |-> "revoke_all", op |-> "reuse", tok |-> 0, u |-> NoUser])
  /\ UNCHANGED Rows /\ UNCHANGED Locks /\ UNCHANGED Ghosts /\ UNCHANGED <<authEntry, tick>>

(***************************************************************************)
(* Logout of one session: read without a lock, saved whole.                *)
(***************************************************************************)
LogoutReads(j, i) ==
  /\ Begins(j) /\ user.version < MaxVersion
  /\ ~isRevokedS(session[i])
  /\ Step(j, [pc |-> "logout_save", sid |-> i, s |-> revokeS(session[i])])
  /\ UNCHANGED Rows /\ UNCHANGED Locks /\ UNCHANGED Ghosts /\ UNCHANGED <<authEntry, tick>>

LogoutSaves(j) ==
  /\ job[j].pc = "logout_save" /\ freeFor(j, {job[j].sid})
  /\ sessLock' = [sessLock EXCEPT ![job[j].sid] = j]
  /\ Step(j, [pc |-> "logout_commit", sid |-> job[j].sid, s |-> job[j].s,
              u |-> incrementTokenVersion(user)])
  /\ UNCHANGED Rows /\ UNCHANGED Ghosts /\ UNCHANGED <<authEntry, userLock, tick>>

LogoutCommits(j) ==
  /\ job[j].pc = "logout_commit" /\ lockUser(j)
  /\ session' = [session EXCEPT ![job[j].sid] = job[j].s]
  /\ saveUser(job[j].u)
  /\ Step(j, [pc |-> "invalidate"]) /\ Unlock(j)
  /\ UNCHANGED <<emailTok, resetTok, personal, authEntry, tick, rotations>>

(***************************************************************************)
(* Everything revoked: logout-all, reset and change of the password, reuse.*)
(* updateMany works on the rows it saw when it started.                    *)
(***************************************************************************)
\* userAuthGuard's verdict on an access token of this version.
guardAccepts(version) ==
  version = IF authEntry # NoAuth THEN authEntry.version ELSE user.version

LogoutAll(j) ==
  /\ Begins(j) /\ user.version < MaxVersion /\ user.password # 0
  /\ \E v \in 0..MaxVersion : guardAccepts(v)
  /\ Step(j, [pc |-> "revoke_all", op |-> "logout", tok |-> 0, u |-> NoUser])
  /\ UNCHANGED Rows /\ UNCHANGED Locks /\ UNCHANGED Ghosts /\ UNCHANGED <<authEntry, tick>>

RequestPasswordReset(j) ==
  /\ Begins(j) /\ Done(j) /\ roomFor(resetTok) /\ user.password # 0
  /\ resetTok' = replaceTokens(resetTok)
  /\ UNCHANGED <<user, session, emailTok, personal, authEntry, tick>>
  /\ UNCHANGED Locks /\ UNCHANGED Ghosts

ResetPassword(j, t) ==
  /\ Begins(j) /\ user.version < MaxVersion
  /\ ensureValid(resetTok[t])
  /\ Step(j, [pc |-> "revoke_all", op |-> "reset", tok |-> t,
              u |-> resetPassword(user, user.password + 1)])
  /\ UNCHANGED Rows /\ UNCHANGED Locks /\ UNCHANGED Ghosts /\ UNCHANGED <<authEntry, tick>>

\* The user is read before the transaction, which saves it before the sessions.
ChangePassword(j) ==
  /\ Begins(j) /\ user.version < MaxVersion /\ user.password # 0
  /\ \E v \in 0..MaxVersion : guardAccepts(v)
  /\ lockUser(j)
  /\ userLock' = j
  /\ Step(j, [pc |-> "revoke_all", op |-> "change", tok |-> 0,
              u |-> resetPassword(user, user.password + 1)])
  /\ UNCHANGED Rows /\ UNCHANGED Ghosts /\ UNCHANGED <<authEntry, sessLock, tick>>

\* PATCH /accounts/me: the whole user is read, and saved in one statement.
ProfileReads(j) ==
  /\ Begins(j) /\ user.password # 0
  /\ \E v \in 0..MaxVersion : guardAccepts(v)
  /\ Step(j, [pc |-> "profile", u |-> user])
  /\ UNCHANGED Rows /\ UNCHANGED Locks /\ UNCHANGED Ghosts /\ UNCHANGED <<authEntry, tick>>

ProfileSaves(j) ==
  /\ job[j].pc = "profile" /\ lockUser(j)
  /\ saveUser(job[j].u)
  /\ Done(j)
  /\ UNCHANGED <<session, emailTok, resetTok, personal, authEntry, tick, rotations>>
  /\ UNCHANGED Locks

RevokeAllStarts(j) ==
  /\ job[j].pc = "revoke_all"
  /\ Step(j, [pc |-> "revoke_wait", op |-> job[j].op, tok |-> job[j].tok, u |-> job[j].u,
              ids |-> unrevoked])
  /\ UNCHANGED Rows /\ UNCHANGED Locks /\ UNCHANGED Ghosts /\ UNCHANGED <<authEntry, tick>>

\* The rows are free: they are updated and stay locked; logout-all reads the
\* user now.  Reuse ends here, outside a transaction.
RevokeAllLocks(j) ==
  /\ job[j].pc = "revoke_wait" /\ freeFor(j, job[j].ids)
  /\ job[j].op # "reuse"
  /\ sessLock' = [i \in 1..MaxSid |-> IF i \in job[j].ids THEN j ELSE sessLock[i]]
  /\ Step(j, [pc |-> "revoke_commit", op |-> job[j].op, tok |-> job[j].tok,
              u |-> IF job[j].op = "logout" THEN incrementTokenVersion(user) ELSE job[j].u,
              ids |-> job[j].ids])
  /\ UNCHANGED Rows /\ UNCHANGED Ghosts /\ UNCHANGED <<authEntry, userLock, tick>>

ReuseRevokes(j) ==
  /\ job[j].pc = "revoke_wait" /\ job[j].op = "reuse" /\ freeFor(j, job[j].ids)
  /\ session' = revokeRows(job[j].ids)
  /\ Done(j)
  /\ UNCHANGED <<user, emailTok, resetTok, personal, authEntry, tick>>
  /\ UNCHANGED Locks /\ UNCHANGED Ghosts

RevokeAllCommits(j) ==
  /\ job[j].pc = "revoke_commit" /\ lockUser(j)
  /\ session' = revokeRows(job[j].ids)
  /\ saveUser(job[j].u)
  /\ resetTok' = IF job[j].op = "reset" THEN [resetTok EXCEPT ![job[j].tok] = markUsed(@)]
                 ELSE resetTok
  /\ Step(j, [pc |-> "invalidate"]) /\ Unlock(j)
  /\ UNCHANGED <<emailTok, personal, authEntry, tick, rotations>>

(***************************************************************************)
(* The cached auth state: read on every guarded request.                   *)
(***************************************************************************)
AuthStateLoads(j) ==
  /\ Begins(j) /\ authEntry = NoAuth /\ user.password # 0
  /\ Step(j, [pc |-> "auth", version |-> user.version])
  /\ UNCHANGED Rows /\ UNCHANGED Locks /\ UNCHANGED Ghosts /\ UNCHANGED <<authEntry, tick>>

AuthStateStores(j) ==
  /\ job[j].pc = "auth"
  /\ authEntry' \in {[version |-> job[j].version, at |-> tick], authEntry}
  /\ Done(j)
  /\ UNCHANGED Rows /\ UNCHANGED Locks /\ UNCHANGED Ghosts /\ UNCHANGED tick

\* Mutant of SessionTick.
SessionTickKeepsCache ==
  /\ tick < MaxTick /\ \A j \in Jobs : job[j].pc = "idle"
  /\ tick' = tick + 1
  /\ UNCHANGED Rows /\ UNCHANGED Locks /\ UNCHANGED Ghosts /\ UNCHANGED <<authEntry, job, begun>>
\* No request outlasts a unit of time.
SessionTick ==
  /\ tick < MaxTick /\ \A j \in Jobs : job[j].pc = "idle"
  /\ tick' = tick + 1
  /\ authEntry' = IF authEntry # NoAuth /\ tick + 1 >= authEntry.at + AuthTtl
                  THEN NoAuth ELSE authEntry
  /\ UNCHANGED Rows /\ UNCHANGED Locks /\ UNCHANGED Ghosts /\ UNCHANGED <<job, begun>>

(***************************************************************************)
(* The specification.                                                      *)
(***************************************************************************)
\* A visitor, or a user who verified earlier and has signed in once.
SessionsInit ==
  /\ emailTok = [t \in 1..MaxTok |-> NoToken] /\ resetTok = emailTok
  /\ \/ /\ user = NoUser /\ personal = 0
        /\ session = [i \in 1..MaxSid |-> NoSession]
     \/ /\ user = verifyEmail(User_register(1)) /\ personal = 1
        /\ session = [i \in 1..MaxSid |->
             IF i = 1 THEN [revokedAt |-> Unrevoked, replacedBy |-> 0, cipher |-> FALSE,
                            expiresAt |-> RefreshTtl, root |-> 1]
             ELSE NoSession]
  /\ authEntry = NoAuth /\ job = [j \in Jobs |-> IdleJob]
  /\ userLock = NobodyS /\ sessLock = [i \in 1..MaxSid |-> NobodyS]
  /\ tick = 0 /\ begun = 0 /\ rotations = 0 /\ versionAt = 0

\* The routes.
postRegister(j) == Register(j)
postResendVerification(j) == ResendVerification(j)
postVerifyEmail(j) ==
  \/ \E t \in 1..MaxTok : VerifyEmailReads(j, t)
  \/ VerifyEmailSaves(j) \/ VerifyEmailFindsAccounts(j) \/ VerifyEmailCommits(j)
postLogin(j) ==
  \/ \E pw \in 0..(MaxVersion + 1) : LoginReads(j, pw)
  \/ LoginFails(j) \/ LoginSaves(j) \/ LoginCounts(j) \/ LoginCommits(j)
postRefresh(j) ==
  \/ \E i \in Sids : RefreshRotates(j, i) \/ RefreshReused(j, i)
  \/ RefreshCommits(j) \/ ReuseRevokes(j)
postLogoutOne(j) ==
  \/ \E i \in Sids : LogoutReads(j, i)
  \/ LogoutSaves(j) \/ LogoutCommits(j)
postLogoutAll(j) == LogoutAll(j)
postForgotPassword(j) == RequestPasswordReset(j)
postResetPassword(j) == \E t \in 1..MaxTok : ResetPassword(j, t)
postMyPassword(j) == ChangePassword(j)
patchMyProfile(j) == ProfileReads(j) \/ ProfileSaves(j)
revokeAllByUserId(j) == RevokeAllStarts(j) \/ RevokeAllLocks(j) \/ RevokeAllCommits(j)
AuthStateGet(j) == AuthStateLoads(j) \/ AuthStateStores(j) \/ InvalidateUser(j)

identityRoutes(j) ==
  \/ postRegister(j) \/ postResendVerification(j) \/ postVerifyEmail(j)
  \/ postLogin(j) \/ postRefresh(j) \/ postLogoutOne(j) \/ postLogoutAll(j)
  \/ postForgotPassword(j) \/ postResetPassword(j) \/ postMyPassword(j) \/ patchMyProfile(j)
  \/ revokeAllByUserId(j) \/ AuthStateGet(j) \/ TxFails(j)

SessionsNext ==
  \/ \E j \in Jobs : identityRoutes(j)
  \/ SessionTick

SessionsSpec == SessionsInit /\ [][SessionsNext]_sessionVars

(***************************************************************************)
(* Properties.                                                             *)
(***************************************************************************)
(* The user, the sessions and the locks have their types, and only a running *)
(* request holds a lock.                                                     *)
SessionsTypeOK ==
  /\ user.verified \in BOOLEAN /\ user.failed \in Nat /\ user.version \in Nat
  /\ \A i \in Sids : session[i].root \in 1..i /\ session[i].replacedBy \in 0..MaxSid
  /\ \A j \in Jobs : job[j].pc = "idle" => userLock # j /\ LocksOf(j) = {}
  /\ personal \in Nat /\ tick \in 0..MaxTick

(* A refresh token has one living descendant at most: two refreshes of the   *)
(* same token that overlap do not both mint a session.                       *)
OneActivePerLogin ==
  \A i, k \in unrevoked : session[i].root = session[k].root => i = k

(* Logins that overlap cannot exceed the session limit: each counts while it *)
(* holds the user's row.  Only a rotation that commits between the count and *)
(* the eviction adds one.                                                    *)
SessionLimit == countActiveByUserId =< MaxSessions + rotations

(* A user gets one personal account, although two verification requests may  *)
(* overlap and no constraint of the database forbids a second.               *)
OnePersonalAccount == personal =< 1

(* The cached token version is the user's, or differs from it for less than  *)
(* the cache's TTL, even when a guarded request stored what it had read      *)
(* before the change, or Redis lost the delete.                              *)
AuthStateFresh ==
  authEntry # NoAuth /\ authEntry.version # user.version => tick < versionAt + AuthTtl

(* The sessions of a user stay sound under overlapping requests, row locks   *)
(* and transactions that fail (Login, RefreshSession, VerifyEmail,           *)
(* AuthState.service).                                                       *)
SessionsSound ==
  /\ SessionsTypeOK
  /\ OneActivePerLogin /\ SessionLimit /\ OnePersonalAccount /\ AuthStateFresh

=============================================================================
