--------------------------- MODULE IdentityProofs ---------------------------
(***************************************************************************)
(* Proofs about who may act: API keys (ApiKeys), the sessions of a user    *)
(* (Sessions) and the console's administrators (AdminAccess), for any      *)
(* number of requests that overlap.                                        *)
(***************************************************************************)
EXTENDS ApiKeys, Sessions, AdminAccess, FiniteSetTheorems,
        WellFoundedInduction, TLAPS

-----------------------------------------------------------------------------
(***************************************************************************)
(* API keys: the inductive invariant.  A version of a key is its row, or a *)
(* copy of it: what a request will save, what a validation has read, what  *)
(* is in the cache.                                                        *)
(***************************************************************************)

KeyStatus == {"ACTIVE", "REVOKED", "EXPIRED"}
KeyVersion ==
  [status : KeyStatus, secret : Nat, previous : Nat, graceEndsAt : Int, expiresAt : Int,
   createdById : Actors, scopes : SUBSET ApiScope]
CachedVersion ==
  [status : KeyStatus, secret : Nat, previous : Nat, graceEndsAt : Int, expiresAt : Int,
   scopes : SUBSET ApiScope, accountStatus : {"ACTIVE", "SUSPENDED"}, at : Nat]

\* The secrets of a version have been given out, and they differ.
SecretsOk(e) == e.secret \in 1..secrets /\ e.previous \in 0..secrets /\ e.previous # e.secret

Saving(r) == request[r].pc = "save"
CachingNew(r) == request[r].pc = "cache" /\ request[r].op = "create"
Writing(v) == validator[v].pc = "write"
Current(k, s) == keyRow[k] # NoKey /\ keyRow[k].secret = s

\* The grace of a version's previous secret ends within the grace period of its
\* retirement, or it is, again or still, the current one.
GraceBounded(k, e) ==
  e.previous # 0 =>
    \/ e.graceEndsAt =< retiredAt[e.previous] + RotationGrace
    \/ Current(k, e.previous) /\ e.graceEndsAt =< time + RotationGrace

\* A version that was the row at the time t or later is the row still, or its
\* secret was retired, and the key revoked, since then.
Dated(k, e, t) ==
  /\ Current(k, e.secret) \/ retiredAt[e.secret] >= t
  /\ isRevoked(keyRow[k]) /\ ~isRevoked(e) => revokedAt[k] >= t

KeysShape ==
  /\ keyRow \in [Keys -> KeyVersion \cup {NoKey}]
  /\ keyEntry \in [Keys -> CachedVersion \cup {NoEntry}]
  /\ account \in {"ACTIVE", "SUSPENDED"}
  /\ time \in 0..MaxTime /\ secrets \in 0..MaxSecret
  /\ revokedAt \in [Keys -> Int]
  /\ retiredAt \in [1..MaxSecret -> Int]
  /\ \A s \in 1..MaxSecret : retiredAt[s] =< time
  /\ DOMAIN request = Requests /\ DOMAIN validator = Validators

\* What is held of a key's row, of its cached entry, of the version a request
\* is about to save or to cache, and of the one a validation has read.
RowOk(k) == keyRow[k] # NoKey => SecretsOk(keyRow[k]) /\ GraceBounded(k, keyRow[k])

EntryOk(k) ==
  keyEntry[k] # NoEntry =>
    /\ SecretsOk(keyEntry[k]) /\ GraceBounded(k, keyEntry[k])
    /\ Dated(k, keyEntry[k], keyEntry[k].at) /\ keyEntry[k].at =< time

ManageOk(r) ==
  Saving(r) \/ CachingNew(r) =>
    \E k \in Keys :
      /\ request[r] = [pc |-> request[r].pc, op |-> request[r].op,
                       keys |-> {k}, ent |-> request[r].ent]
      /\ request[r].ent \in KeyVersion
      /\ SecretsOk(request[r].ent) /\ GraceBounded(k, request[r].ent)
      /\ CachingNew(r) => Dated(k, request[r].ent, time)

ValidateOk(v) ==
  Writing(v) =>
    /\ validator[v].key \in Keys /\ validator[v].entry \in CachedVersion
    /\ SecretsOk(validator[v].entry)
    /\ GraceBounded(validator[v].key, validator[v].entry)
    /\ Dated(validator[v].key, validator[v].entry, time)

KeysInv ==
  /\ KeysShape
  /\ \A k \in Keys : RowOk(k) /\ EntryOk(k)
  /\ \A r \in Requests : ManageOk(r)
  /\ \A v \in Validators : ValidateOk(v)

\* A row that is there is a version.
LEMMA RowIsVersion ==
  ASSUME KeysInv, NEW k \in Keys, keyRow[k] # NoKey
  PROVE  keyRow[k] \in KeyVersion /\ SecretsOk(keyRow[k]) /\ GraceBounded(k, keyRow[k])
BY DEF KeysInv, KeysShape, RowOk

\* No version is taken for the absence of one.
LEMMA NoKeyRow == NoKey \notin KeyVersion /\ NoEntry \notin CachedVersion
                  /\ NoKey.status = "none" /\ NoEntry.status = "none"
<1>1. NoKey.status = "none" /\ NoEntry.status = "none"
  BY DEF NoKey, NoEntry
<1>2. \A e \in KeyVersion : e.status # "none"
  BY DEF KeyVersion, KeyStatus
<1>3. \A e \in CachedVersion : e.status # "none"
  BY DEF CachedVersion, KeyStatus
<1> QED BY <1>1, <1>2, <1>3

\* What the use cases and the workers hand to save: a version whose secrets
\* have been given out and whose grace is bounded.
LEMMA EntityOk ==
  ASSUME KeysInv, NEW k \in Keys, NEW ent,
         \/ \E actor \in Actors, scopes \in ScopeChoices :
              ent = ApiKey_create(actor, secrets + 1, scopes)
         \/ keyRow[k] # NoKey /\ \/ ent = rotate(keyRow[k], secrets + 1)
                                 \/ ent = revoke(keyRow[k])
                                 \/ \E scopes \in ScopeChoices : ent = updateScopes(keyRow[k], scopes)
                                 \/ ent = markExpired(keyRow[k])
                                 \/ ent = clearRotationGrace(keyRow[k])
  PROVE  /\ ent \in KeyVersion /\ GraceBounded(k, ent)
         /\ ent.secret \in 1..(secrets + 1) /\ ent.previous \in 0..secrets
         /\ ent.previous # ent.secret
         /\ ent.secret = secrets + 1 \/ SecretsOk(ent)
<1>1. /\ time \in Nat /\ secrets \in Nat /\ KeyLife \in Nat /\ RotationGrace \in Nat \ {0}
      /\ ScopeChoices \subseteq SUBSET ApiScope
  BY ApiKeysAssumption DEF KeysInv, KeysShape
<1>2. ASSUME NEW actor \in Actors, NEW scopes \in ScopeChoices,
             ent = ApiKey_create(actor, secrets + 1, scopes)
      PROVE  /\ ent \in KeyVersion /\ GraceBounded(k, ent)
             /\ ent.secret = secrets + 1 /\ ent.previous = 0
  BY <1>1, <1>2 DEF ApiKey_create, KeyVersion, KeyStatus, GraceBounded, Never
<1>3. CASE keyRow[k] # NoKey
  <2>1. /\ keyRow[k] \in KeyVersion /\ SecretsOk(keyRow[k]) /\ GraceBounded(k, keyRow[k])
    BY <1>3, RowIsVersion
  <2>2. CASE ent = rotate(keyRow[k], secrets + 1)
    <3>1. /\ ent \in KeyVersion /\ ent.previous = keyRow[k].secret
          /\ ent.secret = secrets + 1 /\ ent.graceEndsAt = time + RotationGrace
      <4>1. /\ keyRow[k].secret \in Nat /\ secrets + 1 \in Nat
            /\ time + RotationGrace \in Int
        BY <1>1, <2>1 DEF KeyVersion
      <4>2. ent = [status |-> keyRow[k].status, secret |-> secrets + 1,
                   previous |-> keyRow[k].secret, graceEndsAt |-> time + RotationGrace,
                   expiresAt |-> keyRow[k].expiresAt,
                   createdById |-> keyRow[k].createdById, scopes |-> keyRow[k].scopes]
        BY <1>1, <2>1, <2>2, <4>1 DEF rotate, KeyVersion
      <4> QED BY <2>1, <4>1, <4>2 DEF KeyVersion
    <3>2. GraceBounded(k, ent)
      <4>1. Current(k, ent.previous)
        BY <1>3, <3>1 DEF Current
      <4> QED BY <1>1, <3>1, <4>1 DEF GraceBounded
    <3>3. ent.previous \in 1..secrets
      BY <2>1, <3>1 DEF SecretsOk
    <3> QED BY <1>1, <3>1, <3>2, <3>3
  <2>3. CASE ent = revoke(keyRow[k]) \/ ent = markExpired(keyRow[k])
             \/ \E scopes \in ScopeChoices : ent = updateScopes(keyRow[k], scopes)
    <3>1. /\ ent \in KeyVersion /\ ent.secret = keyRow[k].secret
          /\ ent.previous = keyRow[k].previous /\ ent.graceEndsAt = keyRow[k].graceEndsAt
      BY <1>1, <2>1, <2>3 DEF revoke, markExpired, updateScopes, KeyVersion, KeyStatus
    <3>2. GraceBounded(k, ent) /\ SecretsOk(ent)
      BY <2>1, <3>1 DEF GraceBounded, SecretsOk
    <3> QED BY <1>1, <3>1, <3>2 DEF SecretsOk
  <2>4. CASE ent = clearRotationGrace(keyRow[k])
    <3>1. ent \in KeyVersion /\ ent.secret = keyRow[k].secret /\ ent.previous = 0
      <4>1. ent = [status |-> keyRow[k].status, secret |-> keyRow[k].secret,
                   previous |-> 0, graceEndsAt |-> Never, expiresAt |-> keyRow[k].expiresAt,
                   createdById |-> keyRow[k].createdById, scopes |-> keyRow[k].scopes]
        BY <2>1, <2>4 DEF clearRotationGrace, KeyVersion
      <4> QED BY <2>1, <4>1 DEF KeyVersion, Never
    <3>2. GraceBounded(k, ent)
      BY <3>1 DEF GraceBounded
    <3>3. ent.secret \in 1..secrets
      BY <2>1, <3>1 DEF SecretsOk
    <3> QED BY <1>1, <3>1, <3>2, <3>3 DEF SecretsOk
  <2>5. CASE \E actor \in Actors, scopes \in ScopeChoices :
               ent = ApiKey_create(actor, secrets + 1, scopes)
    BY <1>1, <1>2, <2>5
  <2> QED BY <2>2, <2>3, <2>4, <2>5
<1>4. CASE keyRow[k] = NoKey
  BY <1>1, <1>2, <1>4
<1> QED BY <1>3, <1>4

\* Only create and rotate give a secret out.
LEMMA UnchangedSecretOk ==
  ASSUME KeysInv, NEW k \in Keys, keyRow[k] # NoKey, NEW ent,
         \/ ent = revoke(keyRow[k]) \/ ent = markExpired(keyRow[k])
         \/ ent = clearRotationGrace(keyRow[k])
         \/ \E scopes \in ScopeChoices : ent = updateScopes(keyRow[k], scopes)
  PROVE  ent \in KeyVersion /\ GraceBounded(k, ent) /\ SecretsOk(ent)
<1>1. ent.secret = keyRow[k].secret
  <2>1. keyRow[k] \in KeyVersion
    BY RowIsVersion
  <2> QED BY <2>1 DEF revoke, markExpired, clearRotationGrace, updateScopes, KeyVersion
<1>2. ent.secret # secrets + 1
  BY <1>1, RowIsVersion, ApiKeysAssumption DEF SecretsOk, KeysInv, KeysShape
<1> QED BY <1>2, EntityOk

(***************************************************************************)
(* Frames.  While no row is saved and no time passes, what holds of a      *)
(* version keeps holding; a save retires a secret, and revokes, now.       *)
(***************************************************************************)
LEMMA VersionsKept ==
  ASSUME KeysInv, UNCHANGED <<keyRow, time, revokedAt, retiredAt>>,
         secrets' \in 0..MaxSecret, secrets =< secrets'
  PROVE  /\ \A e : SecretsOk(e) => SecretsOk(e)'
         /\ \A k, e : GraceBounded(k, e) => GraceBounded(k, e)'
         /\ \A k, e, t : Dated(k, e, t) => Dated(k, e, t)'
<1>1. secrets \in Nat /\ secrets' \in Nat
  BY ApiKeysAssumption DEF KeysInv, KeysShape
<1>2. \A e : SecretsOk(e) => SecretsOk(e)'
  BY <1>1 DEF SecretsOk
<1>3. \A k, e : GraceBounded(k, e) => GraceBounded(k, e)'
  BY DEF GraceBounded, Current
<1>4. \A k, e, t : Dated(k, e, t) => Dated(k, e, t)'
  BY DEF Dated, Current
<1> QED BY <1>2, <1>3, <1>4

\* So it does for the rows, and for the entries, requests and validations
\* that a step leaves alone.
LEMMA QuietKeeps ==
  ASSUME KeysInv, UNCHANGED <<keyRow, time, revokedAt, retiredAt>>,
         secrets' \in 0..MaxSecret, secrets =< secrets'
  PROVE  /\ \A k \in Keys : RowOk(k)'
         /\ \A k \in Keys : keyEntry'[k] \in {keyEntry[k], NoEntry} => EntryOk(k)'
         /\ \A r \in Requests : request'[r] = request[r] => ManageOk(r)'
         /\ \A v \in Validators : validator'[v] = validator[v] => ValidateOk(v)'
<1>1. \A k \in Keys : RowOk(k)'
  BY VersionsKept DEF KeysInv, RowOk
<1>2. ASSUME NEW k \in Keys, keyEntry'[k] \in {keyEntry[k], NoEntry} PROVE EntryOk(k)'
  BY <1>2, VersionsKept DEF KeysInv, EntryOk
<1>3. ASSUME NEW r \in Requests, request'[r] = request[r] PROVE ManageOk(r)'
  BY <1>3, VersionsKept DEF KeysInv, ManageOk, Saving, CachingNew
<1>4. ASSUME NEW v \in Validators, validator'[v] = validator[v] PROVE ValidateOk(v)'
  BY <1>4, VersionsKept DEF KeysInv, ValidateOk, Writing
<1> QED BY <1>1, <1>2, <1>3, <1>4

\* A save moves a secret's retirement, and a key's revocation, to now only.
LEMMA VersionsSaved ==
  ASSUME KeysInv, NEW k \in Keys, NEW ent \in KeyVersion, saveKey(k, ent),
         UNCHANGED <<time, secrets>>
  PROVE  /\ \A e : SecretsOk(e) => SecretsOk(e)'
         /\ \A j \in Keys : \A e : SecretsOk(e) /\ e.graceEndsAt \in Int /\ GraceBounded(j, e)
                               => GraceBounded(j, e)'
         /\ \A j \in Keys, t \in Int : \A e : SecretsOk(e) /\ t =< time /\ Dated(j, e, t)
                               => Dated(j, e, t)'
         /\ retiredAt' \in [1..MaxSecret -> Int] /\ revokedAt' \in [Keys -> Int]
         /\ \A s \in 1..MaxSecret : retiredAt'[s] =< time
         /\ keyRow'[k] = ent /\ keyRow' \in [Keys -> KeyVersion \cup {NoKey}]
         /\ \A j \in Keys \ {k} : keyRow'[j] = keyRow[j]
<1>1. /\ time \in Nat /\ secrets \in Nat /\ MaxSecret \in Nat /\ secrets =< MaxSecret
      /\ RotationGrace \in Nat
      /\ keyRow \in [Keys -> KeyVersion \cup {NoKey}]
      /\ retiredAt \in [1..MaxSecret -> Int] /\ revokedAt \in [Keys -> Int]
      /\ \A s \in 1..MaxSecret : retiredAt[s] =< time
  BY ApiKeysAssumption DEF KeysInv, KeysShape
<1>2. keyRow[k] # NoKey => keyRow[k].secret \in 1..MaxSecret
  BY <1>1, RowIsVersion DEF SecretsOk
<1>3. /\ keyRow'[k] = ent /\ keyRow' \in [Keys -> KeyVersion \cup {NoKey}]
      /\ \A j \in Keys \ {k} : keyRow'[j] = keyRow[j]
  BY <1>1 DEF saveKey
<1>4. /\ retiredAt' \in [1..MaxSecret -> Int]
      /\ \A s \in 1..MaxSecret : retiredAt'[s] = retiredAt[s] \/ retiredAt'[s] = time
  <2>1. CASE keyRow[k] # NoKey /\ keyRow[k].secret # ent.secret
    <3>1. retiredAt' = [retiredAt EXCEPT ![keyRow[k].secret] = time]
      BY <2>1 DEF saveKey
    <3> QED BY <1>1, <1>2, <2>1, <3>1
  <2>2. CASE ~(keyRow[k] # NoKey /\ keyRow[k].secret # ent.secret)
    <3>1. retiredAt' = retiredAt
      BY <2>2 DEF saveKey
    <3> QED BY <1>1, <3>1
  <2> QED BY <2>1, <2>2
<1>5. \A s \in 1..MaxSecret : Current(k, s) => s = ent.secret \/ retiredAt'[s] = time
  <2> SUFFICES ASSUME NEW s \in 1..MaxSecret, Current(k, s), s # ent.secret
               PROVE  retiredAt'[s] = time
    OBVIOUS
  <2>1. keyRow[k] # NoKey /\ keyRow[k].secret = s
    BY DEF Current
  <2>2. retiredAt' = [retiredAt EXCEPT ![keyRow[k].secret] = time]
    BY <2>1 DEF saveKey
  <2> QED BY <1>1, <2>1, <2>2
<1>6. /\ revokedAt' \in [Keys -> Int]
      /\ \A j \in Keys \ {k} : revokedAt'[j] = revokedAt[j]
      /\ isRevoked(ent) => \/ isRevoked(keyRow[k]) /\ revokedAt'[k] = revokedAt[k]
                           \/ revokedAt'[k] = time
  <2>1. CASE isRevoked(ent) /\ ~isRevoked(keyRow[k])
    <3>1. revokedAt' = [revokedAt EXCEPT ![k] = time]
      BY <2>1 DEF saveKey
    <3> QED BY <1>1, <3>1
  <2>2. CASE ~(isRevoked(ent) /\ ~isRevoked(keyRow[k]))
    <3>1. revokedAt' = revokedAt
      BY <2>2 DEF saveKey
    <3> QED BY <1>1, <2>2, <3>1
  <2> QED BY <2>1, <2>2
<1>7. ASSUME NEW s \in 1..MaxSecret
      PROVE  retiredAt'[s] =< time /\ retiredAt[s] =< retiredAt'[s]
  <2>1. retiredAt[s] \in Int /\ retiredAt[s] =< time
    BY <1>1
  <2>2. retiredAt'[s] = retiredAt[s] \/ retiredAt'[s] = time
    BY <1>4
  <2> QED BY <1>1, <2>1, <2>2
<1>8. \A s \in 1..MaxSecret, j \in Keys :
        Current(j, s) => Current(j, s)' \/ retiredAt'[s] = time
  <2> SUFFICES ASSUME NEW s \in 1..MaxSecret, NEW j \in Keys, Current(j, s), retiredAt'[s] # time
               PROVE  Current(j, s)'
    OBVIOUS
  <2>1. CASE j = k
    BY <1>3, <1>5, <2>1, NoKeyRow DEF Current
  <2>2. CASE j # k
    BY <1>3, <2>2 DEF Current
  <2> QED BY <2>1, <2>2
<1>9. \A e : SecretsOk(e) => SecretsOk(e)' /\ e.secret \in 1..MaxSecret
                            /\ (e.previous # 0 => e.previous \in 1..MaxSecret)
  BY <1>1 DEF SecretsOk
<1>10. ASSUME NEW j \in Keys, NEW e, SecretsOk(e), e.graceEndsAt \in Int, GraceBounded(j, e)
       PROVE  GraceBounded(j, e)'
  <2> SUFFICES ASSUME e.previous # 0
               PROVE  \/ e.graceEndsAt =< retiredAt'[e.previous] + RotationGrace
                      \/ Current(j, e.previous)' /\ e.graceEndsAt =< time + RotationGrace
    BY DEF GraceBounded
  <2>1. e.previous \in 1..MaxSecret
    BY <1>9, <1>10
  <2>2. retiredAt[e.previous] \in Int /\ retiredAt'[e.previous] \in Int
        /\ retiredAt[e.previous] =< retiredAt'[e.previous]
    BY <1>1, <1>4, <1>7, <2>1
  <2>3. CASE e.graceEndsAt =< retiredAt[e.previous] + RotationGrace
    BY <1>1, <1>10, <2>2, <2>3
  <2>4. CASE Current(j, e.previous) /\ e.graceEndsAt =< time + RotationGrace
    BY <1>8, <2>1, <2>4
  <2> QED BY <1>10, <2>3, <2>4 DEF GraceBounded
<1>11. ASSUME NEW j \in Keys, NEW e, NEW t \in Int, SecretsOk(e), t =< time, Dated(j, e, t)
       PROVE  Dated(j, e, t)'
  <2>1. e.secret \in 1..MaxSecret
    BY <1>9, <1>11
  <2>2. Current(j, e.secret)' \/ retiredAt'[e.secret] >= t
    BY <1>1, <1>4, <1>7, <1>8, <1>11, <2>1 DEF Dated
  <2>3. isRevoked(keyRow'[j]) /\ ~isRevoked(e) => revokedAt'[j] >= t
    BY <1>1, <1>3, <1>6, <1>11 DEF Dated
  <2> QED BY <2>2, <2>3 DEF Dated
<1> QED BY <1>3, <1>4, <1>6, <1>7, <1>9, <1>10, <1>11

\* The invariant holds when no request has been made.
LEMMA KeysInvInit == KeysInit => KeysInv
<1> SUFFICES ASSUME KeysInit PROVE KeysInv
  OBVIOUS
<1>1. KeysShape
  BY ApiKeysAssumption DEF KeysInit, KeysShape, Never
<1>2. \A k \in Keys : RowOk(k) /\ EntryOk(k)
  BY DEF KeysInit, RowOk, EntryOk
<1>3. \A r \in Requests : ManageOk(r)
  BY DEF KeysInit, ManageOk, Saving, CachingNew, IdleRequest
<1>4. \A v \in Validators : ValidateOk(v)
  BY DEF KeysInit, ValidateOk, Writing
<1> QED BY <1>1, <1>2, <1>3, <1>4 DEF KeysInv

\* A request that has changed its entity: it waits to save it.
LEMMA StartKeeps ==
  ASSUME KeysInv, NEW r \in Requests, NEW op, NEW k \in Keys, NEW ent \in KeyVersion,
         GraceBounded(k, ent), SecretsOk(ent)', SaveNext(r, op, k, ent),
         secrets' \in 0..MaxSecret, secrets =< secrets',
         UNCHANGED <<keyRow, keyEntry, account, validator, time, revokedAt, retiredAt>>
  PROVE  KeysInv'
<1>1. KeysShape'
  BY DEF KeysInv, KeysShape, SaveNext, Await
<1>2. \A j \in Keys : RowOk(j)' /\ EntryOk(j)'
  BY QuietKeeps
<1>3. \A v \in Validators : ValidateOk(v)'
  BY QuietKeeps
<1>4. ManageOk(r)'
  <2>1. request'[r] = [pc |-> "save", op |-> op, keys |-> {k}, ent |-> ent]
    BY DEF KeysInv, KeysShape, SaveNext, Await
  <2>2. GraceBounded(k, ent)'
    BY VersionsKept
  <2>3. /\ request'[r].pc = "save" /\ request'[r].op = op /\ request'[r].ent = ent
        /\ ~CachingNew(r)'
    BY <2>1 DEF CachingNew
  <2> QED BY <2>1, <2>2, <2>3 DEF ManageOk
<1>5. \A q \in Requests \ {r} : ManageOk(q)'
  <2>1. \A q \in Requests \ {r} : request'[q] = request[q]
    BY DEF KeysInv, KeysShape, SaveNext, Await
  <2> QED BY <2>1, QuietKeeps
<1> QED BY <1>1, <1>2, <1>3, <1>4, <1>5 DEF KeysInv

\* A route's use case reads the key, changes it and waits to save it.
LEMMA RoutesKeep ==
  ASSUME KeysInv, NEW r \in Requests, NEW actor \in Actors, NEW k \in Keys,
         apiKeyRoutes(r, actor, k)
  PROVE  KeysInv'
<1>1. secrets \in 0..MaxSecret /\ MaxSecret \in Nat
  BY ApiKeysAssumption DEF KeysInv, KeysShape
<1>2. ASSUME NEW op, NEW ent, SaveNext(r, op, k, ent), newSecret,
             ent \in KeyVersion /\ GraceBounded(k, ent) /\ ent.secret \in 1..(secrets + 1)
             /\ ent.previous \in 0..secrets /\ ent.previous # ent.secret
      PROVE  KeysInv'
  <2>1. secrets' \in 0..MaxSecret /\ secrets =< secrets' /\ secrets' = secrets + 1
    BY <1>1, <1>2 DEF newSecret
  <2>2. SecretsOk(ent)'
    BY <1>1, <1>2, <2>1 DEF SecretsOk
  <2> QED BY <1>2, <2>1, <2>2, StartKeeps DEF apiKeyRoutes
<1>3. ASSUME NEW op, NEW ent, SaveNext(r, op, k, ent), UNCHANGED secrets,
             ent \in KeyVersion /\ GraceBounded(k, ent) /\ SecretsOk(ent)
      PROVE  KeysInv'
  <2>1. secrets' \in 0..MaxSecret /\ secrets =< secrets'
    BY <1>1, <1>3
  <2>2. SecretsOk(ent)'
    BY <1>3 DEF SecretsOk
  <2> QED BY <1>3, <2>1, <2>2, StartKeeps DEF apiKeyRoutes
<1>4. CASE PostKey(r, actor, k)
  <2>1. PICK scopes \in ScopeChoices :
          /\ newSecret
          /\ SaveNext(r, "create", k, ApiKey_create(actor, secrets + 1, scopes))
    BY <1>4 DEF PostKey, CreateApiKey
  <2> QED BY <1>2, <2>1, EntityOk
<1>5. CASE PostRotate(r, actor, k)
  <2>1. /\ newSecret /\ keyRow[k] # NoKey
        /\ SaveNext(r, "rotate", k, rotate(keyRow[k], secrets + 1))
    BY <1>5 DEF PostRotate, RotateApiKey, findManageable
  <2> QED BY <1>2, <2>1, EntityOk
<1>6. CASE PostRevoke(r, actor, k)
  <2>1. /\ UNCHANGED secrets /\ keyRow[k] # NoKey
        /\ SaveNext(r, "revoke", k, revoke(keyRow[k]))
    BY <1>6 DEF PostRevoke, RevokeApiKey, findManageable
  <2> QED BY <1>3, <2>1, UnchangedSecretOk
<1>7. CASE PatchKey(r, actor, k)
  <2>1. PICK scopes \in ScopeChoices :
          /\ UNCHANGED secrets /\ keyRow[k] # NoKey
          /\ SaveNext(r, "update", k, updateScopes(keyRow[k], scopes))
    BY <1>7 DEF PatchKey, UpdateApiKey, findManageable
  <2> QED BY <1>3, <2>1, UnchangedSecretOk
<1> QED BY <1>4, <1>5, <1>6, <1>7 DEF apiKeyRoutes

\* The workers do the same with the keys that are due.
LEMMA WorkersKeep ==
  ASSUME KeysInv, NEW r \in Requests, KeyWorkers(r)
  PROVE  KeysInv'
<1>1. secrets' = secrets /\ secrets' \in 0..MaxSecret /\ secrets =< secrets'
  BY ApiKeysAssumption DEF KeysInv, KeysShape, KeyWorkers
<1>2. ASSUME NEW op, NEW k \in Keys, NEW ent, SaveNext(r, op, k, ent),
             ent \in KeyVersion /\ GraceBounded(k, ent) /\ SecretsOk(ent)
      PROVE  KeysInv'
  <2>1. SecretsOk(ent)'
    BY <1>1, <1>2 DEF SecretsOk
  <2> QED BY <1>1, <1>2, <2>1, StartKeeps DEF KeyWorkers
<1>3. CASE ExpireApiKeysWorker(r)
  <2>1. PICK k \in findExpiredKeys : SaveNext(r, "expire", k, markExpired(keyRow[k]))
    BY <1>3 DEF ExpireApiKeysWorker
  <2>2. k \in Keys /\ keyRow[k] # NoKey
    BY NoKeyRow DEF findExpiredKeys
  <2> QED BY <1>2, <2>1, <2>2, UnchangedSecretOk
<1>4. CASE ExpireRotationGraceWorker(r)
  <2>1. PICK k \in findExpiredRotations : SaveNext(r, "clear", k, clearRotationGrace(keyRow[k]))
    BY <1>4 DEF ExpireRotationGraceWorker
  <2>2. k \in Keys /\ keyRow[k] # NoKey
    BY DEF findExpiredRotations, findAllByAccount
  <2> QED BY <1>2, <2>1, <2>2, UnchangedSecretOk
<1> QED BY <1>3, <1>4 DEF KeyWorkers

\* The save: what has been read before is dated by it.
LEMMA SaveKeeps ==
  ASSUME KeysInv, NEW r \in Requests, SaveKeyStep(r)
  PROVE  KeysInv'
<1>1. PICK k \in Keys, ent \in KeyVersion :
        /\ request[r] = [pc |-> request[r].pc, op |-> request[r].op,
                         keys |-> {k}, ent |-> ent]
        /\ SecretsOk(ent) /\ GraceBounded(k, ent)
  BY DEF KeysInv, SaveKeyStep, ManageOk, Saving
<1>2. /\ saveKey(k, ent) /\ UNCHANGED <<keyEntry, account, validator, time, secrets>>
      /\ request' = [request EXCEPT ![r] = [request[r] EXCEPT !.pc = "cache"]]
  <2>1. request[r].keys = {k} /\ request[r].ent = ent
    BY <1>1
  <2> QED BY <2>1 DEF SaveKeyStep, Await
<1>3. request'[r] = [pc |-> "cache", op |-> request[r].op, keys |-> {k}, ent |-> ent]
  <2>1. request'[r] = [request[r] EXCEPT !.pc = "cache"]
    BY <1>2 DEF KeysInv, KeysShape
  <2> QED BY <1>1, <2>1
<1>4. ent \in KeyVersion
  BY <1>1
<1>5. time \in Int /\ time' = time
  BY <1>2 DEF KeysInv, KeysShape
<1>6. /\ \A e : SecretsOk(e) => SecretsOk(e)'
      /\ \A j \in Keys : \A e : SecretsOk(e) /\ e.graceEndsAt \in Int /\ GraceBounded(j, e)
                            => GraceBounded(j, e)'
      /\ \A j \in Keys, t \in Int : \A e : SecretsOk(e) /\ t =< time /\ Dated(j, e, t)
                            => Dated(j, e, t)'
      /\ retiredAt' \in [1..MaxSecret -> Int] /\ revokedAt' \in [Keys -> Int]
      /\ \A s \in 1..MaxSecret : retiredAt'[s] =< time
      /\ keyRow'[k] = ent /\ keyRow' \in [Keys -> KeyVersion \cup {NoKey}]
      /\ \A j \in Keys \ {k} : keyRow'[j] = keyRow[j]
  BY <1>2, <1>4, VersionsSaved
<1>7. /\ \A e \in KeyVersion : e.graceEndsAt \in Int
      /\ \A e \in CachedVersion : e.graceEndsAt \in Int /\ e.at \in Int
  BY DEF KeyVersion, CachedVersion
<1>8. SecretsOk(ent)' /\ GraceBounded(k, ent)'
  BY <1>1, <1>4, <1>6, <1>7
<1>9. KeysShape'
  BY <1>2, <1>5, <1>6 DEF KeysInv, KeysShape
<1>10. ASSUME NEW j \in Keys PROVE RowOk(j)'
  <2>1. CASE j = k
    BY <1>6, <1>8, <2>1 DEF RowOk
  <2>2. CASE j # k
    <3>1. keyRow'[j] = keyRow[j]
      BY <1>6, <2>2
    <3>2. CASE keyRow[j] # NoKey
      <4>1. PICK e \in KeyVersion : e = keyRow[j] /\ SecretsOk(e) /\ GraceBounded(j, e)
        BY <3>2, RowIsVersion
      <4>2. SecretsOk(e)' /\ GraceBounded(j, e)'
        BY <1>6, <1>7, <4>1
      <4> QED BY <3>1, <4>1, <4>2 DEF RowOk
    <3> QED BY <3>1, <3>2 DEF RowOk
  <2> QED BY <2>1, <2>2
<1>11. ASSUME NEW j \in Keys PROVE EntryOk(j)'
  <2>1. CASE keyEntry[j] # NoEntry
    <3>1. PICK e \in CachedVersion :
            /\ e = keyEntry[j] /\ e = keyEntry'[j]
            /\ SecretsOk(e) /\ GraceBounded(j, e) /\ Dated(j, e, e.at) /\ e.at =< time
      BY <1>2, <2>1 DEF KeysInv, KeysShape, EntryOk
    <3>2. SecretsOk(e)' /\ GraceBounded(j, e)' /\ Dated(j, e, e.at)'
      BY <1>6, <1>7, <3>1
    <3> QED BY <1>5, <3>1, <3>2 DEF EntryOk
  <2>2. CASE keyEntry[j] = NoEntry
    BY <1>2, <2>2 DEF EntryOk
  <2> QED BY <2>1, <2>2
<1>12. ManageOk(r)'
  <2>1. ASSUME NEW t, t = time PROVE Dated(k, ent, t)'
    <3>1. keyRow'[k] = ent /\ ent # NoKey
      BY <1>4, <1>6, NoKeyRow
    <3> QED BY <3>1 DEF Dated, Current
  <2>2. /\ request'[r].pc = "cache" /\ request'[r].op = request[r].op
        /\ request'[r].ent = ent
    BY <1>3
  <2>3. Dated(k, ent, time)'
    BY <1>5, <2>1
  <2> QED BY <1>3, <1>4, <1>8, <2>2, <2>3 DEF ManageOk
<1>13. ASSUME NEW q \in Requests, q # r PROVE ManageOk(q)'
  <2>1. request'[q] = request[q]
    BY <1>2, <1>13 DEF KeysInv, KeysShape
  <2>2. CASE Saving(q) \/ CachingNew(q)
    <3>1. PICK j \in Keys, e \in KeyVersion :
            /\ request[q] = [pc |-> request[q].pc, op |-> request[q].op,
                             keys |-> {j}, ent |-> request[q].ent]
            /\ e = request[q].ent /\ SecretsOk(e) /\ GraceBounded(j, e)
            /\ CachingNew(q) => Dated(j, e, time)
      BY <2>2 DEF KeysInv, ManageOk
    <3>2. SecretsOk(e)' /\ GraceBounded(j, e)'
      BY <1>6, <1>7, <3>1
    <3>3. CachingNew(q)' => Dated(j, e, time)'
      <4>1. ASSUME NEW t \in Int, t = time, CachingNew(q) PROVE Dated(j, e, t)'
        BY <1>6, <3>1, <4>1
      <4> QED BY <1>5, <2>1, <4>1 DEF CachingNew
    <3> QED BY <2>1, <3>1, <3>2, <3>3 DEF ManageOk
  <2>3. CASE ~(Saving(q) \/ CachingNew(q))
    BY <2>1, <2>3 DEF ManageOk, Saving, CachingNew
  <2> QED BY <2>2, <2>3
<1>14. ASSUME NEW v \in Validators PROVE ValidateOk(v)'
  <2>1. validator'[v] = validator[v]
    BY <1>2
  <2>2. CASE Writing(v)
    <3>1. PICK j \in Keys, e \in CachedVersion :
            /\ j = validator[v].key /\ e = validator[v].entry
            /\ SecretsOk(e) /\ GraceBounded(j, e) /\ Dated(j, e, time)
      BY <2>2 DEF KeysInv, ValidateOk
    <3>2. SecretsOk(e)' /\ GraceBounded(j, e)'
      BY <1>6, <1>7, <3>1
    <3>3. Dated(j, e, time)'
      <4>1. ASSUME NEW t \in Int, t = time PROVE Dated(j, e, t)'
        BY <1>6, <3>1, <4>1
      <4> QED BY <1>5, <4>1
    <3> QED BY <2>1, <3>1, <3>2, <3>3 DEF ValidateOk
  <2>3. CASE ~Writing(v)
    BY <2>1, <2>3 DEF ValidateOk, Writing
  <2> QED BY <2>2, <2>3
<1> QED BY <1>9, <1>10, <1>11, <1>12, <1>13, <1>14 DEF KeysInv

\* What a validation reads, and what a new key leaves in the cache, is dated now.
LEMMA PayloadOk ==
  ASSUME KeysInv, NEW k \in Keys, NEW ent \in KeyVersion, NEW st \in {"ACTIVE", "SUSPENDED"},
         NEW e, e = buildCachePayload(ent, st),
         SecretsOk(ent), GraceBounded(k, ent), NEW t, Dated(k, ent, t)
  PROVE  /\ e \in CachedVersion /\ e.at = time
         /\ SecretsOk(e) /\ GraceBounded(k, e) /\ Dated(k, e, t)
<1>1. time \in Nat
  BY DEF KeysInv, KeysShape
<1>2. /\ e \in CachedVersion /\ e.at = time /\ e.secret = ent.secret
      /\ e.previous = ent.previous /\ e.graceEndsAt = ent.graceEndsAt
      /\ e.status = ent.status
  BY <1>1 DEF buildCachePayload, CachedVersion, KeyVersion
<1>3. SecretsOk(e)
  BY <1>2 DEF SecretsOk
<1>4. GraceBounded(k, e)
  BY <1>2 DEF GraceBounded
<1>5. Dated(k, e, t)
  BY <1>2 DEF Dated, isRevoked
<1> QED BY <1>2, <1>3, <1>4, <1>5

\* An entry is written with what holds of it now.
LEMMA WrittenOk ==
  ASSUME KeysInv, NEW k \in Keys, NEW e \in CachedVersion, e.at = time,
         SecretsOk(e), GraceBounded(k, e), Dated(k, e, e.at), cacheSet(k, e),
         UNCHANGED <<keyRow, time, secrets, revokedAt, retiredAt>>
  PROVE  /\ keyEntry' \in [Keys -> CachedVersion \cup {NoEntry}]
         /\ \A j \in Keys : EntryOk(j)'
<1>0. time \in Nat /\ secrets' \in 0..MaxSecret /\ secrets =< secrets'
      /\ keyEntry \in [Keys -> CachedVersion \cup {NoEntry}]
  BY DEF KeysInv, KeysShape
<1>1. keyEntry' \in [Keys -> CachedVersion \cup {NoEntry}]
  BY <1>0 DEF cacheSet
<1>2. ASSUME NEW j \in Keys, keyEntry'[j] # keyEntry[j] PROVE EntryOk(j)'
  <2>1. j = k /\ keyEntry'[j] = e
    BY <1>0, <1>2 DEF cacheSet
  <2>2. SecretsOk(e)' /\ GraceBounded(k, e)' /\ Dated(k, e, e.at)'
    BY <1>0, VersionsKept
  <2> QED BY <1>0, <2>1, <2>2 DEF EntryOk
<1> QED BY <1>0, <1>1, <1>2, QuietKeeps

\* The cache step of a request.
LEMMA CacheKeeps ==
  ASSUME KeysInv, NEW r \in Requests, CacheStep(r)
  PROVE  KeysInv'
<1>1. /\ UNCHANGED <<keyRow, account, validator, time, secrets, revokedAt, retiredAt>>
      /\ request' = [request EXCEPT ![r] = IdleRequest]
      /\ request[r].pc = "cache"
      /\ DOMAIN request = Requests
      /\ secrets' \in 0..MaxSecret /\ secrets =< secrets'
  BY DEF CacheStep, Respond, Await, KeysInv, KeysShape
<1>2. /\ keyEntry' \in [Keys -> CachedVersion \cup {NoEntry}]
      /\ \A j \in Keys : EntryOk(j)'
  <2>1. CASE request[r].op = "create"
    <3>1. PICK k \in Keys, ent \in KeyVersion, t \in 0..MaxTime :
            /\ request[r].keys = {k} /\ request[r].ent = ent /\ t = time
            /\ SecretsOk(ent) /\ GraceBounded(k, ent) /\ Dated(k, ent, t)
      BY <1>1, <2>1 DEF KeysInv, KeysShape, ManageOk, CachingNew
    <3>2. PICK e : e = buildCachePayload(ent, "ACTIVE")
      OBVIOUS
    <3>3. cacheSet(k, e)
      BY <2>1, <3>1, <3>2 DEF CacheStep
    <3>4. /\ e \in CachedVersion /\ e.at = time
          /\ SecretsOk(e) /\ GraceBounded(k, e) /\ Dated(k, e, t)
      BY <3>1, <3>2, PayloadOk
    <3>5. Dated(k, e, e.at)
      BY <3>1, <3>4
    <3> QED BY <1>1, <3>3, <3>4, <3>5, WrittenOk
  <2>2. CASE request[r].op # "create"
    <3>1. \A j \in Keys : keyEntry'[j] \in {keyEntry[j], NoEntry}
      BY <2>2 DEF CacheStep, invalidateAllForAccount
    <3>2. keyEntry' \in [Keys -> CachedVersion \cup {NoEntry}]
      BY <2>2 DEF CacheStep, invalidateAllForAccount, KeysInv, KeysShape
    <3> QED BY <1>1, <3>1, <3>2, QuietKeeps
  <2> QED BY <2>1, <2>2
<1>3. KeysShape'
  BY <1>1, <1>2 DEF KeysInv, KeysShape
<1>4. \A j \in Keys : RowOk(j)'
  BY <1>1, QuietKeeps
<1>5. \A v \in Validators : ValidateOk(v)'
  BY <1>1, QuietKeeps
<1>6. ASSUME NEW q \in Requests PROVE ManageOk(q)'
  <2>1. CASE q = r
    BY <1>1, <2>1 DEF ManageOk, Saving, CachingNew, IdleRequest
  <2>2. CASE q # r
    <3>1. request'[q] = request[q]
      BY <1>1, <2>2
    <3> QED BY <1>1, <3>1, QuietKeeps
  <2> QED BY <2>1, <2>2
<1> QED BY <1>2, <1>3, <1>4, <1>5, <1>6 DEF KeysInv

\* Billing's change of the account's status, up to the deletes.
LEMMA StatusKeeps ==
  ASSUME KeysInv, NEW r \in Requests,
         \/ InvalidatorReadsKeys(r)
         \/ \E st \in {"ACTIVE", "SUSPENDED"} : AccountStatusWrite(r, st)
  PROVE  KeysInv'
<1>1. /\ UNCHANGED <<keyRow, keyEntry, validator, time, secrets, revokedAt, retiredAt>>
      /\ account' \in {"ACTIVE", "SUSPENDED"}
      /\ DOMAIN request = Requests
      /\ secrets' \in 0..MaxSecret /\ secrets =< secrets'
  BY DEF InvalidatorReadsKeys, AccountStatusWrite, KeysInv, KeysShape
<1>2. PICK new : /\ request' = [request EXCEPT ![r] = new]
                 /\ new.pc # "save" /\ new.op = "status"
  <2>1. CASE InvalidatorReadsKeys(r)
    <3>1. /\ request' = [request EXCEPT ![r] =
                [pc |-> "cache", op |-> "status", keys |-> findAllByAccount]]
          /\ [pc |-> "cache", op |-> "status", keys |-> findAllByAccount].pc # "save"
          /\ [pc |-> "cache", op |-> "status", keys |-> findAllByAccount].op = "status"
      BY <2>1 DEF InvalidatorReadsKeys, Await
    <3> QED BY <3>1
  <2>2. CASE \E st \in {"ACTIVE", "SUSPENDED"} : AccountStatusWrite(r, st)
    <3>1. /\ request' = [request EXCEPT ![r] = [pc |-> "keys", op |-> "status", keys |-> {}]]
          /\ [pc |-> "keys", op |-> "status", keys |-> {}].pc # "save"
          /\ [pc |-> "keys", op |-> "status", keys |-> {}].op = "status"
      BY <2>2 DEF AccountStatusWrite, Await
    <3> QED BY <3>1
  <2> QED BY <2>1, <2>2
<1>3. KeysShape'
  BY <1>1, <1>2 DEF KeysInv, KeysShape
<1>4. \A j \in Keys : RowOk(j)' /\ EntryOk(j)'
  BY <1>1, QuietKeeps
<1>5. \A v \in Validators : ValidateOk(v)'
  BY <1>1, QuietKeeps
<1>6. ASSUME NEW q \in Requests PROVE ManageOk(q)'
  <2>1. CASE q = r
    BY <1>1, <1>2, <2>1 DEF ManageOk, Saving, CachingNew
  <2>2. CASE q # r
    <3>1. request'[q] = request[q]
      BY <1>1, <1>2, <2>2
    <3> QED BY <1>1, <3>1, QuietKeeps
  <2> QED BY <2>1, <2>2
<1> QED BY <1>3, <1>4, <1>5, <1>6 DEF KeysInv

\* A validation reads the row, and writes back what it has read.
LEMMA LoadKeeps ==
  ASSUME KeysInv, NEW v \in Validators, NEW k \in Keys, ValidateLoadsRow(v, k)
  PROVE  KeysInv'
<1>1. /\ UNCHANGED <<keyRow, keyEntry, account, request, time, secrets, revokedAt, retiredAt>>
      /\ keyRow[k] # NoKey /\ DOMAIN validator = Validators
      /\ secrets' \in 0..MaxSecret /\ secrets =< secrets'
      /\ account \in {"ACTIVE", "SUSPENDED"}
  BY DEF ValidateLoadsRow, KeysInv, KeysShape
<1>2. PICK e : e = buildCachePayload(keyRow[k], account)
  OBVIOUS
<1>3. validator' = [validator EXCEPT ![v] = [pc |-> "write", key |-> k, entry |-> e]]
  BY <1>2 DEF ValidateLoadsRow
<1>4. PICK ent \in KeyVersion, t \in 0..MaxTime, st \in {"ACTIVE", "SUSPENDED"} :
        /\ ent = keyRow[k] /\ t = time /\ st = account
        /\ SecretsOk(ent) /\ GraceBounded(k, ent) /\ Dated(k, ent, t)
  <2>1. keyRow[k] \in KeyVersion /\ SecretsOk(keyRow[k]) /\ GraceBounded(k, keyRow[k])
    BY <1>1, RowIsVersion
  <2>2. Dated(k, keyRow[k], time)
    BY <1>1 DEF Dated, Current
  <2>3. time \in 0..MaxTime
    BY DEF KeysInv, KeysShape
  <2> QED BY <1>1, <2>1, <2>2, <2>3
<1>5. /\ e \in CachedVersion /\ SecretsOk(e) /\ GraceBounded(k, e) /\ Dated(k, e, t)
  BY <1>2, <1>4, PayloadOk
<1>6. SecretsOk(e)' /\ GraceBounded(k, e)' /\ Dated(k, e, t)'
  BY <1>1, <1>5, VersionsKept
<1>7. KeysShape'
  BY <1>1, <1>3 DEF KeysInv, KeysShape
<1>8. \A j \in Keys : RowOk(j)' /\ EntryOk(j)'
  BY <1>1, QuietKeeps
<1>9. \A q \in Requests : ManageOk(q)'
  BY <1>1, QuietKeeps
<1>10. ASSUME NEW w \in Validators PROVE ValidateOk(w)'
  <2>1. CASE w = v
    <3>1. validator'[w].key = k /\ validator'[w].entry = e /\ t = time'
      BY <1>1, <1>3, <1>4, <2>1
    <3> QED BY <1>5, <1>6, <3>1 DEF ValidateOk
  <2>2. CASE w # v
    <3>1. validator'[w] = validator[w]
      BY <1>1, <1>3, <2>2
    <3> QED BY <1>1, <3>1, QuietKeeps
  <2> QED BY <2>1, <2>2
<1> QED BY <1>7, <1>8, <1>9, <1>10 DEF KeysInv

LEMMA WriteKeeps ==
  ASSUME KeysInv, NEW v \in Validators, ValidateWritesCache(v)
  PROVE  KeysInv'
<1>1. /\ UNCHANGED <<keyRow, account, request, time, secrets, revokedAt, retiredAt>>
      /\ DOMAIN validator = Validators /\ Writing(v)
      /\ validator' = [validator EXCEPT ![v] = [pc |-> "idle"]]
      /\ secrets' \in 0..MaxSecret /\ secrets =< secrets' /\ time \in Nat
  BY DEF ValidateWritesCache, Writing, KeysInv, KeysShape
<1>2. PICK k \in Keys, d \in CachedVersion :
        /\ k = validator[v].key /\ d = validator[v].entry
        /\ SecretsOk(d) /\ GraceBounded(k, d) /\ Dated(k, d, time)
  BY <1>1 DEF KeysInv, ValidateOk
<1>3. PICK e : e = [d EXCEPT !.at = time]
  OBVIOUS
<1>4. /\ e \in CachedVersion /\ e.at = time /\ e.secret = d.secret
      /\ e.previous = d.previous /\ e.graceEndsAt = d.graceEndsAt /\ e.status = d.status
  BY <1>1, <1>2, <1>3 DEF CachedVersion
<1>5. cacheSet(k, e)
  BY <1>2, <1>3 DEF ValidateWritesCache
<1>6. SecretsOk(e) /\ GraceBounded(k, e) /\ Dated(k, e, e.at)
  BY <1>2, <1>4 DEF SecretsOk, GraceBounded, Dated, isRevoked
<1>7. /\ keyEntry' \in [Keys -> CachedVersion \cup {NoEntry}]
      /\ \A j \in Keys : EntryOk(j)'
  BY <1>1, <1>4, <1>5, <1>6, WrittenOk
<1>8. KeysShape'
  BY <1>1, <1>7 DEF KeysInv, KeysShape
<1>9. \A j \in Keys : RowOk(j)'
  BY <1>1, QuietKeeps
<1>10. \A q \in Requests : ManageOk(q)'
  BY <1>1, QuietKeeps
<1>11. ASSUME NEW w \in Validators PROVE ValidateOk(w)'
  <2>1. CASE w = v
    BY <1>1, <2>1 DEF ValidateOk, Writing
  <2>2. CASE w # v
    <3>1. validator'[w] = validator[w]
      BY <1>1, <2>2
    <3> QED BY <1>1, <3>1, QuietKeeps
  <2> QED BY <2>1, <2>2
<1> QED BY <1>7, <1>8, <1>9, <1>10, <1>11 DEF KeysInv

\* Time passes between requests; the entries that are due go.
LEMMA TimeKeeps ==
  ASSUME KeysInv, KeyTimePasses
  PROVE  KeysInv'
<1>1. /\ UNCHANGED <<keyRow, account, request, validator, secrets, revokedAt, retiredAt>>
      /\ time \in Nat /\ time' = time + 1 /\ time' \in 0..MaxTime /\ MaxSecret \in Nat
      /\ secrets \in Nat /\ RotationGrace \in Nat
      /\ secrets \in 0..MaxSecret /\ retiredAt \in [1..MaxSecret -> Int]
      /\ keyEntry \in [Keys -> CachedVersion \cup {NoEntry}]
  BY ApiKeysAssumption DEF KeyTimePasses, KeysInv, KeysShape
<1>2. /\ keyEntry' \in [Keys -> CachedVersion \cup {NoEntry}]
      /\ \A j \in Keys : keyEntry'[j] \in {keyEntry[j], NoEntry}
  BY <1>1 DEF KeyTimePasses
<1>3. KeysShape'
  <2>1. \A s \in 1..MaxSecret : retiredAt[s] \in Int /\ retiredAt[s] =< time
    BY <1>1 DEF KeysInv, KeysShape
  <2>2. \A s \in 1..MaxSecret : retiredAt'[s] =< time'
    BY <1>1, <2>1
  <2> QED BY <1>1, <1>2, <2>2 DEF KeysInv, KeysShape
<1>4. \A k \in Keys : \A e : e.graceEndsAt \in Int /\ GraceBounded(k, e) => GraceBounded(k, e)'
  BY <1>1 DEF GraceBounded, Current
<1>5. ASSUME NEW k \in Keys PROVE RowOk(k)'
  <2>1. CASE keyRow[k] # NoKey
    <3>1. PICK e \in KeyVersion : e = keyRow[k] /\ SecretsOk(e) /\ GraceBounded(k, e)
      BY <2>1, RowIsVersion
    <3>2. e.graceEndsAt \in Int
      BY DEF KeyVersion
    <3>3. SecretsOk(e)' /\ GraceBounded(k, e)'
      BY <1>1, <1>4, <3>1, <3>2 DEF SecretsOk
    <3> QED BY <1>1, <3>1, <3>3 DEF RowOk
  <2> QED BY <1>1, <2>1 DEF RowOk
<1>6. ASSUME NEW k \in Keys PROVE EntryOk(k)'
  <2>1. CASE keyEntry'[k] # NoEntry
    <3>1. PICK e \in CachedVersion :
            /\ e = keyEntry[k] /\ e = keyEntry'[k]
            /\ SecretsOk(e) /\ GraceBounded(k, e) /\ Dated(k, e, e.at) /\ e.at =< time
      BY <1>1, <1>2, <2>1 DEF KeysInv, EntryOk
    <3>2. e.graceEndsAt \in Int /\ e.at \in Nat
      BY DEF CachedVersion
    <3>3. SecretsOk(e)' /\ GraceBounded(k, e)'
      BY <1>1, <1>4, <3>1, <3>2 DEF SecretsOk
    <3>4. Dated(k, e, e.at)'
      BY <1>1, <3>1 DEF Dated, Current
    <3>5. e.at =< time'
      BY <1>1, <3>1, <3>2
    <3> QED BY <3>1, <3>3, <3>4, <3>5 DEF EntryOk
  <2> QED BY <2>1 DEF EntryOk
<1>7. \A r \in Requests : ManageOk(r)'
  BY <1>1 DEF KeyTimePasses, ManageOk, Saving, CachingNew
<1>8. \A v \in Validators : ValidateOk(v)'
  BY <1>1 DEF KeyTimePasses, ValidateOk, Writing
<1> QED BY <1>3, <1>5, <1>6, <1>7, <1>8 DEF KeysInv

LEMMA KeysInvNext == KeysInv /\ [KeysNext]_keyVars => KeysInv'
<1> SUFFICES ASSUME KeysInv, [KeysNext]_keyVars PROVE KeysInv'
  OBVIOUS
<1>1. CASE \E r \in Requests, actor \in Actors, k \in Keys : apiKeyRoutes(r, actor, k)
  BY <1>1, RoutesKeep
<1>2. CASE \E r \in Requests : KeyWorkers(r)
  BY <1>2, WorkersKeep
<1>3. CASE \E r \in Requests : \/ InvalidatorReadsKeys(r)
                              \/ \E st \in {"ACTIVE", "SUSPENDED"} : AccountStatusWrite(r, st)
  BY <1>3, StatusKeeps
<1>4. CASE \E r \in Requests : SaveKeyStep(r)
  BY <1>4, SaveKeeps
<1>5. CASE \E r \in Requests : CacheStep(r)
  BY <1>5, CacheKeeps
<1>6. CASE \E v \in Validators : ValidateWritesCache(v)
  BY <1>6, WriteKeeps
<1>7. CASE \E v \in Validators, k \in Keys : ValidateLoadsRow(v, k)
  BY <1>7, LoadKeeps
<1>8. CASE KeyTimePasses
  BY <1>8, TimeKeeps
<1>9. CASE UNCHANGED keyVars
  <2>1. /\ UNCHANGED <<keyRow, keyEntry, account, request, validator, time, secrets,
                       revokedAt, retiredAt>>
        /\ secrets' \in 0..MaxSecret /\ secrets =< secrets'
    BY <1>9 DEF keyVars, KeysInv, KeysShape
  <2>2. KeysShape'
    BY <2>1 DEF KeysInv, KeysShape
  <2> QED BY <2>1, <2>2, QuietKeeps DEF KeysInv
<1> QED BY <1>1, <1>2, <1>3, <1>4, <1>5, <1>6, <1>7, <1>8, <1>9 DEF KeysNext

(***************************************************************************)
(* Expiry: every copy of a key carries the hour its row was created with.  *)
(***************************************************************************)
CarriesExpiry(k, e) == keyRow[k] # NoKey /\ e.expiresAt = keyRow[k].expiresAt

\* A request that creates a key is the only one about to save it.
SaveExpires(r) ==
  Saving(r) =>
    \A k \in request[r].keys :
      IF request[r].op = "create"
      THEN /\ keyRow[k] = NoKey
           /\ \A q \in Requests \ {r} : Saving(q) => k \notin request[q].keys
      ELSE CarriesExpiry(k, request[r].ent)

ExpiryInv ==
  /\ \A k \in Keys : keyEntry[k] # NoEntry => CarriesExpiry(k, keyEntry[k])
  /\ \A v \in Validators : Writing(v) => CarriesExpiry(validator[v].key, validator[v].entry)
  /\ \A r \in Requests :
       /\ SaveExpires(r)
       /\ CachingNew(r) => \A k \in request[r].keys : CarriesExpiry(k, request[r].ent)

\* What a request is about to save, or to cache, is of a key.
LEMMA InHand ==
  ASSUME KeysInv, NEW r \in Requests, Saving(r) \/ CachingNew(r)
  PROVE  request[r].keys \subseteq Keys
<1>1. PICK k \in Keys : request[r] = [pc |-> request[r].pc, op |-> request[r].op,
                                      keys |-> {k}, ent |-> request[r].ent]
  BY DEF KeysInv, ManageOk
<1>2. request[r].keys = {k}
  BY <1>1
<1> QED BY <1>2

LEMMA ExpiryInvInit == KeysInit => ExpiryInv
BY DEF KeysInit, ExpiryInv, SaveExpires, Saving, CachingNew, Writing, IdleRequest

\* A use case that changes a key's entity leaves its hour alone.
LEMMA EntityCarries ==
  ASSUME KeysInv, NEW k \in Keys, keyRow[k] # NoKey, NEW ent,
         \/ ent = rotate(keyRow[k], secrets + 1) \/ ent = revoke(keyRow[k])
         \/ ent = markExpired(keyRow[k]) \/ ent = clearRotationGrace(keyRow[k])
         \/ \E scopes \in ScopeChoices : ent = updateScopes(keyRow[k], scopes)
  PROVE  CarriesExpiry(k, ent)
<1>1. keyRow[k] \in KeyVersion
  BY RowIsVersion
<1> QED BY <1>1 DEF CarriesExpiry, KeyVersion, rotate, revoke, markExpired,
           clearRotationGrace, updateScopes

\* A request goes from idle to its save.
LEMMA StartCarries ==
  ASSUME KeysInv, ExpiryInv, NEW r \in Requests, NEW op, NEW k \in Keys, NEW ent,
         request[r].pc = "idle", SaveNext(r, op, k, ent),
         IF op = "create" THEN freshId(k) ELSE CarriesExpiry(k, ent),
         UNCHANGED <<keyRow, keyEntry, account, validator, time, revokedAt, retiredAt>>
  PROVE  ExpiryInv'
<1>1. /\ request' = [request EXCEPT ![r] = [pc |-> "save", op |-> op, keys |-> {k}, ent |-> ent]]
      /\ DOMAIN request = Requests
  BY DEF SaveNext, Await, KeysInv, KeysShape
<1>2. \A q \in Requests \ {r} : request'[q] = request[q]
  BY <1>1
<1>3. request'[r] = [pc |-> "save", op |-> op, keys |-> {k}, ent |-> ent]
  BY <1>1
<1>4. Saving(r)' /\ request'[r].op = op /\ request'[r].keys = {k} /\ request'[r].ent = ent
      /\ ~CachingNew(r)'
  BY <1>3 DEF Saving, CachingNew
<1>5. ASSUME NEW q \in Requests, q # r PROVE SaveExpires(q)'
  <2>1. SaveExpires(q) /\ request'[q] = request[q]
    BY <1>2, <1>5 DEF ExpiryInv
  <2> SUFFICES ASSUME Saving(q), NEW j \in request[q].keys
               PROVE  IF request[q].op = "create"
                      THEN /\ keyRow[j] = NoKey
                           /\ \A p \in Requests \ {q} : Saving(p)' => j \notin request'[p].keys
                      ELSE CarriesExpiry(j, request[q].ent)
    BY <2>1 DEF SaveExpires, Saving, CarriesExpiry
  <2>2. CASE request[q].op = "create"
    <3>1. keyRow[j] = NoKey /\ \A p \in Requests \ {q} : Saving(p) => j \notin request[p].keys
      BY <2>1, <2>2 DEF SaveExpires
    <3>2. j # k
      <4>1. CASE op = "create"
        BY <4>1, <1>5 DEF freshId, Saving
      <4>2. CASE op # "create"
        BY <3>1, <4>2 DEF CarriesExpiry
      <4> QED BY <4>1, <4>2
    <3>3. ASSUME NEW p \in Requests \ {q}, Saving(p)' PROVE j \notin request'[p].keys
      <4>1. CASE p = r
        BY <1>4, <3>2, <4>1
      <4>2. CASE p # r
        BY <1>2, <3>1, <3>3, <4>2 DEF Saving
      <4> QED BY <4>1, <4>2
    <3> QED BY <2>2, <3>1, <3>3
  <2>3. CASE request[q].op # "create"
    BY <2>1, <2>3 DEF SaveExpires
  <2> QED BY <2>2, <2>3
<1>6. SaveExpires(r)'
  <2>1. CASE op = "create"
    <3>1. keyRow[k] = NoKey /\ \A q \in Requests : Saving(q) => k \notin request[q].keys
      BY <2>1 DEF freshId, Saving
    <3>2. \A q \in Requests \ {r} : Saving(q)' => k \notin request'[q].keys
      BY <1>2, <3>1 DEF Saving
    <3> QED BY <1>4, <2>1, <3>1, <3>2 DEF SaveExpires
  <2>2. CASE op # "create"
    <3>1. CarriesExpiry(k, ent)'
      BY <2>2 DEF CarriesExpiry
    <3> QED BY <1>4, <2>2, <3>1 DEF SaveExpires
  <2> QED BY <2>1, <2>2
<1>7. ASSUME NEW q \in Requests, CachingNew(q)'
      PROVE  \A j \in request'[q].keys : CarriesExpiry(j, request[q].ent)'
  <2>1. request'[q] = request[q] /\ CachingNew(q)
    BY <1>2, <1>4, <1>7 DEF CachingNew
  <2>2. \A j \in request[q].keys : CarriesExpiry(j, request[q].ent)
    BY <2>1 DEF ExpiryInv
  <2> QED BY <2>1, <2>2 DEF CarriesExpiry
<1> QED BY <1>5, <1>6, <1>7 DEF ExpiryInv, CarriesExpiry, Writing

LEMMA ExpiryInvNext ==
  ASSUME KeysInv, ExpiryInv, [KeysNext]_keyVars
  PROVE  ExpiryInv'
<1>0. DOMAIN request = Requests /\ DOMAIN validator = Validators /\ DOMAIN keyRow = Keys
      /\ DOMAIN keyEntry = Keys
  BY DEF KeysInv, KeysShape
<1>1. ASSUME NEW r \in Requests, NEW actor \in Actors, NEW k \in Keys, apiKeyRoutes(r, actor, k)
      PROVE  ExpiryInv'
  <2>1. /\ request[r].pc = "idle"
        /\ UNCHANGED <<keyRow, keyEntry, account, validator, time, revokedAt, retiredAt>>
    BY <1>1 DEF apiKeyRoutes
  <2>2. CASE PostKey(r, actor, k)
    <3>1. freshId(k) /\ \E ent : SaveNext(r, "create", k, ent)
      BY <2>2 DEF PostKey, CreateApiKey
    <3> QED BY <2>1, <3>1, StartCarries
  <2>3. CASE ~PostKey(r, actor, k)
    <3>1. keyRow[k] # NoKey /\ \E op, ent : op # "create" /\ SaveNext(r, op, k, ent)
               /\ \/ ent = rotate(keyRow[k], secrets + 1) \/ ent = revoke(keyRow[k])
                  \/ \E scopes \in ScopeChoices : ent = updateScopes(keyRow[k], scopes)
      <4>1. CASE PatchKey(r, actor, k)
        <5>1. PICK scopes \in ScopeChoices :
                keyRow[k] # NoKey /\ SaveNext(r, "update", k, updateScopes(keyRow[k], scopes))
          BY <4>1 DEF PatchKey, UpdateApiKey, findManageable
        <5> QED BY <5>1
      <4>2. CASE PostRevoke(r, actor, k)
        <5>1. keyRow[k] # NoKey /\ SaveNext(r, "revoke", k, revoke(keyRow[k]))
          BY <4>2 DEF PostRevoke, RevokeApiKey, findManageable
        <5> QED BY <5>1
      <4>3. CASE PostRotate(r, actor, k)
        <5>1. keyRow[k] # NoKey /\ SaveNext(r, "rotate", k, rotate(keyRow[k], secrets + 1))
          BY <4>3 DEF PostRotate, RotateApiKey, findManageable
        <5> QED BY <5>1
      <4> QED BY <1>1, <2>3, <4>1, <4>2, <4>3 DEF apiKeyRoutes
    <3>2. PICK op, ent : op # "create" /\ SaveNext(r, op, k, ent) /\ CarriesExpiry(k, ent)
      BY <3>1, EntityCarries
    <3> QED BY <2>1, <3>2, StartCarries
  <2> QED BY <2>2, <2>3
<1>2. ASSUME NEW r \in Requests, KeyWorkers(r) PROVE ExpiryInv'
  <2>1. /\ request[r].pc = "idle"
        /\ UNCHANGED <<keyRow, keyEntry, account, validator, time, revokedAt, retiredAt>>
    BY <1>2 DEF KeyWorkers
  <2>2. PICK k \in Keys : \E op, ent :
          /\ keyRow[k] # NoKey /\ op # "create" /\ SaveNext(r, op, k, ent)
          /\ ent = markExpired(keyRow[k]) \/ ent = clearRotationGrace(keyRow[k])
    <3>1. CASE ExpireApiKeysWorker(r)
      <4>1. PICK k \in findExpiredKeys : SaveNext(r, "expire", k, markExpired(keyRow[k]))
        BY <3>1 DEF ExpireApiKeysWorker
      <4>2. k \in Keys /\ keyRow[k] # NoKey
        BY NoKeyRow DEF findExpiredKeys
      <4> QED BY <4>1, <4>2
    <3>2. CASE ExpireRotationGraceWorker(r)
      <4>1. PICK k \in findExpiredRotations :
              SaveNext(r, "clear", k, clearRotationGrace(keyRow[k]))
        BY <3>2 DEF ExpireRotationGraceWorker
      <4>2. k \in Keys /\ keyRow[k] # NoKey
        BY DEF findExpiredRotations, findAllByAccount
      <4> QED BY <4>1, <4>2
    <3> QED BY <1>2, <3>1, <3>2 DEF KeyWorkers
  <2>3. PICK op, ent :
          /\ keyRow[k] # NoKey /\ op # "create" /\ SaveNext(r, op, k, ent)
          /\ ent = markExpired(keyRow[k]) \/ ent = clearRotationGrace(keyRow[k])
    BY <2>2
  <2> QED BY <2>1, <2>3, EntityCarries, StartCarries
<1>3. ASSUME NEW r \in Requests, \/ InvalidatorReadsKeys(r)
                                \/ \E st \in {"ACTIVE", "SUSPENDED"} : AccountStatusWrite(r, st)
                                \/ CacheStep(r)
      PROVE  ExpiryInv'
  <2>1. PICK new : /\ request' = [request EXCEPT ![r] = new]
                   /\ ~(new.pc = "save") /\ ~(new.pc = "cache" /\ new.op = "create")
    <3>1. CASE InvalidatorReadsKeys(r)
      <4>1. PICK new : new = [pc |-> "cache", op |-> "status", keys |-> findAllByAccount]
        OBVIOUS
      <4>2. ~(new.pc = "save") /\ ~(new.pc = "cache" /\ new.op = "create")
        BY <4>1
      <4>3. request' = [request EXCEPT ![r] = new]
        BY <3>1, <4>1 DEF InvalidatorReadsKeys, Await
      <4> QED BY <4>2, <4>3
    <3>2. CASE \E st \in {"ACTIVE", "SUSPENDED"} : AccountStatusWrite(r, st)
      <4>1. PICK new : new = [pc |-> "keys", op |-> "status", keys |-> {}]
        OBVIOUS
      <4> QED BY <3>2, <4>1 DEF AccountStatusWrite, Await
    <3>3. CASE CacheStep(r)
      <4>1. PICK new : new = [pc |-> "idle"]
        OBVIOUS
      <4>2. ~(new.pc = "save") /\ ~(new.pc = "cache" /\ new.op = "create")
        BY <4>1
      <4>3. request' = [request EXCEPT ![r] = new]
        BY <3>3, <4>1 DEF CacheStep, Respond, IdleRequest, Await
      <4> QED BY <4>2, <4>3
    <3> QED BY <1>3, <3>1, <3>2, <3>3
  <2>2. keyRow' = keyRow /\ validator' = validator
    BY <1>3 DEF InvalidatorReadsKeys, AccountStatusWrite, CacheStep
  <2>3. ASSUME NEW k \in Keys, keyEntry'[k] # NoEntry PROVE CarriesExpiry(k, keyEntry'[k])
    <3>1. CASE keyEntry'[k] = keyEntry[k]
      BY <2>3, <3>1 DEF ExpiryInv
    <3>2. CASE keyEntry'[k] # keyEntry[k]
      <4>1. CacheStep(r)
        BY <1>3, <3>2 DEF InvalidatorReadsKeys, AccountStatusWrite
      <4>2. request[r].op = "create" /\ request[r].pc = "cache"
        BY <1>0, <2>3, <3>2, <4>1 DEF CacheStep, invalidateAllForAccount
      <4>3. PICK j \in Keys : request[r].keys = {j}
        <5>1. ManageOk(r) /\ CachingNew(r)
          BY <4>2 DEF KeysInv, CachingNew
        <5>2. PICK j \in Keys : request[r] = [pc |-> request[r].pc, op |-> request[r].op,
                                              keys |-> {j}, ent |-> request[r].ent]
          BY <5>1 DEF ManageOk
        <5> QED BY <5>2
      <4>4. keyEntry' = [keyEntry EXCEPT ![j] = buildCachePayload(request[r].ent, "ACTIVE")]
        BY <3>2, <4>1, <4>2, <4>3 DEF CacheStep, cacheSet
      <4>5. k = j /\ keyEntry'[k] = buildCachePayload(request[r].ent, "ACTIVE")
        BY <1>0, <3>2, <4>4
      <4>6. CarriesExpiry(k, request[r].ent)
        BY <4>2, <4>3, <4>5 DEF ExpiryInv, CachingNew
      <4> QED BY <4>5, <4>6 DEF CarriesExpiry, buildCachePayload
    <3> QED BY <3>1, <3>2
  <2>4. ASSUME NEW q \in Requests
        PROVE  /\ SaveExpires(q)'
               /\ CachingNew(q)' => \A k \in request'[q].keys : CarriesExpiry(k, request[q].ent)'
    <3>1. \A p \in Requests : Saving(p)' \/ CachingNew(p)' => request'[p] = request[p]
      BY <1>0, <2>1 DEF Saving, CachingNew
    <3>2. \A p \in Requests : Saving(p)' => Saving(p) /\ request'[p] = request[p]
      BY <3>1 DEF Saving
    <3>3. SaveExpires(q)'
      BY <2>2, <3>2 DEF ExpiryInv, SaveExpires, CarriesExpiry
    <3>4. CachingNew(q)' => CachingNew(q) /\ request'[q] = request[q]
      BY <3>1 DEF CachingNew
    <3> QED BY <2>2, <3>3, <3>4 DEF ExpiryInv, CarriesExpiry
  <2> QED BY <2>2, <2>3, <2>4 DEF ExpiryInv, CarriesExpiry, Writing
<1>4. ASSUME NEW r \in Requests, SaveKeyStep(r) PROVE ExpiryInv'
  <2>1. PICK k \in Keys, ent \in KeyVersion :
          /\ request[r].keys = {k} /\ request[r].ent = ent /\ ent # NoKey /\ Saving(r)
    <3>1. Saving(r) /\ ManageOk(r)
      BY <1>4 DEF SaveKeyStep, Saving, KeysInv
    <3>2. PICK k \in Keys : /\ request[r] = [pc |-> request[r].pc, op |-> request[r].op,
                                             keys |-> {k}, ent |-> request[r].ent]
                            /\ request[r].ent \in KeyVersion
      BY <3>1 DEF ManageOk
    <3>3. request[r].keys = {k}
      BY <3>2
    <3> QED BY <3>1, <3>2, <3>3, NoKeyRow
  <2>2. /\ keyRow' = [keyRow EXCEPT ![k] = ent]
        /\ UNCHANGED <<keyEntry, validator>>
        /\ request' = [request EXCEPT ![r] = [request[r] EXCEPT !.pc = "cache"]]
    BY <1>4, <2>1 DEF SaveKeyStep, saveKey, Await
  <2>3. /\ keyRow'[k] = ent /\ \A j \in Keys \ {k} : keyRow'[j] = keyRow[j]
        /\ \A q \in Requests \ {r} : request'[q] = request[q]
    BY <1>0, <2>2
  <2>4. \A j, e : CarriesExpiry(j, e) /\ j \in Keys => CarriesExpiry(j, e)'
    <3> SUFFICES ASSUME NEW j \in Keys, NEW e, CarriesExpiry(j, e) PROVE CarriesExpiry(j, e)'
      OBVIOUS
    <3>1. CASE j = k
      <4>1. keyRow[k] # NoKey
        BY <3>1 DEF CarriesExpiry
      <4>2. CarriesExpiry(k, ent)
        BY <2>1, <4>1 DEF ExpiryInv, SaveExpires
      <4> QED BY <2>1, <2>3, <3>1, <4>2 DEF CarriesExpiry
    <3>2. CASE j # k
      BY <2>3, <3>2 DEF CarriesExpiry
    <3> QED BY <3>1, <3>2
  <2>5. /\ request'[r].pc = "cache" /\ request'[r].keys = {k} /\ request'[r].ent = ent
    <3>1. request'[r] = [request[r] EXCEPT !.pc = "cache"]
      BY <1>0, <2>2
    <3>2. request[r] = [pc |-> request[r].pc, op |-> request[r].op,
                        keys |-> request[r].keys, ent |-> request[r].ent]
      <4>1. ManageOk(r) /\ Saving(r)
        BY <2>1 DEF KeysInv
      <4>2. PICK j \in Keys : request[r] = [pc |-> request[r].pc, op |-> request[r].op,
                                            keys |-> {j}, ent |-> request[r].ent]
        BY <4>1 DEF ManageOk
      <4>3. request[r].keys = {j}
        BY <4>2
      <4> QED BY <4>2, <4>3
    <3> QED BY <2>1, <3>1, <3>2
  <2>6. CarriesExpiry(k, ent)'
    BY <2>1, <2>3 DEF CarriesExpiry
  <2>7. ASSUME NEW q \in Requests PROVE SaveExpires(q)'
    <3>1. CASE q = r
      BY <2>5, <3>1 DEF SaveExpires, Saving
    <3>2. CASE q # r
      <4>1. request'[q] = request[q] /\ SaveExpires(q)
        BY <2>3, <3>2 DEF ExpiryInv
      <4> SUFFICES ASSUME Saving(q), NEW j \in request[q].keys
                   PROVE  IF request[q].op = "create"
                          THEN /\ keyRow'[j] = NoKey
                               /\ \A p \in Requests \ {q} : Saving(p)' => j \notin request'[p].keys
                          ELSE CarriesExpiry(j, request[q].ent)'
        BY <4>1 DEF SaveExpires, Saving
      <4>2. j \in Keys
        BY InHand
      <4>3. CASE request[q].op = "create"
        <5>1. keyRow[j] = NoKey /\ j \notin request[r].keys
              /\ \A p \in Requests \ {q} : Saving(p) => j \notin request[p].keys
          BY <2>1, <3>2, <4>1, <4>3 DEF SaveExpires
        <5>2. keyRow'[j] = NoKey
          BY <2>1, <2>3, <4>2, <5>1
        <5>3. \A p \in Requests \ {q} : Saving(p)' => j \notin request'[p].keys
          BY <2>3, <2>5, <5>1 DEF Saving
        <5> QED BY <4>3, <5>2, <5>3
      <4>4. CASE request[q].op # "create"
        BY <2>4, <4>1, <4>2, <4>4 DEF SaveExpires
      <4> QED BY <4>3, <4>4
    <3> QED BY <3>1, <3>2
  <2>8. ASSUME NEW q \in Requests, CachingNew(q)', NEW j \in request'[q].keys
        PROVE  CarriesExpiry(j, request[q].ent)'
    <3>1. CASE q = r
      BY <2>5, <2>6, <2>8, <3>1 DEF CarriesExpiry
    <3>2. CASE q # r
      <4>1. request'[q] = request[q] /\ CachingNew(q)
        BY <2>3, <2>8, <3>2 DEF CachingNew
      <4>2. j \in Keys /\ CarriesExpiry(j, request[q].ent)
        BY <2>8, <4>1, InHand DEF ExpiryInv
      <4> QED BY <2>4, <4>1, <4>2
    <3> QED BY <3>1, <3>2
  <2>9. ASSUME NEW j \in Keys, keyEntry'[j] # NoEntry PROVE CarriesExpiry(j, keyEntry[j])'
    BY <2>2, <2>4, <2>9 DEF ExpiryInv
  <2>10. ASSUME NEW v \in Validators, Writing(v)'
         PROVE  CarriesExpiry(validator[v].key, validator[v].entry)'
    <3>1. Writing(v) /\ ValidateOk(v)
      BY <2>2, <2>10 DEF Writing, KeysInv
    <3>2. /\ validator[v].key \in Keys
          /\ CarriesExpiry(validator[v].key, validator[v].entry)
      BY <3>1 DEF ExpiryInv, ValidateOk
    <3>3. validator' = validator
      BY <2>2
    <3> QED BY <2>4, <3>2, <3>3 DEF CarriesExpiry
  <2> QED BY <2>2, <2>7, <2>8, <2>9, <2>10 DEF ExpiryInv
<1>5. ASSUME NEW v \in Validators, ValidateWritesCache(v) PROVE ExpiryInv'
  <2>1. PICK k, e : /\ k = validator[v].key /\ e = [validator[v].entry EXCEPT !.at = time]
                    /\ k \in Keys /\ validator[v].entry \in CachedVersion
                    /\ CarriesExpiry(k, validator[v].entry)
    BY <1>5 DEF ValidateWritesCache, Writing, ExpiryInv, KeysInv, ValidateOk
  <2>2. CarriesExpiry(k, e)
    BY <2>1 DEF CarriesExpiry, CachedVersion
  <2>3. UNCHANGED <<keyRow, request>> /\ cacheSet(k, e)
        /\ validator' = [validator EXCEPT ![v] = [pc |-> "idle"]]
    BY <1>5, <2>1 DEF ValidateWritesCache
  <2>4. \A j \in Keys : keyEntry'[j] # NoEntry => CarriesExpiry(j, keyEntry'[j])
    BY <1>0, <2>2, <2>3 DEF cacheSet, ExpiryInv
  <2>5. \A w \in Validators : Writing(w)' => Writing(w) /\ validator'[w] = validator[w]
    BY <1>0, <2>3 DEF Writing
  <2>6. \A w \in Validators : Writing(w)' => CarriesExpiry(validator'[w].key, validator'[w].entry)
    BY <2>5 DEF ExpiryInv
  <2> QED BY <2>3, <2>4, <2>6 DEF ExpiryInv, SaveExpires, CarriesExpiry, Saving, CachingNew
<1>6. ASSUME NEW v \in Validators, NEW k \in Keys, ValidateLoadsRow(v, k) PROVE ExpiryInv'
  <2>1. PICK e : e = buildCachePayload(keyRow[k], account)
    OBVIOUS
  <2>2. CarriesExpiry(k, e)
    BY <1>6, <2>1 DEF ValidateLoadsRow, CarriesExpiry, buildCachePayload
  <2>3. UNCHANGED <<keyRow, keyEntry, request>>
        /\ validator' = [validator EXCEPT ![v] = [pc |-> "write", key |-> k, entry |-> e]]
    BY <1>6, <2>1 DEF ValidateLoadsRow
  <2>4. \A w \in Validators : Writing(w)' => CarriesExpiry(validator'[w].key, validator'[w].entry)
    <3>1. validator'[v] = [pc |-> "write", key |-> k, entry |-> e]
          /\ \A w \in Validators \ {v} : validator'[w] = validator[w]
      BY <1>0, <2>3
    <3> QED BY <2>2, <3>1 DEF ExpiryInv, Writing
  <2> QED BY <2>3, <2>4 DEF ExpiryInv, SaveExpires, CarriesExpiry, Saving, CachingNew
<1>7. CASE KeyTimePasses
  <2>1. UNCHANGED <<keyRow, request, validator>>
        /\ \A k \in Keys : keyEntry'[k] \in {keyEntry[k], NoEntry}
    BY <1>7 DEF KeyTimePasses
  <2> QED BY <2>1 DEF ExpiryInv, SaveExpires, CarriesExpiry, Saving, CachingNew, Writing
<1>8. CASE UNCHANGED keyVars
  BY <1>8 DEF keyVars, ExpiryInv, SaveExpires, CarriesExpiry, Saving, CachingNew, Writing
<1> QED BY <1>1, <1>2, <1>3, <1>4, <1>5, <1>6, <1>7, <1>8 DEF KeysNext

\* The invariant bounds how long a stopped key or secret is accepted.
LEMMA KeysInvBounds == KeysInv /\ ExpiryInv => KeysBounded
<1> SUFFICES ASSUME KeysInv, ExpiryInv PROVE KeysBounded
  OBVIOUS
<1>1. /\ time \in Nat /\ secrets \in Nat /\ secrets =< MaxSecret /\ MaxSecret \in Nat
      /\ CacheTtl \in Nat \ {0} /\ RotationGrace \in Nat /\ CacheTtl =< RotationGrace
      /\ retiredAt \in [1..MaxSecret -> Int] /\ revokedAt \in [Keys -> Int]
      /\ keyRow \in [Keys -> KeyVersion \cup {NoKey}]
      /\ keyEntry \in [Keys -> CachedVersion \cup {NoEntry}]
  BY ApiKeysAssumption DEF KeysInv, KeysShape
<1>2. KeysTypeOK
  <2>1. ASSUME NEW k \in Keys
        PROVE  keyRow[k].status \in {"none", "ACTIVE", "REVOKED", "EXPIRED"}
               /\ keyEntry[k].status \in {"none", "ACTIVE", "REVOKED", "EXPIRED"}
    <3>1. \A e \in KeyVersion : e.status \in {"ACTIVE", "REVOKED", "EXPIRED"}
      BY DEF KeyVersion, KeyStatus
    <3>2. \A e \in CachedVersion : e.status \in {"ACTIVE", "REVOKED", "EXPIRED"}
      BY DEF CachedVersion, KeyStatus
    <3> QED BY <1>1, <3>1, <3>2, NoKeyRow
  <2>2. ASSUME NEW k \in Keys, keyRow[k] # NoKey
        PROVE  keyRow[k].secret \in 1..secrets
               /\ keyRow[k].previous \in 0..secrets \ {keyRow[k].secret}
    BY <2>2, RowIsVersion DEF SecretsOk
  <2>3. time \in 0..MaxTime /\ secrets \in 0..MaxSecret
    BY DEF KeysInv, KeysShape
  <2> QED BY <2>1, <2>2, <2>3 DEF KeysTypeOK
\* What a validation decides on is a version dated within the TTL.
<1>3. ASSUME NEW k \in Keys, NEW e \in Decides(k) \ {NoEntry}
      PROVE  /\ e \in CachedVersion /\ SecretsOk(e) /\ GraceBounded(k, e)
             /\ \E t \in Int : Dated(k, e, t) /\ time < t + CacheTtl
  <2>1. CASE e = cacheGet(k)
    <3>1. e = keyEntry[k] /\ e # NoEntry /\ time < e.at + CacheTtl
      BY <2>1 DEF cacheGet
    <3>2. e \in CachedVersion
      BY <1>1, <3>1
    <3>3. SecretsOk(e) /\ GraceBounded(k, e) /\ Dated(k, e, e.at)
      BY <3>1 DEF KeysInv, EntryOk
    <3>4. e.at \in Int
      BY <3>2 DEF CachedVersion
    <3> QED BY <3>1, <3>2, <3>3, <3>4
  <2>2. CASE e # cacheGet(k)
    <3>1. PICK v \in Validators : Writing(v) /\ validator[v].key = k /\ e = validator[v].entry
      BY <1>3, <2>2 DEF Decides, Writing
    <3>2. /\ e \in CachedVersion /\ SecretsOk(e) /\ GraceBounded(k, e) /\ Dated(k, e, time)
      BY <3>1 DEF KeysInv, ValidateOk
    <3>3. time \in Int /\ time < time + CacheTtl
      BY <1>1
    <3> QED BY <3>2, <3>3
  <2> QED BY <2>1, <2>2
\* What a handshake decides on is one of these, or the row.
<1>4. ASSUME NEW k \in Keys, NEW s \in 1..secrets, Accepts(k, s)
      PROVE  \E e \in CachedVersion :
               /\ GraceBounded(k, e) /\ Verifies(e, s) /\ ~isRevoked(e)
               /\ time =< e.expiresAt /\ CarriesExpiry(k, e)
               /\ AuthenticatesAgent(k, s) => time < e.expiresAt
               /\ \E t \in Int : Dated(k, e, t) /\ time < t + CacheTtl
  <2>1. ASSUME NEW e \in Decides(k) \ {NoEntry} PROVE CarriesExpiry(k, e)
    BY <2>1 DEF Decides, cacheGet, ExpiryInv, Writing
  <2>2. \A e \in CachedVersion : e.expiresAt \in Int
    BY DEF CachedVersion
  <2>3. CASE AuthenticatesAgent(k, s)
    <3>1. PICK e : e = loadKeyHash(k)
      OBVIOUS
    <3>2. /\ e.status = "ACTIVE" /\ time < e.expiresAt /\ Verifies(e, s) /\ ~isRevoked(e)
      BY <2>3, <3>1 DEF AuthenticatesAgent, isRevoked
    <3>3. e # NoEntry
      BY <3>2, NoKeyRow
    <3>4. CASE cacheGet(k) # NoEntry \/ keyRow[k] = NoKey
      <4>1. e = cacheGet(k) /\ e \in Decides(k) \ {NoEntry}
        BY <3>1, <3>3, <3>4 DEF loadKeyHash, Decides
      <4>2. e \in CachedVersion /\ GraceBounded(k, e)
            /\ \E t \in Int : Dated(k, e, t) /\ time < t + CacheTtl
        BY <1>3, <4>1
      <4>3. CarriesExpiry(k, e) /\ time =< e.expiresAt
        BY <1>1, <2>1, <2>2, <3>2, <4>1, <4>2
      <4> QED BY <3>2, <4>2, <4>3
    <3>5. CASE cacheGet(k) = NoEntry /\ keyRow[k] # NoKey
      <4>1. e = buildCachePayload(keyRow[k], account)
        BY <3>1, <3>5 DEF loadKeyHash
      <4>2. keyRow[k] \in KeyVersion /\ SecretsOk(keyRow[k]) /\ GraceBounded(k, keyRow[k])
            /\ account \in {"ACTIVE", "SUSPENDED"}
        BY <3>5, RowIsVersion DEF KeysInv, KeysShape
      <4>3. Dated(k, keyRow[k], time)
        BY <3>5 DEF Dated, Current
      <4>4. e \in CachedVersion /\ GraceBounded(k, e) /\ Dated(k, e, time)
        BY <4>1, <4>2, <4>3, PayloadOk
      <4>5. CarriesExpiry(k, e)
        BY <3>5, <4>1 DEF CarriesExpiry, buildCachePayload
      <4>6. time \in Int /\ time < time + CacheTtl /\ time =< e.expiresAt
        BY <1>1, <2>2, <3>2, <4>4
      <4> QED BY <3>2, <4>4, <4>5, <4>6
    <3> QED BY <3>4, <3>5
  <2>4. CASE ~AuthenticatesAgent(k, s)
    <3>1. PICK e \in Decides(k) \ {NoEntry} : Passes(e, s)
      BY <1>4, <2>4 DEF Accepts
    <3>2. e \in CachedVersion /\ GraceBounded(k, e)
          /\ \E t \in Int : Dated(k, e, t) /\ time < t + CacheTtl
      BY <1>3, <3>1
    <3>3. Verifies(e, s) /\ ~isRevoked(e) /\ time =< e.expiresAt
      BY <1>1, <2>2, <3>1, <3>2 DEF Passes
    <3>4. CarriesExpiry(k, e)
      BY <2>1
    <3> QED BY <2>4, <3>2, <3>3, <3>4
  <2> QED BY <2>3, <2>4
<1>5. RevokedAcceptBounded
  <2> SUFFICES ASSUME NEW k \in Keys, NEW s \in 1..secrets,
                      isRevoked(keyRow[k]), Accepts(k, s)
               PROVE  time < revokedAt[k] + CacheTtl
    BY DEF RevokedAcceptBounded
  <2>1. PICK e \in CachedVersion :
          ~isRevoked(e) /\ \E t \in Int : Dated(k, e, t) /\ time < t + CacheTtl
    BY <1>4
  <2>2. PICK t \in Int : Dated(k, e, t) /\ time < t + CacheTtl
    BY <2>1
  <2>3. revokedAt[k] >= t /\ revokedAt[k] \in Int
    BY <1>1, <2>1, <2>2 DEF Dated
  <2> QED BY <1>1, <2>2, <2>3
<1>6. RetiredSecretBounded
  <2> SUFFICES ASSUME NEW k \in Keys, NEW s \in 1..secrets,
                      keyRow[k] # NoKey, keyRow[k].secret # s, Accepts(k, s)
               PROVE  time < retiredAt[s] + RotationGrace
    BY DEF RetiredSecretBounded
  <2>1. retiredAt[s] \in Int /\ ~Current(k, s)
    BY <1>1 DEF Current
  <2>2. PICK e \in CachedVersion :
          /\ GraceBounded(k, e) /\ Verifies(e, s)
          /\ \E t \in Int : Dated(k, e, t) /\ time < t + CacheTtl
    BY <1>4
  <2>3. PICK t \in Int : Dated(k, e, t) /\ time < t + CacheTtl
    BY <2>2
  <2>4. CASE e.secret = s
    <3>1. retiredAt[s] >= t
      BY <2>1, <2>3, <2>4 DEF Dated
    <3> QED BY <1>1, <2>1, <2>3, <3>1
  <2>5. CASE e.secret # s
    <3>1. e.previous = s /\ e.graceEndsAt > time
      BY <2>2, <2>5 DEF Verifies, graceActive
    <3>2. e.graceEndsAt \in Int /\ s # 0
      BY <1>1, <2>2 DEF CachedVersion
    <3> QED BY <1>1, <2>1, <2>2, <3>1, <3>2 DEF GraceBounded
  <2> QED BY <2>4, <2>5
<1>7. ExpiryRespected
  <2>1. ASSUME NEW k \in Keys, NEW s \in 1..secrets, Accepts(k, s)
        PROVE  /\ keyRow[k] # NoKey /\ time =< keyRow[k].expiresAt
               /\ AuthenticatesAgent(k, s) => time < keyRow[k].expiresAt
    <3>1. PICK e \in CachedVersion :
            /\ time =< e.expiresAt /\ CarriesExpiry(k, e)
            /\ AuthenticatesAgent(k, s) => time < e.expiresAt
      BY <1>4, <2>1
    <3> QED BY <3>1 DEF CarriesExpiry
  <2> QED BY <2>1 DEF ExpiryRespected, Accepts
<1> QED BY <1>2, <1>5, <1>6, <1>7 DEF KeysBounded

(* A stopped key stops working: however many management requests, workers,   *)
(* validations and handshakes overlap and however often Redis loses a call,  *)
(* a revoked key is accepted, of an agent as of a request, for less than     *)
(* KEY_CACHE_TTL_SEC after its revocation, a rotated secret for less than    *)
(* ROTATION_GRACE_MS after its retirement, and no key after its hour         *)
(* (ApiKey entities, validateApiKey, loadKeyHash, ApiKeyCache).              *)
THEOREM KeysCorrect == KeysSpec => []KeysBounded
<1>1. KeysInit => KeysInv /\ ExpiryInv
  BY KeysInvInit, ExpiryInvInit
<1>2. KeysInv /\ ExpiryInv /\ [KeysNext]_keyVars => KeysInv' /\ ExpiryInv'
  BY KeysInvNext, ExpiryInvNext
<1>3. KeysInv /\ ExpiryInv => KeysBounded
  BY KeysInvBounds
<1> QED BY <1>1, <1>2, <1>3, PTL DEF KeysSpec
-----------------------------------------------------------------------------
(***************************************************************************)
(* Administrators: the inductive invariant.  A request works on what it    *)
(* has read; a row that exists keeps existing, so it may.                  *)
(***************************************************************************)

\* The actions a handler audits by a statement of its own.
HandlerActions == {"logout", "admin.updated", "admin.disabled", "admin.enabled",
                   "role.updated", "ability.deleted"}
ASession == [of : Admins, revoked : BOOLEAN, expiresAt : Int]
Exists(a) == admin[a] # "NONE"
Existing == {a \in Admins : admin[a] # "NONE"}
Granted == roleAbility \ (SystemRoles \X SystemAbilities)

\* An admin that is disabled has been so since t or later.
DisabledSince(a, t) == admin[a] = "DISABLED" => disabledAt[a] >= t

AdminShape ==
  /\ admin \in [Admins -> {"NONE", "ENABLED", "DISABLED"}]
  /\ role \subseteq Roles /\ ability \subseteq Abilities
  /\ userRole \subseteq Admins \X role /\ roleAbility \subseteq role \X ability
  /\ aSession \in [AdminSids -> ASession \cup {NoASession}]
  /\ aAuth \in [Admins -> [active : BOOLEAN, at : Int]]
  /\ aTick \in Nat /\ audit \in [Actions -> Nat] /\ disabledAt \in [Admins -> Int]
  /\ DOMAIN aJob = AdminJobs

SessionsExist ==
  \A s \in AdminSids : aSession[s] # NoASession => Exists(aSession[s].of)

SupersEnabled ==
  \A a \in Supers : admin[a] = "ENABLED" /\ (aAuth[a] = NoAAuth \/ aAuth[a].active)

CachedDated ==
  \A a \in Admins : aAuth[a].active =>
    DisabledSince(a, aAuth[a].at) /\ aAuth[a].at =< aTick /\ aTick < aAuth[a].at + AdminAuthTtl

GrantsFinite == IsFiniteSet(Existing) /\ IsFiniteSet(userRole) /\ IsFiniteSet(Granted)

\* What a request in progress has read.
LoginOk(w) == w.a \in Admins /\ Exists(w.a) /\ w.status = "ENABLED"
TokenOk(w) == w.s \in AdminSids /\ aSession[w.s] # NoASession
UpdateOk(w) ==
  /\ w.a \in Admins /\ Exists(w.a) /\ w.status \in {"ENABLED", "DISABLED"}
  /\ w.a \in Supers => w.status = "ENABLED"
DisableOk(w) == w.a \in Admins \ Supers /\ Exists(w.a)
EnableOk(w) == w.a \in Admins /\ Exists(w.a)
LoadedOk(w) ==
  /\ w.a \in Admins /\ w.active \in BOOLEAN
  /\ w.active => DisabledSince(w.a, aTick)
  /\ w.a \in Supers => w.active

WorkOk(w) ==
  /\ w.pc = "login" => LoginOk(w)
  /\ w.pc \in {"refresh", "logout"} => TokenOk(w)
  /\ w.pc \in {"reuse", "admin.created"} => w.a \in Admins
  /\ w.pc = "admin.updated" => UpdateOk(w)
  /\ w.pc = "admin.disabled" => DisableOk(w)
  /\ w.pc = "admin.enabled" => EnableOk(w)
  /\ w.pc = "invalidate" => w.a \in Admins
  /\ w.pc \in {"invalidate", "audit"} => w.action \in HandlerActions
  /\ w.pc = "role.created" => w.r \in Roles
  /\ w.pc = "role.assigned" => w.a \in Admins /\ w.r \in role
  /\ w.pc = "ability.created" => w.b \in Abilities
  /\ w.pc = "ability.assigned" => w.r \in role
  /\ w.pc = "cache" => LoadedOk(w)

AdminInv ==
  /\ AdminShape /\ SessionsExist /\ SupersEnabled /\ CachedDated
  /\ GrantsFinite /\ GrantsAudited
  /\ \A j \in AdminJobs : WorkOk(aJob[j])

\* What was read stays good while rows only come, and while a save of an
\* admin dates what it changes.
RowsStay ==
  /\ \A a \in Admins : Exists(a) => Exists(a)'
  /\ \A s \in AdminSids : aSession[s] # NoASession => aSession'[s] # NoASession
  /\ role \subseteq role'
  /\ \A a \in Admins, t \in Int : t =< aTick /\ DisabledSince(a, t) => DisabledSince(a, t)'

LEMMA WorkStays ==
  ASSUME AdminInv, RowsStay, aTick' = aTick, NEW w, WorkOk(w)
  PROVE  WorkOk(w)'
<1>1. aTick \in Int
  BY DEF AdminInv, AdminShape
<1>2. LoginOk(w) => LoginOk(w)'
  BY DEF RowsStay, LoginOk, Exists
<1>3. TokenOk(w) => TokenOk(w)'
  BY DEF RowsStay, TokenOk
<1>4. (UpdateOk(w) => UpdateOk(w)') /\ (DisableOk(w) => DisableOk(w)') /\ (EnableOk(w) => EnableOk(w)')
  BY DEF RowsStay, UpdateOk, DisableOk, EnableOk, Exists
<1>5. LoadedOk(w) => LoadedOk(w)'
  <2>1. ASSUME NEW t, t = aTick, LoadedOk(w), w.active PROVE DisabledSince(w.a, t)'
    BY <1>1, <2>1 DEF RowsStay, LoadedOk
  <2> QED BY <2>1 DEF LoadedOk, DisabledSince
<1>6. role \subseteq role'
  BY DEF RowsStay
<1> QED BY <1>2, <1>3, <1>4, <1>5, <1>6 DEF WorkOk

\* So a step that ends or moves one request leaves the others as they were.
LEMMA JobsStay ==
  ASSUME AdminInv, RowsStay, aTick' = aTick, NEW j \in AdminJobs, NEW w, WorkOk(w)',
         AStep(j, w)
  PROVE  DOMAIN aJob' = AdminJobs /\ \A i \in AdminJobs : WorkOk(aJob[i])'
<1>1. DOMAIN aJob = AdminJobs /\ aJob' = [aJob EXCEPT ![j] = w]
  BY DEF AdminInv, AdminShape, AStep
<1>2. ASSUME NEW i \in AdminJobs PROVE WorkOk(aJob[i])'
  <2>1. CASE i = j
    BY <1>1, <2>1
  <2>2. CASE i # j
    <3>1. PICK v : v = aJob[i] /\ v = aJob'[i] /\ WorkOk(v)
      BY <1>1, <2>2 DEF AdminInv
    <3>2. WorkOk(v)'
      BY <3>1, WorkStays
    <3> QED BY <3>1, <3>2
  <2> QED BY <2>1, <2>2
<1> QED BY <1>1, <1>2

\* A request that ends, or that only has its audit row to write.
LEMMA EndOk ==
  /\ WorkOk(IdleAdminJob)
  /\ \A x \in HandlerActions : WorkOk(AuditNext(x))
BY DEF WorkOk, IdleAdminJob, AuditNext

\* A step that changes no row but those of requests.
LEMMA AskKeeps ==
  ASSUME AdminInv, NEW j \in AdminJobs, NEW w, WorkOk(w), AStep(j, w),
         UNCHANGED adminRows, UNCHANGED <<aAuth, aTick, audit>>
  PROVE  AdminInv'
<1>0. UNCHANGED <<admin, role, ability, userRole, roleAbility, aSession, disabledAt, aAuth,
                  aTick, audit>>
  BY DEF adminRows
<1>1. RowsStay
  BY <1>0 DEF RowsStay, Exists, DisabledSince
<1>2. WorkOk(w)'
  BY <1>0, <1>1, WorkStays
<1>3. DOMAIN aJob' = AdminJobs /\ \A i \in AdminJobs : WorkOk(aJob[i])'
  BY <1>0, <1>1, <1>2, JobsStay
<1>4. AdminShape'
  BY <1>0, <1>3 DEF AdminInv, AdminShape
<1>5. SessionsExist' /\ SupersEnabled' /\ CachedDated'
  BY <1>0 DEF AdminInv, SessionsExist, SupersEnabled, CachedDated, Exists, DisabledSince
<1>6. GrantsFinite' /\ GrantsAudited'
  BY <1>0 DEF AdminInv, GrantsFinite, GrantsAudited, Existing, Granted
<1> QED BY <1>3, <1>4, <1>5, <1>6 DEF AdminInv

LEMMA AdminInvInit == AdminInit => AdminInv
<1> SUFFICES ASSUME AdminInit PROVE AdminInv
  OBVIOUS
<1>1. AdminShape
  BY AdminAssumption DEF AdminInit, AdminShape, seedAbilities, seedRoles, seedSuperAdmin, NoAAuth,
       Actions
<1>2. SessionsExist /\ SupersEnabled /\ CachedDated
  BY AdminAssumption DEF AdminInit, SessionsExist, SupersEnabled, CachedDated, seedSuperAdmin, NoAAuth
<1>3. Existing = Supers /\ userRole = {} /\ Granted = {}
  BY AdminAssumption DEF AdminInit, Existing, Granted, seedSuperAdmin, seedRoles
<1>4. GrantsFinite
  BY <1>3, AdminAssumption, FS_EmptySet DEF GrantsFinite
<1>5. Cardinality(Supers) \in Nat /\ Cardinality({}) = 0
  BY AdminAssumption, FS_CardinalityType, FS_EmptySet
<1>6. GrantsAudited
  <2>1. audit["admin.created"] = 0 /\ audit["role.revoked"] = 0 /\ audit["role.assigned"] = 0
        /\ audit["ability.assigned"] = 0
    BY DEF AdminInit, Actions
  <2>2. Cardinality(Existing) = Cardinality(Supers) /\ Cardinality(userRole) = 0
        /\ Cardinality(Granted) = 0
    BY <1>3, <1>5
  <2> QED BY <1>5, <2>1, <2>2 DEF GrantsAudited, Existing, Granted
<1>7. \A j \in AdminJobs : WorkOk(aJob[j])
  BY EndOk DEF AdminInit
<1> QED BY <1>1, <1>2, <1>4, <1>6, <1>7 DEF AdminInv

(***************************************************************************)
(* Requests that pass their guard and read.                                *)
(***************************************************************************)
LEMMA SessionAsksKeep ==
  ASSUME AdminInv, NEW j \in AdminJobs,
         \/ \E a \in Admins : AdminLoginReads(j, a) \/ AdminStateLoads(j, a)
         \/ \E s \in AdminSids : AdminRefreshReads(j, s)
         \/ AdminRequestFails(j)
  PROVE  AdminInv'
<1>1. ASSUME NEW a \in Admins, AdminLoginReads(j, a) PROVE AdminInv'
  <2>1. PICK w : w = [pc |-> "login", a |-> a, status |-> admin[a]]
    OBVIOUS
  <2>2. WorkOk(w)
    BY <1>1, <2>1 DEF AdminLoginReads, ensureCanLoginA, WorkOk, LoginOk, Exists
  <2> QED BY <1>1, <2>1, <2>2, AskKeeps DEF AdminLoginReads
<1>2. ASSUME NEW a \in Admins, AdminStateLoads(j, a) PROVE AdminInv'
  <2>1. PICK w : w = [pc |-> "cache", a |-> a, active |-> loadAdmin(a)]
    OBVIOUS
  <2>2. LoadedOk(w)
    BY <2>1, Zenon DEF LoadedOk, loadAdmin, DisabledSince, AdminInv, SupersEnabled
  <2>3. WorkOk(w)
    BY <2>1, <2>2 DEF WorkOk
  <2> QED BY <1>2, <2>1, <2>3, AskKeeps DEF AdminStateLoads
<1>3. ASSUME NEW s \in AdminSids, AdminRefreshReads(j, s) PROVE AdminInv'
  <2>1. aSession[s] # NoASession /\ aSession[s] \in ASession
    BY <1>3 DEF AdminRefreshReads, AdminInv, AdminShape
  <2>2. CASE aSession[s].revoked
    <3>1. PICK w : w = [pc |-> "reuse", a |-> aSession[s].of]
      OBVIOUS
    <3>2. WorkOk(w)
      BY <2>1, <3>1 DEF WorkOk, ASession
    <3>3. AStep(j, w)
      BY <1>3, <2>2, <3>1 DEF AdminRefreshReads
    <3> QED BY <1>3, <3>2, <3>3, AskKeeps DEF AdminRefreshReads
  <2>3. CASE ~aSession[s].revoked
    <3>1. PICK w : w = [pc |-> "refresh", s |-> s]
      OBVIOUS
    <3>2. WorkOk(w)
      BY <2>1, <3>1 DEF WorkOk, TokenOk
    <3>3. AStep(j, w)
      BY <1>3, <2>3, <3>1 DEF AdminRefreshReads
    <3> QED BY <1>3, <3>2, <3>3, AskKeeps DEF AdminRefreshReads
  <2> QED BY <2>2, <2>3
<1>4. CASE AdminRequestFails(j)
  BY <1>4, EndOk, AskKeeps DEF AdminRequestFails
<1> QED BY <1>1, <1>2, <1>3, <1>4

LEMMA LogoutAskKeeps ==
  ASSUME AdminInv, NEW j \in AdminJobs, NEW a \in Admins, NEW s \in AdminSids,
         aSession[s].of = a, AStep(j, [pc |-> "logout", s |-> s]),
         UNCHANGED adminRows, UNCHANGED <<aAuth, aTick, audit>>
  PROVE  AdminInv'
<1>1. aSession[s] # NoASession
  BY AdminAssumption DEF NoASession
<1>2. WorkOk([pc |-> "logout", s |-> s])
  BY <1>1 DEF WorkOk, TokenOk
<1> QED BY <1>2, AskKeeps

LEMMA GuardedKeeps ==
  ASSUME AdminInv, NEW j \in AdminJobs, NEW a, NEW b, NEW w, WorkOk(w), Guarded(j, a, b, w)
  PROVE  AdminInv'
BY AskKeeps DEF Guarded

LEMMA AdminAsksKeep ==
  ASSUME AdminInv, NEW j \in AdminJobs, NEW a \in Admins,
         \/ \E n \in Admins : Guarded(j, a, "admin.create", [pc |-> "admin.created", a |-> n])
         \/ \E t \in Admins :
              \/ admin[t] # "NONE" /\ Guarded(j, a, "admin.update",
                     [pc |-> "admin.updated", a |-> t, status |-> admin[t]])
              \/ admin[t] # "NONE" /\ canDisable(t)
                   /\ Guarded(j, a, "admin.disable", [pc |-> "admin.disabled", a |-> t])
              \/ admin[t] # "NONE" /\ Guarded(j, a, "admin.enable", [pc |-> "admin.enabled", a |-> t])
  PROVE  AdminInv'
<1>1. \A n \in Admins : WorkOk([pc |-> "admin.created", a |-> n])
  BY DEF WorkOk
<1>2. ASSUME NEW t \in Admins, admin[t] # "NONE"
      PROVE  /\ WorkOk([pc |-> "admin.updated", a |-> t, status |-> admin[t]])
             /\ WorkOk([pc |-> "admin.enabled", a |-> t])
             /\ canDisable(t) => WorkOk([pc |-> "admin.disabled", a |-> t])
  <2>1. admin[t] \in {"ENABLED", "DISABLED"} /\ (t \in Supers => admin[t] = "ENABLED")
    BY <1>2 DEF AdminInv, AdminShape, SupersEnabled
  <2> QED BY <1>2, <2>1 DEF WorkOk, UpdateOk, EnableOk, DisableOk, Exists, canDisable, isSuperAdmin
<1> QED BY <1>1, <1>2, GuardedKeeps

LEMMA RoleAsksKeep ==
  ASSUME AdminInv, NEW j \in AdminJobs,
         \/ postRoles(j) \/ postUserRole(j) \/ deleteUserRole(j)
         \/ postAbilities(j) \/ postRoleAbility(j) \/ deleteRoleAbility(j) \/ putRole(j)
         \/ \E a \in Admins, b \in ability :
              Guarded(j, a, "ability.delete", [pc |-> "ability.deleted", b |-> b])
  PROVE  AdminInv'
<1>1. /\ \A r \in Roles : WorkOk([pc |-> "role.created", r |-> r])
      /\ \A a \in Admins, r \in role : WorkOk([pc |-> "role.assigned", a |-> a, r |-> r])
      /\ \A a \in Admins, r \in role : WorkOk([pc |-> "role.revoked", a |-> a, r |-> r])
      /\ \A b \in Abilities : WorkOk([pc |-> "ability.created", b |-> b])
      /\ \A r \in role, b \in ability : WorkOk([pc |-> "ability.assigned", r |-> r, b |-> b])
      /\ \A r \in role, b \in ability : WorkOk([pc |-> "ability.revoked", r |-> r, b |-> b])
      /\ \A b \in ability : WorkOk([pc |-> "ability.deleted", b |-> b])
      /\ WorkOk([pc |-> "role.updated"])
  BY DEF WorkOk
<1>2. CASE postRoles(j)
  BY <1>1, <1>2, GuardedKeeps DEF postRoles
<1>3. CASE postUserRole(j)
  BY <1>1, <1>3, GuardedKeeps DEF postUserRole
<1>4. CASE deleteUserRole(j)
  BY <1>1, <1>4, GuardedKeeps DEF deleteUserRole
<1>5. CASE postAbilities(j)
  BY <1>1, <1>5, GuardedKeeps DEF postAbilities
<1>6. CASE postRoleAbility(j)
  BY <1>1, <1>6, GuardedKeeps DEF postRoleAbility
<1>7. CASE deleteRoleAbility(j)
  BY <1>1, <1>7, GuardedKeeps DEF deleteRoleAbility
<1>8. CASE putRole(j)
  <2>1. CASE \E a \in Admins, r \in role : Guarded(j, a, "role.update", [pc |-> "role.updated"])
    BY <1>1, <2>1, GuardedKeeps
  <2>2. CASE HandlerWrites(j, "role.updated", AuditNext("role.updated")) /\ UNCHANGED adminRows
    <3>1. WorkOk(AuditNext("role.updated"))
      BY EndOk DEF HandlerActions
    <3> QED BY <2>2, <3>1, AskKeeps DEF HandlerWrites
  <2> QED BY <1>8, <2>1, <2>2 DEF putRole
<1>9. CASE \E a \in Admins, b \in ability :
             Guarded(j, a, "ability.delete", [pc |-> "ability.deleted", b |-> b])
  BY <1>1, <1>9, GuardedKeeps
<1> QED BY <1>2, <1>3, <1>4, <1>5, <1>6, <1>7, <1>8, <1>9

(***************************************************************************)
(* Writes.                                                                 *)
(***************************************************************************)
\* What the cache and the sessions need of a write that leaves them alone.
LEMMA AuthStays ==
  ASSUME AdminInv, RowsStay, UNCHANGED <<aAuth, aTick>>,
         \A a \in Supers : admin'[a] = "ENABLED"
  PROVE  SupersEnabled' /\ CachedDated'
<1>1. SupersEnabled'
  BY DEF AdminInv, SupersEnabled
<1>2. ASSUME NEW a \in Admins, aAuth[a].active PROVE DisabledSince(a, aAuth[a].at)'
  <2>1. PICK t \in Int : t = aAuth[a].at /\ t =< aTick /\ DisabledSince(a, t)
    BY <1>2 DEF AdminInv, AdminShape, CachedDated
  <2>2. DisabledSince(a, t)'
    BY <2>1 DEF RowsStay
  <2> QED BY <2>1, <2>2
<1> QED BY <1>1, <1>2 DEF AdminInv, CachedDated

LEMMA SessionsStay ==
  ASSUME AdminInv, RowsStay,
         \A s \in AdminSids : aSession'[s] # NoASession =>
           aSession'[s].of \in Admins /\ Exists(aSession'[s].of)
  PROVE  SessionsExist'
BY DEF RowsStay, SessionsExist, Exists

\* An audit row of an action that is no grant and no removal.
LEMMA AuditSaved ==
  ASSUME AdminInv, NEW x \in Actions, saveAudit(x)
  PROVE  /\ audit' \in [Actions -> Nat]
         /\ \A y \in Actions : audit'[y] = IF y = x THEN audit[y] + 1 ELSE audit[y]
BY DEF AdminInv, AdminShape, saveAudit

LEMMA GrantsKept ==
  ASSUME AdminInv, Existing' = Existing, userRole' = userRole, Granted' \subseteq Granted,
         audit' \in [Actions -> Nat],
         audit'["admin.created"] = audit["admin.created"],
         audit'["role.revoked"] = audit["role.revoked"],
         audit["role.assigned"] =< audit'["role.assigned"],
         audit["ability.assigned"] =< audit'["ability.assigned"]
  PROVE  GrantsFinite' /\ GrantsAudited'
<1>1. /\ IsFiniteSet(Existing) /\ IsFiniteSet(userRole) /\ IsFiniteSet(Granted)
      /\ Cardinality(Existing) = Cardinality(Supers) + audit["admin.created"]
      /\ Cardinality(userRole) + audit["role.revoked"] =< audit["role.assigned"]
      /\ Cardinality(Granted) =< audit["ability.assigned"]
  BY DEF AdminInv, GrantsFinite, GrantsAudited, Existing, Granted
<1>2. IsFiniteSet(Granted') /\ Cardinality(Granted') =< Cardinality(Granted)
  BY <1>1, FS_Subset
<1>3. Cardinality(userRole) \in Nat /\ Cardinality(Granted) \in Nat /\ Cardinality(Granted') \in Nat
  BY <1>1, <1>2, FS_CardinalityType
<1>4. /\ audit["role.assigned"] \in Nat /\ audit'["role.assigned"] \in Nat
      /\ audit["ability.assigned"] \in Nat /\ audit'["ability.assigned"] \in Nat
      /\ audit["role.revoked"] \in Nat
  BY DEF AdminInv, AdminShape, Actions
<1>5. GrantsFinite'
  BY <1>1, <1>2 DEF GrantsFinite
<1>6. /\ Cardinality(Existing') = Cardinality(Supers) + audit'["admin.created"]
      /\ Cardinality(userRole') + audit'["role.revoked"] =< audit'["role.assigned"]
      /\ Cardinality(Granted') =< audit'["ability.assigned"]
  BY <1>1, <1>2, <1>3, <1>4
<1> QED BY <1>5, <1>6 DEF GrantsAudited, Existing, Granted

\* save(admin): a row that exists, with the status that was read.
LEMMA AdminSaved ==
  ASSUME AdminInv, NEW a \in Admins, NEW st \in {"ENABLED", "DISABLED"}, saveAdmin(a, st),
         a \in Supers => st = "ENABLED"
  PROVE  /\ admin' \in [Admins -> {"NONE", "ENABLED", "DISABLED"}]
         /\ disabledAt' \in [Admins -> Int]
         /\ \A b \in Supers : admin'[b] = "ENABLED"
         /\ Existing' = Existing \cup {a}
         /\ \A b \in Admins : Exists(b) => Exists(b)'
         /\ Exists(a)'
         /\ \A b \in Admins, t \in Int : t =< aTick /\ DisabledSince(b, t) => DisabledSince(b, t)'
<1>1. /\ admin \in [Admins -> {"NONE", "ENABLED", "DISABLED"}] /\ disabledAt \in [Admins -> Int]
      /\ aTick \in Int /\ admin' = [admin EXCEPT ![a] = st]
      /\ \A b \in Supers : b \in Admins /\ admin[b] = "ENABLED"
  BY AdminAssumption DEF AdminInv, AdminShape, SupersEnabled, saveAdmin
<1>2. /\ disabledAt' \in [Admins -> Int]
      /\ \A b \in Admins : b # a => disabledAt'[b] = disabledAt[b]
      /\ st = "DISABLED" => \/ disabledAt'[a] = aTick
                            \/ admin[a] = "DISABLED" /\ disabledAt'[a] = disabledAt[a]
  <2>1. CASE st = "DISABLED" /\ admin[a] # st
    <3>1. disabledAt' = [disabledAt EXCEPT ![a] = aTick]
      BY <2>1 DEF saveAdmin
    <3> QED BY <1>1, <3>1
  <2>2. CASE ~(st = "DISABLED" /\ admin[a] # st)
    <3>1. disabledAt' = disabledAt
      BY <2>2 DEF saveAdmin
    <3> QED BY <1>1, <2>2, <3>1
  <2> QED BY <2>1, <2>2
<1>3. ASSUME NEW b \in Admins, NEW t \in Int, t =< aTick, DisabledSince(b, t)
      PROVE  DisabledSince(b, t)'
  BY <1>1, <1>2, <1>3 DEF DisabledSince
<1> QED BY <1>1, <1>2, <1>3 DEF Exists, Existing

LEMMA SaveAdminKeeps ==
  ASSUME AdminInv, NEW j \in AdminJobs, NEW w, WorkOk(w), AStep(j, w),
         NEW a \in Admins, Exists(a), NEW st \in {"ENABLED", "DISABLED"}, saveAdmin(a, st),
         a \in Supers => st = "ENABLED",
         UNCHANGED <<role, ability, userRole, roleAbility, aSession, aAuth, aTick, audit>>
  PROVE  AdminInv'
<1>1. RowsStay
  BY AdminSaved DEF RowsStay
<1>2. WorkOk(w)'
  BY <1>1, WorkStays
<1>3. DOMAIN aJob' = AdminJobs /\ \A i \in AdminJobs : WorkOk(aJob[i])'
  BY <1>1, <1>2, JobsStay
<1>4. AdminShape'
  BY <1>3, AdminSaved DEF AdminInv, AdminShape
<1>5. SupersEnabled' /\ CachedDated'
  BY <1>1, AdminSaved, AuthStays
<1>6. SessionsExist'
  <2>1. \A s \in AdminSids : aSession[s] # NoASession =>
           aSession[s].of \in Admins /\ Exists(aSession[s].of)
    BY DEF AdminInv, AdminShape, SessionsExist, ASession
  <2> QED BY <1>1, <2>1, SessionsStay
<1>7. Existing' = Existing
  BY AdminSaved DEF Existing, Exists
<1>8. audit \in [Actions -> Nat] /\ "role.assigned" \in Actions /\ "ability.assigned" \in Actions
  BY DEF AdminInv, AdminShape, Actions
<1>9. /\ Granted' \subseteq Granted /\ audit["role.assigned"] \in Nat
      /\ audit["ability.assigned"] \in Nat
  BY <1>8 DEF Granted
<1>10. GrantsFinite' /\ GrantsAudited'
  BY <1>7, <1>8, <1>9, GrantsKept
<1> QED BY <1>3, <1>4, <1>5, <1>6, <1>10 DEF AdminInv

\* PUT /users/:id, /disable and /enable write back what they read.
LEMMA AdminWritesKeep ==
  ASSUME AdminInv, NEW j \in AdminJobs, putUser(j) \/ postDisable(j) \/ postEnable(j)
  PROVE  AdminInv'
<1>0. WorkOk(aJob[j])
  BY DEF AdminInv
<1>1. CASE putUser(j)
  <2>1. CASE /\ HandlerWrites(j, "admin.updated", AuditNext("admin.updated"))
             /\ saveAdmin(aJob[j].a, aJob[j].status)
             /\ UNCHANGED <<role, ability, userRole, roleAbility, aSession>>
    <3>1. UpdateOk(aJob[j])
      BY <1>0, <2>1 DEF WorkOk, HandlerWrites
    <3>2. WorkOk(AuditNext("admin.updated"))
      BY EndOk DEF HandlerActions
    <3> QED BY <2>1, <3>1, <3>2, SaveAdminKeeps DEF UpdateOk, HandlerWrites
  <2> QED BY <1>1, <2>1, AdminAsksKeep DEF putUser
<1>2. CASE postDisable(j)
  <2>1. CASE /\ HandlerWrites(j, "admin.disabled",
                  [pc |-> "invalidate", a |-> aJob[j].a, action |-> "admin.disabled"])
             /\ saveAdmin(aJob[j].a, "DISABLED")
             /\ UNCHANGED <<role, ability, userRole, roleAbility, aSession>>
    <3>1. DisableOk(aJob[j])
      BY <1>0, <2>1 DEF WorkOk, HandlerWrites
    <3>2. WorkOk([pc |-> "invalidate", a |-> aJob[j].a, action |-> "admin.disabled"])
      BY <3>1 DEF WorkOk, HandlerActions, DisableOk
    <3> QED BY <2>1, <3>1, <3>2, SaveAdminKeeps DEF DisableOk, HandlerWrites
  <2> QED BY <1>2, <2>1, AdminAsksKeep DEF postDisable
<1>3. CASE postEnable(j)
  <2>1. CASE /\ HandlerWrites(j, "admin.enabled",
                  [pc |-> "invalidate", a |-> aJob[j].a, action |-> "admin.enabled"])
             /\ saveAdmin(aJob[j].a, "ENABLED")
             /\ UNCHANGED <<role, ability, userRole, roleAbility, aSession>>
    <3>1. EnableOk(aJob[j])
      BY <1>0, <2>1 DEF WorkOk, HandlerWrites
    <3>2. WorkOk([pc |-> "invalidate", a |-> aJob[j].a, action |-> "admin.enabled"])
      BY <3>1 DEF WorkOk, HandlerActions, EnableOk
    <3> QED BY <2>1, <3>1, <3>2, SaveAdminKeeps DEF EnableOk, HandlerWrites
  <2> QED BY <1>3, <2>1, AdminAsksKeep DEF postEnable
<1> QED BY <1>1, <1>2, <1>3

\* POST /users: the new row and its audit row are one transaction.
LEMMA CreateAdminKeeps ==
  ASSUME AdminInv, NEW j \in AdminJobs, CreateAdmin(j)
  PROVE  AdminInv'
<1>0. PICK a \in Admins : a = aJob[j].a
  BY DEF AdminInv, WorkOk, CreateAdmin, Transaction
<1>1. /\ admin[a] = "NONE" /\ saveAdmin(a, "ENABLED") /\ AStep(j, IdleAdminJob)
      /\ saveAudit("admin.created")
      /\ UNCHANGED <<role, ability, userRole, roleAbility, aSession, aAuth, aTick>>
  BY <1>0 DEF CreateAdmin, Transaction
<1>2. RowsStay
  BY <1>1, AdminSaved DEF RowsStay
<1>3. DOMAIN aJob' = AdminJobs /\ \A i \in AdminJobs : WorkOk(aJob[i])'
  <2>1. WorkOk(IdleAdminJob)'
    BY DEF WorkOk, IdleAdminJob
  <2> QED BY <1>1, <1>2, <2>1, JobsStay
<1>4. /\ audit' \in [Actions -> Nat]
      /\ \A y \in Actions : audit'[y] = IF y = "admin.created" THEN audit[y] + 1 ELSE audit[y]
  BY <1>1, AuditSaved DEF Actions
<1>5. AdminShape'
  BY <1>1, <1>3, <1>4, AdminSaved DEF AdminInv, AdminShape
<1>6. SupersEnabled' /\ CachedDated'
  BY <1>1, <1>2, AdminSaved, AuthStays
<1>7. SessionsExist'
  <2>1. \A s \in AdminSids : aSession[s] # NoASession =>
           aSession[s].of \in Admins /\ Exists(aSession[s].of)
    BY DEF AdminInv, AdminShape, SessionsExist, ASession
  <2> QED BY <1>1, <1>2, <2>1, SessionsStay
<1>8. GrantsFinite' /\ GrantsAudited'
  <2>1. /\ IsFiniteSet(Existing) /\ IsFiniteSet(userRole) /\ IsFiniteSet(Granted)
        /\ Cardinality(Existing) = Cardinality(Supers) + audit["admin.created"]
        /\ Cardinality(userRole) + audit["role.revoked"] =< audit["role.assigned"]
        /\ Cardinality(Granted) =< audit["ability.assigned"]
    BY DEF AdminInv, GrantsFinite, GrantsAudited, Existing, Granted
  <2>2. Existing' = Existing \cup {a} /\ a \notin Existing
    BY <1>1, AdminSaved DEF Existing
  <2>3. IsFiniteSet(Existing') /\ Cardinality(Existing') = Cardinality(Existing) + 1
    BY <2>1, <2>2, FS_AddElement
  <2>4. Granted' = Granted
    BY <1>1 DEF Granted
  <2>5. /\ audit'["admin.created"] = audit["admin.created"] + 1
        /\ audit'["role.revoked"] = audit["role.revoked"]
        /\ audit'["role.assigned"] = audit["role.assigned"]
        /\ audit'["ability.assigned"] = audit["ability.assigned"]
        /\ audit["admin.created"] \in Nat
    BY <1>4 DEF Actions, AdminInv, AdminShape
  <2>6. GrantsFinite'
    BY <1>1, <2>1, <2>3, <2>4 DEF GrantsFinite
  <2>7. Cardinality(Supers) \in Nat
    BY AdminAssumption, FS_CardinalityType
  <2>8. Cardinality(Existing') = Cardinality(Supers) + audit'["admin.created"]
    BY <2>1, <2>3, <2>5, <2>7
  <2> QED BY <1>1, <2>1, <2>4, <2>5, <2>6, <2>8 DEF GrantsAudited, Existing, Granted
<1> QED BY <1>3, <1>5, <1>6, <1>7, <1>8 DEF AdminInv

\* The sessions' routes: rows of sessions come, and are only marked revoked.
LEMMA SessionWriteKeeps ==
  ASSUME AdminInv, NEW j \in AdminJobs, NEW w, WorkOk(w), AStep(j, w),
         UNCHANGED <<role, ability, userRole, roleAbility, aAuth, aTick>>,
         \/ UNCHANGED <<admin, disabledAt>>
         \/ \E a \in Admins : Exists(a) /\ saveAdmin(a, "ENABLED"),
         aSession' \in [AdminSids -> ASession \cup {NoASession}],
         \A s \in AdminSids : aSession[s] # NoASession => aSession'[s] # NoASession,
         \A s \in AdminSids : aSession'[s] # NoASession => Exists(aSession'[s].of),
         \/ UNCHANGED audit \/ saveAudit("login") \/ saveAudit("refresh")
  PROVE  AdminInv'
<1>0. /\ admin' \in [Admins -> {"NONE", "ENABLED", "DISABLED"}]
      /\ disabledAt' \in [Admins -> Int]
      /\ \A b \in Supers : admin'[b] = "ENABLED"
      /\ Existing' = Existing
      /\ \A b \in Admins : Exists(b) => Exists(b)'
      /\ \A b \in Admins, t \in Int : t =< aTick /\ DisabledSince(b, t) => DisabledSince(b, t)'
  <2>1. CASE UNCHANGED <<admin, disabledAt>>
    BY <2>1 DEF AdminInv, AdminShape, SupersEnabled, Existing, Exists, DisabledSince
  <2>2. ASSUME NEW a \in Admins, Exists(a), saveAdmin(a, "ENABLED")
        PROVE  <1>0!:
    <3>1. Existing \cup {a} = Existing
      BY <2>2 DEF Existing, Exists
    <3> QED BY <2>2, <3>1, AdminSaved
  <2> QED BY <2>1, <2>2
<1>1. RowsStay
  BY <1>0 DEF RowsStay
<1>2. WorkOk(w)'
  BY <1>1, WorkStays
<1>3. DOMAIN aJob' = AdminJobs /\ \A i \in AdminJobs : WorkOk(aJob[i])'
  BY <1>1, <1>2, JobsStay
<1>4. /\ audit' \in [Actions -> Nat]
      /\ \A y \in {"admin.created", "role.revoked", "role.assigned", "ability.assigned"} :
           audit'[y] = audit[y] /\ audit[y] \in Nat
  <2>1. audit \in [Actions -> Nat] /\ "login" \in Actions /\ "refresh" \in Actions
        /\ {"admin.created", "role.revoked", "role.assigned", "ability.assigned"} \subseteq Actions
    BY DEF AdminInv, AdminShape, Actions
  <2> QED BY <2>1, AuditSaved
<1>5. AdminShape'
  BY <1>0, <1>3, <1>4 DEF AdminInv, AdminShape
<1>6. SupersEnabled' /\ CachedDated'
  BY <1>0, <1>1, AuthStays
<1>7. SessionsExist'
  <2>1. \A s \in AdminSids : aSession'[s] # NoASession => aSession'[s].of \in Admins
    BY DEF ASession
  <2> QED BY <1>1, <2>1, SessionsStay
<1>8. Granted' \subseteq Granted
  BY DEF Granted
<1>9. GrantsFinite' /\ GrantsAudited'
  BY <1>0, <1>4, <1>8, GrantsKept
<1> QED BY <1>3, <1>5, <1>6, <1>7, <1>9 DEF AdminInv

LEMMA SessionRoutesKeep ==
  ASSUME AdminInv, NEW j \in AdminJobs,
         \/ \E s \in AdminSids : AdminLogin(j, s) \/ AdminRefreshToken(j, s)
         \/ AdminReuse(j) \/ postLogout(j)
  PROVE  AdminInv'
<1>0. /\ aSession \in [AdminSids -> ASession \cup {NoASession}] /\ aTick \in Nat
      /\ \A s \in AdminSids : aSession[s] # NoASession => Exists(aSession[s].of)
      /\ AdminTtl \in Nat /\ WorkOk(aJob[j])
  BY AdminAssumption DEF AdminInv, AdminShape, SessionsExist
<1>1. NoASession.of \notin Admins
  BY AdminAssumption DEF NoASession
<1>2. \A a \in Admins : /\ AdminSession_create(a) \in ASession /\ AdminSession_create(a) # NoASession
                        /\ AdminSession_create(a).of = a
  BY <1>0, <1>1 DEF AdminSession_create, ASession
<1>3. \A e \in ASession : e # NoASession /\ e.of \in Admins
  BY <1>1 DEF ASession
<1>4. \A e \in ASession : [e EXCEPT !.revoked = TRUE] \in ASession
                         /\ [e EXCEPT !.revoked = TRUE].of = e.of
  BY DEF ASession
<1>5. ASSUME NEW s \in AdminSids, AdminLogin(j, s) PROVE AdminInv'
  <2>1. PICK a \in Admins : a = aJob[j].a /\ Exists(a) /\ aJob[j].status = "ENABLED"
    BY <1>0, <1>5 DEF AdminLogin, Transaction, WorkOk, LoginOk
  <2>2. /\ AStep(j, IdleAdminJob) /\ saveAudit("login") /\ saveAdmin(a, "ENABLED")
        /\ UNCHANGED <<role, ability, userRole, roleAbility, aAuth, aTick>>
        /\ aSession[s] = NoASession
        /\ aSession' = [aSession EXCEPT ![s] = AdminSession_create(a)]
    BY <1>5, <2>1 DEF AdminLogin, Transaction
  <2>3. /\ aSession' \in [AdminSids -> ASession \cup {NoASession}]
        /\ \A k \in AdminSids : aSession[k] # NoASession => aSession'[k] # NoASession
        /\ \A k \in AdminSids : aSession'[k] # NoASession => Exists(aSession'[k].of)
    BY <1>0, <1>2, <2>1, <2>2
  <2> QED BY <2>1, <2>2, <2>3, EndOk, SessionWriteKeeps
<1>6. ASSUME NEW n \in AdminSids, AdminRefreshToken(j, n) PROVE AdminInv'
  <2>1. PICK s \in AdminSids : s = aJob[j].s /\ aSession[s] # NoASession
    BY <1>0, <1>6 DEF AdminRefreshToken, Transaction, WorkOk, TokenOk
  <2>2. /\ AStep(j, IdleAdminJob) /\ saveAudit("refresh")
        /\ UNCHANGED <<admin, role, ability, userRole, roleAbility, disabledAt, aAuth, aTick>>
        /\ aSession[n] = NoASession
        /\ aSession' = [aSession EXCEPT ![s].revoked = TRUE,
                                        ![n] = AdminSession_create(aSession[s].of)]
    BY <1>6, <2>1 DEF AdminRefreshToken, Transaction
  <2>3. aSession[s] \in ASession /\ aSession[s].of \in Admins /\ s # n
    BY <1>0, <1>3, <2>1, <2>2
  <2>4. /\ aSession'[n] = AdminSession_create(aSession[s].of)
        /\ aSession'[s] = [aSession[s] EXCEPT !.revoked = TRUE]
        /\ \A k \in AdminSids \ {s, n} : aSession'[k] = aSession[k]
        /\ DOMAIN aSession' = AdminSids
    BY <1>0, <2>2, <2>3
  <2>5. aSession'[s] \in ASession /\ aSession'[s].of = aSession[s].of
    BY <1>4, <2>3, <2>4
  <2>6. aSession'[n] \in ASession /\ aSession'[n].of = aSession[s].of
    BY <1>2, <2>3, <2>4
  <2>7. \A k \in AdminSids :
          /\ aSession'[k] \in ASession \cup {NoASession}
          /\ aSession[k] # NoASession => aSession'[k] # NoASession
          /\ aSession'[k] # NoASession => Exists(aSession'[k].of)
    BY <1>0, <1>3, <2>1, <2>4, <2>5, <2>6
  <2>8. aSession' \in [AdminSids -> ASession \cup {NoASession}]
    <3>1. aSession' = [k \in AdminSids |-> aSession'[k]]
      BY <1>0, <2>2
    <3> QED BY <2>7, <3>1
  <2> QED BY <2>2, <2>7, <2>8, EndOk, SessionWriteKeeps
<1>7. CASE AdminReuse(j)
  <2>1. PICK a \in Admins : a = aJob[j].a
    BY <1>0, <1>7 DEF AdminReuse, HandlerWrites, WorkOk
  <2>2. /\ AStep(j, IdleAdminJob) /\ UNCHANGED audit
        /\ UNCHANGED <<admin, role, ability, userRole, roleAbility, disabledAt, aAuth, aTick>>
        /\ aSession' = revokeAllByAdminId(a)
    BY <1>7, <2>1 DEF AdminReuse, HandlerWrites
  <2>3. ASSUME NEW k \in AdminSids
        PROVE  /\ aSession'[k] \in ASession \cup {NoASession}
               /\ aSession[k] # NoASession => aSession'[k] # NoASession
               /\ aSession'[k] # NoASession => Exists(aSession'[k].of)
    <3>1. CASE aSession[k] = NoASession
      BY <1>1, <2>2, <3>1 DEF revokeAllByAdminId
    <3>2. CASE aSession[k] # NoASession
      <4>1. aSession[k] \in ASession /\ Exists(aSession[k].of)
        BY <1>0, <3>2
      <4>2. \/ aSession'[k] = aSession[k]
            \/ aSession'[k] = [aSession[k] EXCEPT !.revoked = TRUE]
        BY <2>2 DEF revokeAllByAdminId
      <4> QED BY <1>3, <1>4, <4>1, <4>2
    <3> QED BY <3>1, <3>2
  <2>4. aSession' \in [AdminSids -> ASession \cup {NoASession}]
    <3>1. aSession' = [k \in AdminSids |-> aSession'[k]]
      BY <2>2 DEF revokeAllByAdminId
    <3> QED BY <2>3, <3>1
  <2> QED BY <2>2, <2>3, <2>4, EndOk, SessionWriteKeeps
<1>8. CASE postLogout(j)
  <2>1. CASE /\ HandlerWrites(j, "logout", AuditNext("logout"))
             /\ aSession' = [aSession EXCEPT ![aJob[j].s].revoked = TRUE]
             /\ UNCHANGED <<admin, role, ability, userRole, roleAbility, disabledAt>>
    <3>1. PICK s \in AdminSids : s = aJob[j].s /\ aSession[s] # NoASession
      BY <1>0, <2>1 DEF HandlerWrites, WorkOk, TokenOk
    <3>2. aSession[s] \in ASession /\ aSession'[s] = [aSession[s] EXCEPT !.revoked = TRUE]
          /\ \A k \in AdminSids \ {s} : aSession'[k] = aSession[k]
      BY <1>0, <2>1, <3>1
    <3>3. aSession'[s] \in ASession /\ aSession'[s].of = aSession[s].of
      BY <1>4, <3>2
    <3>4. \A k \in AdminSids :
            /\ aSession'[k] \in ASession \cup {NoASession}
            /\ aSession[k] # NoASession => aSession'[k] # NoASession
            /\ aSession'[k] # NoASession => Exists(aSession'[k].of)
      BY <1>0, <1>3, <3>1, <3>2, <3>3
    <3>5. aSession' \in [AdminSids -> ASession \cup {NoASession}]
      <4>1. aSession' = [k \in AdminSids |-> aSession'[k]]
        BY <1>0, <2>1
      <4> QED BY <3>4, <4>1
    <3>6. WorkOk(AuditNext("logout"))
      BY EndOk DEF HandlerActions
    <3> QED BY <2>1, <3>4, <3>5, <3>6, SessionWriteKeeps DEF HandlerWrites
  <2>2. CASE \E a \in Admins, s \in AdminSids :
               /\ aSession[s].of = a
               /\ AStep(j, [pc |-> "logout", s |-> s])
               /\ UNCHANGED adminRows /\ UNCHANGED <<aAuth, aTick, audit>>
    BY <2>2, LogoutAskKeeps
  <2> QED BY <1>8, <2>1, <2>2 DEF postLogout
<1> QED BY <1>5, <1>6, <1>7, <1>8

\* The cached state: dropped, or stored with what was loaded.
LEMMA CacheRoutesKeep ==
  ASSUME AdminInv, NEW j \in AdminJobs, InvalidateAdmin(j) \/ AdminStateStores(j)
  PROVE  AdminInv'
<1>0. UNCHANGED <<admin, role, ability, userRole, roleAbility, aSession, disabledAt, aTick, audit>>
      /\ WorkOk(aJob[j]) /\ aTick \in Nat /\ AdminAuthTtl \in Nat \ {0}
      /\ aAuth \in [Admins -> [active : BOOLEAN, at : Int]]
  BY AdminAssumption DEF InvalidateAdmin, AdminStateStores, adminRows, AdminInv, AdminShape
<1>1. RowsStay
  BY <1>0 DEF RowsStay, Exists, DisabledSince
<1>2. PICK a \in Admins, e \in [active : BOOLEAN, at : Int] :
        /\ aAuth' = [aAuth EXCEPT ![a] = e] \/ UNCHANGED aAuth
        /\ \/ e = NoAAuth
           \/ /\ e.at = aTick /\ (e.active => DisabledSince(a, aTick))
              /\ a \in Supers => e.active
  <2>1. CASE InvalidateAdmin(j)
    <3>1. aJob[j].a \in Admins /\ NoAAuth \in [active : BOOLEAN, at : Int]
      BY <1>0, <2>1 DEF InvalidateAdmin, WorkOk, NoAAuth
    <3> QED BY <2>1, <3>1 DEF InvalidateAdmin
  <2>2. CASE AdminStateStores(j)
    <3>1. LoadedOk(aJob[j])
      BY <1>0, <2>2 DEF AdminStateStores, WorkOk
    <3>2. PICK e : e = [active |-> aJob[j].active, at |-> aTick]
      OBVIOUS
    <3>3. /\ e \in [active : BOOLEAN, at : Int] /\ e.at = aTick /\ e.active = aJob[j].active
          /\ aJob[j].a \in Admins
      BY <1>0, <3>1, <3>2 DEF LoadedOk
    <3> QED BY <2>2, <3>1, <3>2, <3>3 DEF AdminStateStores, LoadedOk
  <2> QED BY <2>1, <2>2
<1>3. DOMAIN aJob' = AdminJobs /\ \A i \in AdminJobs : WorkOk(aJob[i])'
  <2>1. CASE InvalidateAdmin(j)
    <3>1. PICK x \in HandlerActions : x = aJob[j].action
      BY <1>0, <2>1 DEF InvalidateAdmin, WorkOk
    <3>2. PICK w : w = AuditNext(x) /\ WorkOk(w)
      BY EndOk
    <3>3. WorkOk(w)'
      BY <1>0, <1>1, <3>2, WorkStays
    <3> QED BY <1>0, <1>1, <2>1, <3>1, <3>2, <3>3, JobsStay DEF InvalidateAdmin
  <2>2. CASE AdminStateStores(j)
    <3>1. WorkOk(IdleAdminJob)'
      BY DEF WorkOk, IdleAdminJob
    <3> QED BY <1>0, <1>1, <2>2, <3>1, JobsStay DEF AdminStateStores
  <2> QED BY <2>1, <2>2
<1>4. aAuth' \in [Admins -> [active : BOOLEAN, at : Int]]
      /\ \A b \in Admins : aAuth'[b] = aAuth[b] \/ (b = a /\ aAuth'[b] = e)
  BY <1>0, <1>2
<1>5. AdminShape'
  BY <1>0, <1>3, <1>4 DEF AdminInv, AdminShape
<1>6. SessionsExist'
  BY <1>0 DEF AdminInv, SessionsExist, Exists
<1>7. SupersEnabled'
  BY <1>0, <1>2, <1>4, AdminAssumption DEF AdminInv, SupersEnabled
<1>8. CachedDated'
  <2> SUFFICES ASSUME NEW b \in Admins, aAuth'[b].active
               PROVE  /\ admin[b] = "DISABLED" => disabledAt[b] >= aAuth'[b].at
                      /\ aAuth'[b].at =< aTick /\ aTick < aAuth'[b].at + AdminAuthTtl
    BY <1>0 DEF CachedDated, DisabledSince
  <2>1. CASE aAuth'[b] = aAuth[b]
    BY <2>1 DEF AdminInv, CachedDated, DisabledSince
  <2>2. CASE b = a /\ aAuth'[b] = e
    <3>1. e # NoAAuth
      BY <2>2 DEF NoAAuth
    <3> QED BY <1>0, <1>2, <2>2, <3>1 DEF DisabledSince
  <2> QED BY <1>4, <2>1, <2>2
<1>9. GrantsFinite' /\ GrantsAudited'
  BY <1>0 DEF AdminInv, GrantsFinite, GrantsAudited, Existing, Granted
<1> QED BY <1>3, <1>5, <1>6, <1>7, <1>8, <1>9 DEF AdminInv

\* The tables of roles and abilities: what they refer to stays.
LEMMA TableWriteKeeps ==
  ASSUME AdminInv, NEW j \in AdminJobs, NEW w, WorkOk(w), AStep(j, w),
         UNCHANGED <<admin, disabledAt, aSession, aAuth, aTick>>,
         role \subseteq role', role' \subseteq Roles, ability' \subseteq Abilities,
         userRole' \subseteq Admins \X role', roleAbility' \subseteq role' \X ability',
         audit' \in [Actions -> Nat], GrantsFinite' /\ GrantsAudited'
  PROVE  AdminInv'
<1>1. RowsStay
  BY DEF RowsStay, Exists, DisabledSince
<1>2. WorkOk(w)'
  BY <1>1, WorkStays
<1>3. DOMAIN aJob' = AdminJobs /\ \A i \in AdminJobs : WorkOk(aJob[i])'
  BY <1>1, <1>2, JobsStay
<1>4. AdminShape'
  BY <1>3 DEF AdminInv, AdminShape
<1>5. SessionsExist' /\ SupersEnabled' /\ CachedDated'
  BY DEF AdminInv, SessionsExist, SupersEnabled, CachedDated, Exists, DisabledSince
<1> QED BY <1>3, <1>4, <1>5 DEF AdminInv

LEMMA TransactionAudits ==
  ASSUME AdminInv, NEW j \in AdminJobs, NEW x \in Actions, Transaction(j, x)
  PROVE  /\ AStep(j, IdleAdminJob) /\ UNCHANGED <<aAuth, aTick>>
         /\ audit' \in [Actions -> Nat]
         /\ \A y \in Actions : audit'[y] = IF y = x THEN audit[y] + 1 ELSE audit[y]
         /\ \A y \in Actions : audit[y] \in Nat
BY AuditSaved DEF Transaction, AdminInv, AdminShape

LEMMA RoleWritesKeep ==
  ASSUME AdminInv, NEW j \in AdminJobs, CreateRole(j) \/ CreateAbility(j)
  PROVE  AdminInv'
<1>0. WorkOk(aJob[j]) /\ AdminShape
  BY DEF AdminInv
<1>1. PICK x \in {"role.created", "ability.created"} : Transaction(j, x)
  BY DEF CreateRole, CreateAbility
<1>2. x \in Actions
  BY DEF Actions
<1>3. /\ AStep(j, IdleAdminJob) /\ UNCHANGED <<aAuth, aTick>>
      /\ audit' \in [Actions -> Nat]
      /\ \A y \in Actions : audit'[y] = IF y = x THEN audit[y] + 1 ELSE audit[y]
      /\ \A y \in Actions : audit[y] \in Nat
  BY <1>1, <1>2, TransactionAudits
<1>4. /\ UNCHANGED <<admin, disabledAt, aSession, userRole, roleAbility>>
      /\ role \subseteq role' /\ role' \subseteq Roles
      /\ ability \subseteq ability' /\ ability' \subseteq Abilities
  BY <1>0 DEF CreateRole, CreateAbility, Transaction, WorkOk, AdminShape
<1>5. /\ userRole' \subseteq Admins \X role' /\ roleAbility' \subseteq role' \X ability'
  BY <1>0, <1>4 DEF AdminShape
<1>6. GrantsFinite' /\ GrantsAudited'
  <2>1. Existing' = Existing /\ Granted' \subseteq Granted
    BY <1>4 DEF Existing, Granted
  <2>2. /\ audit'["admin.created"] = audit["admin.created"]
        /\ audit'["role.revoked"] = audit["role.revoked"]
        /\ audit["role.assigned"] =< audit'["role.assigned"]
        /\ audit["ability.assigned"] =< audit'["ability.assigned"]
    BY <1>3 DEF Actions
  <2> QED BY <1>3, <1>4, <2>1, <2>2, GrantsKept
<1> QED BY <1>3, <1>4, <1>5, <1>6, EndOk, TableWriteKeeps

\* An assignment adds a row at most, and its audit row; a revocation wants the
\* row it removes.
LEMMA AssignRoleKeeps ==
  ASSUME AdminInv, NEW j \in AdminJobs, AssignRoleToAdmin(j) \/ RevokeRoleFromAdmin(j)
  PROVE  AdminInv'
<1>0. WorkOk(aJob[j]) /\ AdminShape
  BY DEF AdminInv
<1>1. PICK x \in {"role.assigned", "role.revoked"} :
        /\ Transaction(j, x)
        /\ x = "role.assigned" => userRole' = userRole \cup {<<aJob[j].a, aJob[j].r>>}
        /\ x = "role.revoked" => /\ <<aJob[j].a, aJob[j].r>> \in userRole
                                 /\ userRole' = userRole \ {<<aJob[j].a, aJob[j].r>>}
  BY DEF AssignRoleToAdmin, RevokeRoleFromAdmin
<1>2. x \in Actions
  BY DEF Actions
<1>3. /\ AStep(j, IdleAdminJob) /\ UNCHANGED <<aAuth, aTick>>
      /\ audit' \in [Actions -> Nat]
      /\ \A y \in Actions : audit'[y] = IF y = x THEN audit[y] + 1 ELSE audit[y]
      /\ \A y \in Actions : audit[y] \in Nat
  BY <1>1, <1>2, TransactionAudits
<1>4. UNCHANGED <<admin, disabledAt, aSession, role, ability, roleAbility>>
  BY DEF AssignRoleToAdmin, RevokeRoleFromAdmin
<1>5. userRole' \subseteq Admins \X role'
  <2>1. x = "role.assigned" => <<aJob[j].a, aJob[j].r>> \in Admins \X role
    BY <1>0, <1>1 DEF WorkOk, Transaction
  <2> QED BY <1>0, <1>1, <1>4, <2>1 DEF AdminShape
<1>6. GrantsFinite' /\ GrantsAudited'
  <2>1. /\ IsFiniteSet(Existing) /\ IsFiniteSet(userRole) /\ IsFiniteSet(Granted)
        /\ Cardinality(Existing) = Cardinality(Supers) + audit["admin.created"]
        /\ Cardinality(userRole) + audit["role.revoked"] =< audit["role.assigned"]
        /\ Cardinality(Granted) =< audit["ability.assigned"]
    BY DEF AdminInv, GrantsFinite, GrantsAudited, Existing, Granted
  <2>2. Existing' = Existing /\ Granted' = Granted
    BY <1>4 DEF Existing, Granted
  <2>3. Cardinality(userRole) \in Nat
    BY <2>1, FS_CardinalityType
  <2>4. PICK p : p = <<aJob[j].a, aJob[j].r>>
    OBVIOUS
  <2>5. IsFiniteSet(userRole') /\ Cardinality(userRole') + audit'["role.revoked"] =< audit'["role.assigned"]
    <3>1. CASE x = "role.assigned"
      <4>1. userRole' = userRole \cup {p}
        BY <1>1, <2>4, <3>1
      <4>2. /\ IsFiniteSet(userRole')
            /\ Cardinality(userRole') = Cardinality(userRole)
               \/ Cardinality(userRole') = Cardinality(userRole) + 1
        BY <2>1, <4>1, FS_AddElement
      <4>3. /\ audit'["role.assigned"] = audit["role.assigned"] + 1
            /\ audit'["role.revoked"] = audit["role.revoked"]
            /\ audit["role.assigned"] \in Nat /\ audit["role.revoked"] \in Nat
        BY <1>3, <3>1 DEF Actions
      <4> QED BY <2>1, <2>3, <4>2, <4>3
    <3>2. CASE x = "role.revoked"
      <4>1. userRole' = userRole \ {p} /\ p \in userRole
        BY <1>1, <2>4, <3>2
      <4>2. IsFiniteSet(userRole') /\ Cardinality(userRole') = Cardinality(userRole) - 1
        BY <2>1, <4>1, FS_RemoveElement
      <4>3. /\ audit'["role.assigned"] = audit["role.assigned"]
            /\ audit'["role.revoked"] = audit["role.revoked"] + 1
            /\ audit["role.assigned"] \in Nat /\ audit["role.revoked"] \in Nat
        BY <1>3, <3>2 DEF Actions
      <4> QED BY <2>1, <2>3, <4>2, <4>3
    <3> QED BY <3>1, <3>2
  <2>6. /\ audit'["admin.created"] = audit["admin.created"]
        /\ audit'["ability.assigned"] = audit["ability.assigned"]
    BY <1>3 DEF Actions
  <2>7. GrantsFinite'
    BY <2>1, <2>2, <2>5 DEF GrantsFinite
  <2> QED BY <2>1, <2>2, <2>5, <2>6, <2>7 DEF GrantsAudited, Existing, Granted
<1>7. role \subseteq role' /\ role' \subseteq Roles /\ ability' \subseteq Abilities
      /\ roleAbility' \subseteq role' \X ability'
  BY <1>0, <1>4 DEF AdminShape
<1> QED BY <1>3, <1>4, <1>5, <1>6, <1>7, EndOk, TableWriteKeeps

LEMMA AssignAbilityKeeps ==
  ASSUME AdminInv, NEW j \in AdminJobs, AssignAbilityToRole(j) \/ RevokeAbilityFromRole(j)
  PROVE  AdminInv'
<1>0. WorkOk(aJob[j]) /\ AdminShape
  BY DEF AdminInv
<1>1. PICK x \in {"ability.assigned", "ability.revoked"}, p \in {<<aJob[j].r, aJob[j].b>>} :
        /\ Transaction(j, x)
        /\ x = "ability.assigned" => p \in role \X ability /\ roleAbility' = roleAbility \cup {p}
        /\ x = "ability.revoked" => roleAbility' = roleAbility \ {p}
  BY <1>0 DEF AssignAbilityToRole, RevokeAbilityFromRole, WorkOk, Transaction
<1>2. x \in Actions
  BY DEF Actions
<1>3. /\ AStep(j, IdleAdminJob) /\ UNCHANGED <<aAuth, aTick>>
      /\ audit' \in [Actions -> Nat]
      /\ \A y \in Actions : audit'[y] = IF y = x THEN audit[y] + 1 ELSE audit[y]
      /\ \A y \in Actions : audit[y] \in Nat
  BY <1>1, <1>2, TransactionAudits
<1>4. UNCHANGED <<admin, disabledAt, aSession, role, ability, userRole>>
  BY DEF AssignAbilityToRole, RevokeAbilityFromRole
<1>5. roleAbility' \subseteq role' \X ability'
  BY <1>0, <1>1, <1>4 DEF AdminShape
<1>6. GrantsFinite' /\ GrantsAudited'
  <2>1. Existing' = Existing
    BY <1>4 DEF Existing
  <2>2. /\ audit'["admin.created"] = audit["admin.created"]
        /\ audit'["role.revoked"] = audit["role.revoked"]
        /\ audit'["role.assigned"] = audit["role.assigned"]
        /\ audit["role.assigned"] \in Nat /\ audit["ability.assigned"] \in Nat
        /\ x = "ability.assigned" => audit'["ability.assigned"] = audit["ability.assigned"] + 1
        /\ x = "ability.revoked" => audit'["ability.assigned"] = audit["ability.assigned"]
    BY <1>3 DEF Actions
  <2>3. CASE x = "ability.revoked"
    <3>1. Granted' \subseteq Granted
      BY <1>1, <2>3 DEF Granted
    <3> QED BY <1>3, <1>4, <2>1, <2>2, <2>3, <3>1, GrantsKept
  <2>4. CASE x = "ability.assigned"
    <3>1. /\ IsFiniteSet(Existing) /\ IsFiniteSet(userRole) /\ IsFiniteSet(Granted)
          /\ Cardinality(Existing) = Cardinality(Supers) + audit["admin.created"]
          /\ Cardinality(userRole) + audit["role.revoked"] =< audit["role.assigned"]
          /\ Cardinality(Granted) =< audit["ability.assigned"]
      BY DEF AdminInv, GrantsFinite, GrantsAudited, Existing, Granted
    <3>2. Granted' \subseteq Granted \cup {p}
      BY <1>1, <2>4 DEF Granted
    <3>3. /\ IsFiniteSet(Granted \cup {p})
          /\ Cardinality(Granted \cup {p}) = Cardinality(Granted)
             \/ Cardinality(Granted \cup {p}) = Cardinality(Granted) + 1
      BY <3>1, FS_AddElement
    <3>4. /\ IsFiniteSet(Granted') /\ Cardinality(Granted') =< Cardinality(Granted \cup {p})
      BY <3>2, <3>3, FS_Subset
    <3>5. Cardinality(Granted) \in Nat /\ Cardinality(Granted') \in Nat
      BY <3>1, <3>4, FS_CardinalityType
    <3>6. Cardinality(Granted') =< audit'["ability.assigned"]
      BY <2>2, <2>4, <3>1, <3>3, <3>4, <3>5
    <3>7. GrantsFinite'
      BY <1>4, <2>1, <3>1, <3>4 DEF GrantsFinite
    <3> QED BY <1>4, <2>1, <2>2, <3>1, <3>6, <3>7 DEF GrantsAudited, Existing, Granted
  <2> QED BY <2>3, <2>4
<1>7. role \subseteq role' /\ role' \subseteq Roles /\ ability' \subseteq Abilities
      /\ userRole' \subseteq Admins \X role'
  BY <1>0, <1>4 DEF AdminShape
<1> QED BY <1>3, <1>4, <1>5, <1>6, <1>7, EndOk, TableWriteKeeps

\* DELETE /abilities/:id cascades to the roles that have it.
LEMMA DeleteAbilityKeeps ==
  ASSUME AdminInv, NEW j \in AdminJobs, deleteAbility(j)
  PROVE  AdminInv'
<1>1. CASE /\ HandlerWrites(j, "ability.deleted", AuditNext("ability.deleted"))
           /\ ability' = ability \ {aJob[j].b}
           /\ roleAbility' = {p \in roleAbility : p[2] # aJob[j].b}
           /\ UNCHANGED <<admin, role, userRole, aSession, disabledAt>>
  <2>1. /\ AStep(j, AuditNext("ability.deleted")) /\ UNCHANGED <<aAuth, aTick, audit>>
        /\ WorkOk(AuditNext("ability.deleted"))
    BY <1>1, EndOk DEF HandlerWrites, HandlerActions
  <2>2. /\ role \subseteq role' /\ role' \subseteq Roles /\ ability' \subseteq Abilities
        /\ userRole' \subseteq Admins \X role' /\ roleAbility' \subseteq role' \X ability'
    BY <1>1 DEF AdminInv, AdminShape
  <2>3. Existing' = Existing /\ Granted' \subseteq Granted
    BY <1>1 DEF Existing, Granted
  <2>4. /\ audit' \in [Actions -> Nat] /\ audit["role.assigned"] \in Nat
        /\ audit["ability.assigned"] \in Nat
    BY <2>1 DEF AdminInv, AdminShape, Actions
  <2>5. GrantsFinite' /\ GrantsAudited'
    BY <1>1, <2>1, <2>3, <2>4, GrantsKept
  <2> QED BY <1>1, <2>1, <2>2, <2>4, <2>5, TableWriteKeeps
<1>2. CASE \E a \in Admins, b \in ability :
             Guarded(j, a, "ability.delete", [pc |-> "ability.deleted", b |-> b])
  BY <1>2, RoleAsksKeep
<1> QED BY <1>1, <1>2 DEF deleteAbility

LEMMA HandlerAuditsKeeps ==
  ASSUME AdminInv, NEW j \in AdminJobs, HandlerAudits(j)
  PROVE  AdminInv'
<1>0. UNCHANGED <<admin, role, ability, userRole, roleAbility, aSession, disabledAt, aAuth, aTick>>
      /\ AStep(j, IdleAdminJob) /\ AdminShape
  BY DEF HandlerAudits, adminRows, AdminInv
<1>1. PICK x \in HandlerActions : x = aJob[j].action /\ saveAudit(x) /\ x \in Actions
  BY DEF AdminInv, HandlerAudits, WorkOk, HandlerActions, Actions
<1>2. /\ audit' \in [Actions -> Nat] /\ audit["role.assigned"] \in Nat
      /\ audit["ability.assigned"] \in Nat
      /\ \A y \in {"admin.created", "role.revoked", "role.assigned", "ability.assigned"} :
           audit'[y] = audit[y]
  <2>1. \A y \in {"admin.created", "role.revoked", "role.assigned", "ability.assigned"} :
          y \in Actions /\ y \notin HandlerActions
    BY DEF Actions, HandlerActions
  <2>2. /\ audit' \in [Actions -> Nat]
        /\ \A y \in Actions : audit'[y] = IF y = x THEN audit[y] + 1 ELSE audit[y]
    BY <1>1, AuditSaved
  <2> QED BY <1>0, <1>1, <2>1, <2>2 DEF AdminShape
<1>3. Existing' = Existing /\ Granted' \subseteq Granted
  BY <1>0 DEF Existing, Granted
<1>4. GrantsFinite' /\ GrantsAudited'
  BY <1>0, <1>2, <1>3, GrantsKept
<1>5. /\ role \subseteq role' /\ role' \subseteq Roles /\ ability' \subseteq Abilities
      /\ userRole' \subseteq Admins \X role' /\ roleAbility' \subseteq role' \X ability'
  BY <1>0 DEF AdminShape
<1> QED BY <1>0, <1>2, <1>4, <1>5, EndOk, TableWriteKeeps

\* Time passes between requests.
LEMMA AdminTickKeeps ==
  ASSUME AdminInv, AdminTick
  PROVE  AdminInv'
<1>0. /\ UNCHANGED <<admin, role, ability, userRole, roleAbility, aSession, disabledAt, aJob, audit>>
      /\ aTick \in Nat /\ aTick' = aTick + 1 /\ AdminAuthTtl \in Nat \ {0}
      /\ aAuth \in [Admins -> [active : BOOLEAN, at : Int]]
      /\ aAuth' = [a \in Admins |-> IF aTick + 1 >= aAuth[a].at + AdminAuthTtl
                                    THEN NoAAuth ELSE aAuth[a]]
      /\ \A j \in AdminJobs : aJob[j].pc = "idle"
  BY AdminAssumption DEF AdminTick, adminRows, AdminInv, AdminShape
<1>1. aAuth' \in [Admins -> [active : BOOLEAN, at : Int]]
  BY <1>0 DEF NoAAuth
<1>2. AdminShape'
  BY <1>0, <1>1 DEF AdminInv, AdminShape
<1>3. SessionsExist'
  BY <1>0 DEF AdminInv, SessionsExist, Exists
<1>4. SupersEnabled'
  BY <1>0, AdminAssumption DEF AdminInv, SupersEnabled
<1>5. CachedDated'
  <2> SUFFICES ASSUME NEW a \in Admins, aAuth'[a].active
               PROVE  /\ admin[a] = "DISABLED" => disabledAt[a] >= aAuth'[a].at
                      /\ aAuth'[a].at =< aTick' /\ aTick' < aAuth'[a].at + AdminAuthTtl
    BY <1>0 DEF CachedDated, DisabledSince
  <2>1. aAuth'[a] = aAuth[a] /\ ~(aTick + 1 >= aAuth[a].at + AdminAuthTtl)
    BY <1>0 DEF NoAAuth
  <2>2. aAuth[a].at \in Int
    BY <1>0
  <2>3. DisabledSince(a, aAuth[a].at) /\ aAuth[a].at =< aTick
    BY <2>1 DEF AdminInv, CachedDated
  <2> QED BY <1>0, <2>1, <2>2, <2>3 DEF DisabledSince
<1>6. GrantsFinite' /\ GrantsAudited'
  BY <1>0 DEF AdminInv, GrantsFinite, GrantsAudited, Existing, Granted
<1>7. \A j \in AdminJobs : WorkOk(aJob[j])'
  BY <1>0 DEF WorkOk
<1> QED BY <1>2, <1>3, <1>4, <1>5, <1>6, <1>7 DEF AdminInv

LEMMA AdminInvNext == AdminInv /\ [AdminNext]_adminVars => AdminInv'
<1> SUFFICES ASSUME AdminInv, [AdminNext]_adminVars PROVE AdminInv'
  OBVIOUS
<1>1. CASE \E j \in AdminJobs : SessionRoutes(j)
  BY <1>1, SessionAsksKeep, SessionRoutesKeep, CacheRoutesKeep DEF SessionRoutes
<1>2. ASSUME NEW j \in AdminJobs, ManagementRoutes(j) PROVE AdminInv'
  <2>1. CASE postUsers(j)
    BY <2>1, AdminAsksKeep DEF postUsers
  <2> QED BY <1>2, <2>1, AdminWritesKeep, RoleAsksKeep, DeleteAbilityKeeps, HandlerAuditsKeeps,
              CacheRoutesKeep DEF ManagementRoutes
<1>3. CASE \E j \in AdminJobs : AdminUseCases(j)
  BY <1>3, CreateAdminKeeps, RoleWritesKeep, AssignRoleKeeps, AssignAbilityKeeps DEF AdminUseCases
<1>4. CASE \E j \in AdminJobs : AdminRequestFails(j)
  BY <1>4, SessionAsksKeep
<1>5. CASE AdminTick
  BY <1>5, AdminTickKeeps
<1>6. CASE UNCHANGED adminVars
  BY <1>6 DEF adminVars, AdminInv, AdminShape, SessionsExist, SupersEnabled, CachedDated,
       GrantsFinite, GrantsAudited, Existing, Granted, Exists, DisabledSince, WorkOk, LoginOk,
       TokenOk, UpdateOk, DisableOk, EnableOk, LoadedOk
<1> QED BY <1>1, <1>2, <1>3, <1>4, <1>5, <1>6 DEF AdminNext

LEMMA AdminInvSound == AdminInv => AdminSound
<1> SUFFICES ASSUME AdminInv PROVE AdminSound
  OBVIOUS
<1>1. AdminTypeOK
  BY DEF AdminInv, AdminShape, SessionsExist, Exists, AdminTypeOK
<1>2. ConsoleMatchesGuard
  <2> SUFFICES ASSUME NEW a \in Admins, NEW b \in ability
               PROVE  /\ b \in getMyAbilities(a) <=> requireAbility(a, b)
                      /\ VerifyAdminAbility(a, b) <=>
                           getUser(a).isSuperAdmin \/ \E r \in getUser(a).roles : b \in getRoleAbilities(r)
    BY DEF ConsoleMatchesGuard
  <2>1. b \in GetAdminAbilities(a) <=> VerifyAdminAbility(a, b)
    BY DEF GetAdminAbilities, VerifyAdminAbility, adminHasAbility, findRolesByAdmin,
         findAbilitiesByRole
  <2>2. b \in getMyAbilities(a) <=> requireAbility(a, b)
    BY <2>1 DEF getMyAbilities, requireAbility
  <2>3. getUser(a).isSuperAdmin = isSuperAdmin(a) /\ getUser(a).roles = findRolesByAdmin(a)
    BY DEF getUser
  <2>4. VerifyAdminAbility(a, b) <=>
          isSuperAdmin(a) \/ \E r \in findRolesByAdmin(a) : b \in findAbilitiesByRole(r)
    BY DEF VerifyAdminAbility, adminHasAbility, findRolesByAdmin, findAbilitiesByRole
  <2> QED BY <2>2, <2>3, <2>4 DEF getRoleAbilities
<1>3. DisabledWithinTtl
  <2> SUFFICES ASSUME NEW a \in Admins, admin[a] = "DISABLED", adminAuthGuard(a)
               PROVE  aTick < disabledAt[a] + AdminAuthTtl
    BY DEF DisabledWithinTtl
  <2>1. aAuth[a].active
    BY DEF adminAuthGuard, getAdminState, loadAdmin
  <2>2. /\ disabledAt[a] >= aAuth[a].at /\ aTick < aAuth[a].at + AdminAuthTtl
        /\ disabledAt[a] \in Int /\ aAuth[a].at \in Int /\ aTick \in Int /\ AdminAuthTtl \in Int
    BY <2>1, AdminAssumption DEF AdminInv, AdminShape, CachedDated, DisabledSince
  <2> QED BY <2>2
<1>4. SuperAdminRemains
  <2>1. PICK a \in Supers : a \in Admins
    BY AdminAssumption
  <2>2. admin[a] = "ENABLED" /\ (aAuth[a] = NoAAuth \/ aAuth[a].active)
    BY DEF AdminInv, SupersEnabled
  <2>3. adminAuthGuard(a)
    BY <2>2 DEF adminAuthGuard, getAdminState, loadAdmin
  <2> QED BY <2>2, <2>3 DEF SuperAdminRemains, requireAbility, VerifyAdminAbility, isSuperAdmin
<1> QED BY <1>1, <1>2, <1>3, <1>4 DEF AdminSound, AdminInv

(* Access to the console stays sound for any number of admins and of         *)
(* requests that overlap and fail half way: rows refer to rows, the console  *)
(* shows what the guard grants, a disabled admin is out within the TTL, the  *)
(* super admins stay enabled, and every grant has its audit row              *)
(* (admin.routes, the admin use cases, AdminAuthState.service).              *)
THEOREM AdminsCorrect == AdminSpec => []AdminSound
<1>1. AdminInit => AdminInv
  BY AdminInvInit
<1>2. AdminInv /\ [AdminNext]_adminVars => AdminInv'
  BY AdminInvNext
<1>3. AdminInv => AdminSound
  BY AdminInvSound
<1> QED BY <1>1, <1>2, <1>3, PTL DEF AdminSpec

-----------------------------------------------------------------------------
(***************************************************************************)
(* Sessions: the inductive invariant.  It says which steps of a request    *)
(* hold which row locks, and what the request read under them: that is     *)
(* what keeps two logins, two refreshes or two verifications apart.        *)
(***************************************************************************)

UserRec == [verified : BOOLEAN, password : Nat, failed : Nat, lockedUntil : Int, version : Nat]
SessionRec ==
  [revokedAt : Int, replacedBy : 0..MaxSid, cipher : BOOLEAN, expiresAt : Int, root : Nat]
Slots == 1..MaxSid

\* The steps with the user's row locked, and those with session rows locked.
HoldsUser(w) ==
  \/ w.pc \in {"verify_accounts", "verify_commit", "login_count", "login_commit"}
  \/ w.pc \in {"revoke_all", "revoke_wait", "revoke_commit"} /\ w.op = "change"
HoldsSessions(w) == w.pc \in {"rotate", "logout_commit", "revoke_commit"}
SavesUser(w) ==
  w.pc \in {"verify_save", "verify_accounts", "verify_commit", "login_fail", "login_save",
            "login_count", "login_commit", "profile", "logout_commit",
            "revoke_all", "revoke_wait", "revoke_commit"}

\* A version that was the user's at the time t or later is so still, or the
\* version has changed since then.
VersionSince(v, t) == v # user.version => versionAt >= t

HasRow(i) == i \in Slots /\ session[i] # NoSession

\* The session a login will evict is active still, or there is room without.
EvictOk(e) == e \in Active \/ Cardinality(Active) < MaxSessions + rotations

SessionsShape ==
  /\ user \in UserRec
  /\ session \in [Slots -> SessionRec]
  /\ personal \in 0..1 /\ tick \in 0..MaxTick /\ rotations \in Nat
  /\ versionAt \in Int
  /\ userLock \in Jobs \cup {NobodyS} /\ sessLock \in [Slots -> Jobs \cup {NobodyS}]
  /\ DOMAIN job = Jobs

\* The rows in use are the first ones, and their roots are rows in use.
RowsInOrder ==
  \E n \in 0..MaxSid :
    /\ \A i \in 1..n : session[i].root \in 1..i
    /\ \A i \in (n + 1)..MaxSid : session[i] = NoSession

AuthDated ==
  authEntry # NoAuth =>
    /\ authEntry.version \in Nat /\ authEntry.at \in Nat
    /\ authEntry.at =< tick /\ tick < authEntry.at + AuthTtl
    /\ VersionSince(authEntry.version, authEntry.at)

LogoutOk(w) ==
  /\ HasRow(w.sid)
  /\ w.s \in SessionRec /\ isRevokedS(w.s) /\ w.s.root = session[w.sid].root

LocksHeld(j, w) ==
  /\ userLock = j => HoldsUser(w)
  /\ \A i \in Slots : sessLock[i] = j => HoldsSessions(w)

\* What the request j, about to do w, holds and has read.
TxOk(j, w) ==
  /\ SavesUser(w) => w.u \in UserRec
  /\ w.pc \in {"verify_accounts", "verify_commit", "login_count", "login_commit"} => userLock = j
  /\ w.pc = "verify_commit" /\ w.first => personal = 0
  /\ w.pc = "login_commit" => /\ w.evict # 0 => HasRow(w.evict)
                              /\ EvictOk(w.evict)
  /\ w.pc = "rotate" => /\ HasRow(w.sid)
                        /\ isValid(session[w.sid]) /\ sessLock[w.sid] = j
  /\ w.pc \in {"logout_save", "logout_commit"} => LogoutOk(w)
  /\ w.pc = "logout_commit" => sessLock[w.sid] = j
  /\ w.pc \in {"revoke_wait", "revoke_commit"} => \A i \in w.ids : HasRow(i)
  /\ w.pc = "revoke_commit" => \A i \in w.ids : sessLock[i] = j
  /\ w.pc = "auth" => w.version \in Nat /\ VersionSince(w.version, tick)

SessionsInv ==
  /\ SessionsShape /\ RowsInOrder /\ OneActivePerLogin /\ SessionLimit /\ AuthDated
  /\ \A j \in Jobs : LocksHeld(j, job[j]) /\ TxOk(j, job[j])

-----------------------------------------------------------------------------
(***************************************************************************)
(* Sessions: lemmas about the rows.                                        *)
(***************************************************************************)

\* A set of natural numbers has a least element.
LEMMA HasLeast ==
  ASSUME NEW S \in SUBSET Nat, S # {}
  PROVE  \E x \in S : \A y \in S : x =< y
<1>1. IsWellFoundedOn(OpToRel(<, Nat), Nat)
  BY NatLessThanWellFounded
<1>2. PICK x \in S : \A y \in S : ~(<<y, x>> \in OpToRel(<, Nat))
  BY <1>1, WFMin
<1>3. OpToRel(<, Nat) = {ss \in Nat \X Nat : ss[1] < ss[2]}
  BY Zenon DEF OpToRel
<1>4. ASSUME NEW y \in S PROVE x =< y
  <2>1. <<y, x>> \notin {ss \in Nat \X Nat : ss[1] < ss[2]}
    BY <1>2, <1>3
  <2> QED BY <2>1
<1> QED BY <1>4

\* A user with one column changed is a user.
LEMMA UserField ==
  ASSUME NEW u \in UserRec
  PROVE  /\ [u EXCEPT !.verified = TRUE] \in UserRec
         /\ \A x \in Nat : [u EXCEPT !.password = x] \in UserRec
         /\ \A x \in Nat : [u EXCEPT !.failed = x] \in UserRec
         /\ \A x \in Int : [u EXCEPT !.lockedUntil = x] \in UserRec
         /\ \A x \in Nat : [u EXCEPT !.version = x] \in UserRec
         /\ u.password + 1 \in Nat /\ u.failed + 1 \in Nat /\ u.version + 1 \in Nat
         /\ u.lockedUntil \in Int /\ 0 \in Int
<1>1. [u EXCEPT !.verified = TRUE] \in UserRec
  BY DEF UserRec
<1>2. /\ \A x \in Nat : [u EXCEPT !.password = x] \in UserRec
      /\ \A x \in Nat : [u EXCEPT !.failed = x] \in UserRec
  BY DEF UserRec
<1>3. /\ \A x \in Int : [u EXCEPT !.lockedUntil = x] \in UserRec
      /\ \A x \in Nat : [u EXCEPT !.version = x] \in UserRec
  BY DEF UserRec
<1>4. /\ u.password + 1 \in Nat /\ u.failed + 1 \in Nat /\ u.version + 1 \in Nat
      /\ u.lockedUntil \in Int
  BY DEF UserRec
<1> QED BY <1>1, <1>2, <1>3, <1>4

\* What the entity's methods return is a user.
LEMMA UserOps ==
  ASSUME NEW u \in UserRec, tick \in Nat
  PROVE  /\ verifyEmail(u) \in UserRec /\ recordFailedLoginAttempt(u) \in UserRec
         /\ resetLoginAttempts(u) \in UserRec /\ incrementTokenVersion(u) \in UserRec
         /\ resetPassword(u, u.password + 1) \in UserRec
         /\ NoUser \in UserRec /\ User_register(1) \in UserRec
<1>1. verifyEmail(u) \in UserRec
  BY UserField DEF verifyEmail
<1>2. recordFailedLoginAttempt(u) \in UserRec
  <2>1. PICK v \in UserRec : v = [u EXCEPT !.failed = u.failed + 1]
    BY UserField
  <2>2. PICK d \in Int :
          d = IF u.failed + 1 >= MaxFailures THEN tick + LockTime ELSE u.lockedUntil
    <3>1. tick + LockTime \in Int
      BY SessionsAssumption
    <3>2. u.lockedUntil \in Int
      BY UserField
    <3> QED BY <3>1, <3>2, Zenon
  <2>3. [v EXCEPT !.lockedUntil = d] \in UserRec
    <3>1. \A x \in Int : [v EXCEPT !.lockedUntil = x] \in UserRec
      BY UserField
    <3> QED BY <3>1, Zenon
  <2>4. recordFailedLoginAttempt(u) = [v EXCEPT !.lockedUntil = d]
    BY <2>1, <2>2 DEF recordFailedLoginAttempt
  <2> QED BY <2>3, <2>4
<1>3. resetLoginAttempts(u) \in UserRec
  <2>1. PICK v \in UserRec : v = [u EXCEPT !.failed = 0]
    BY UserField
  <2>2. [v EXCEPT !.lockedUntil = 0] \in UserRec
    BY UserField
  <2>3. resetLoginAttempts(u) = [v EXCEPT !.lockedUntil = 0]
    BY <2>1 DEF resetLoginAttempts
  <2> QED BY <2>2, <2>3
<1>4. incrementTokenVersion(u) \in UserRec
  BY UserField DEF incrementTokenVersion
<1>5. resetPassword(u, u.password + 1) \in UserRec
  <2>1. PICK v \in UserRec : v = [u EXCEPT !.password = u.password + 1]
    BY UserField
  <2>2. PICK w \in UserRec : w = [v EXCEPT !.failed = 0]
    BY UserField
  <2>3. [w EXCEPT !.lockedUntil = 0] \in UserRec
    BY UserField
  <2>4. PICK x \in UserRec : x = [w EXCEPT !.lockedUntil = 0]
    BY <2>3
  <2>5. [x EXCEPT !.version = u.version + 1] \in UserRec
    BY UserField
  <2>6. resetPassword(u, u.password + 1) = [x EXCEPT !.version = u.version + 1]
    BY <2>1, <2>2, <2>4 DEF resetPassword
  <2> QED BY <2>5, <2>6
<1>6. NoUser \in UserRec
  BY DEF NoUser, UserRec
<1>7. User_register(1) \in UserRec
  BY <1>6, UserField DEF User_register
<1> QED BY <1>1, <1>2, <1>3, <1>4, <1>5, <1>6, <1>7

\* The rows in use are 1..n, the next one is n + 1, and the active ones are finite.
LEMMA RowsUsed ==
  ASSUME session \in [Slots -> SessionRec], RowsInOrder
  PROVE  \E n \in 0..MaxSid :
           /\ Sids = 1..n /\ FreshSid = n + 1
           /\ \A i \in 1..n : session[i].root \in 1..i
           /\ \A i \in (n + 1)..MaxSid : session[i] = NoSession
<1> USE SessionsAssumption
<1>1. PICK n \in 0..MaxSid :
        /\ \A i \in 1..n : session[i].root \in 1..i
        /\ \A i \in (n + 1)..MaxSid : session[i] = NoSession
  BY DEF RowsInOrder
<1>2. \A i \in 1..n : session[i] # NoSession
  BY <1>1 DEF NoSession
<1>3. Sids = 1..n
  BY <1>1, <1>2 DEF Sids
<1>4. FreshSid = n + 1
  <2>1. Cardinality(1..n) = n
    BY FS_Interval
  <2>2. (1..n = {}) <=> n = 0
    OBVIOUS
  <2> QED BY <1>3, <2>1, <2>2 DEF FreshSid
<1> QED BY <1>1, <1>3, <1>4

\* The next row is free, and the rows in use come before it.
LEMMA FreshRow ==
  ASSUME session \in [Slots -> SessionRec], RowsInOrder, FreshSid =< MaxSid
  PROVE  \E n \in Slots :
           /\ n = FreshSid /\ session[n] = NoSession
           /\ \A i \in Slots : session[i] # NoSession => i < n /\ session[i].root \in 1..i
<1>1. PICK m \in 0..MaxSid :
        /\ FreshSid = m + 1
        /\ \A i \in 1..m : session[i].root \in 1..i
        /\ \A i \in (m + 1)..MaxSid : session[i] = NoSession
  BY RowsUsed
<1>2. PICK n \in Slots : n = m + 1 /\ n = FreshSid
  BY <1>1, SessionsAssumption DEF Slots
<1>3. session[n] = NoSession
  BY <1>1, <1>2, SessionsAssumption DEF Slots
<1>4. \A i \in Slots : session[i] # NoSession => i \in 1..m
  BY <1>1, SessionsAssumption DEF Slots
<1>5. \A i \in Slots : session[i] # NoSession => i < n /\ session[i].root \in 1..i
  BY <1>1, <1>2, <1>4, SessionsAssumption DEF Slots
<1> QED BY <1>2, <1>3, <1>5

LEMMA ActiveFinite ==
  ASSUME session \in [Slots -> SessionRec], RowsInOrder
  PROVE  IsFiniteSet(Active) /\ Cardinality(Active) \in Nat
<1>1. PICK n \in 0..MaxSid : Sids = 1..n
  BY RowsUsed
<1>2. IsFiniteSet(1..n)
  BY FS_Interval, SessionsAssumption
<1>3. Active \subseteq 1..n
  BY <1>1 DEF Active
<1> QED BY <1>2, <1>3, FS_Subset, FS_CardinalityType

\* What a step of the request j does to the user's row, to the session rows and
\* to what other requests have locked or read.
UserMoves ==
  /\ user' \in UserRec
  /\ versionAt' = IF user'.version # user.version THEN tick ELSE versionAt
LocksKept(j) ==
  /\ userLock' \in Jobs \cup {NobodyS} /\ sessLock' \in [Slots -> Jobs \cup {NobodyS}]
  /\ \A k \in Jobs \ {j} : userLock' = k <=> userLock = k
  /\ \A k \in Jobs \ {j} : \A i \in Slots : sessLock'[i] = k <=> sessLock[i] = k
RowsKept(j) ==
  \A i \in Slots :
    /\ session[i] # NoSession => session'[i] # NoSession /\ session'[i].root = session[i].root
    /\ sessLock[i] \notin {NobodyS, j} /\ isValid(session[i]) => isValid(session[i])'
EvictKept(j) == userLock = j \/ \A e : EvictOk(e) => EvictOk(e)'
PersonalKept(j) == personal' \in 0..1 /\ (personal' = personal \/ userLock = j)

\* Rows are only revoked.
RowsShrink ==
  \A i \in Slots :
    /\ session[i] = NoSession <=> session'[i] = NoSession
    /\ session'[i].root = session[i].root
    /\ ~isRevokedS(session'[i]) =>
         ~isRevokedS(session[i]) /\ session'[i].expiresAt = session[i].expiresAt

\* Revoking rows breaks none of what is held of all rows.
LEMMA ShrinkKeeps ==
  ASSUME session \in [Slots -> SessionRec], session' \in [Slots -> SessionRec],
         rotations \in Nat, tick' = tick, rotations' = rotations,
         RowsInOrder, OneActivePerLogin, SessionLimit, RowsShrink
  PROVE  /\ RowsInOrder' /\ OneActivePerLogin' /\ SessionLimit'
         /\ \A e : EvictOk(e) => EvictOk(e)'
<1> USE SessionsAssumption
<1>1. RowsInOrder'
  <2>1. PICK n \in 0..MaxSid :
          /\ \A i \in 1..n : session[i].root \in 1..i
          /\ \A i \in (n + 1)..MaxSid : session[i] = NoSession
    BY DEF RowsInOrder
  <2>2. \A i \in 1..n : session'[i].root \in 1..i
    BY <2>1 DEF RowsShrink, Slots
  <2>3. \A i \in (n + 1)..MaxSid : session'[i] = NoSession
    BY <2>1 DEF RowsShrink, Slots
  <2> QED BY <2>2, <2>3 DEF RowsInOrder
<1>2. unrevoked' \subseteq unrevoked /\ unrevoked \subseteq Slots
  BY DEF unrevoked, Sids, RowsShrink, Slots
<1>3. OneActivePerLogin'
  BY <1>2 DEF OneActivePerLogin, RowsShrink
<1>4. Active' \subseteq Active
  BY DEF Active, Sids, isValid, isExpiredS, RowsShrink, Slots
<1>5. IsFiniteSet(Active) /\ Cardinality(Active) \in Nat
  BY ActiveFinite
<1>6. IsFiniteSet(Active') /\ Cardinality(Active') \in Nat
      /\ Cardinality(Active') =< Cardinality(Active)
  BY <1>4, <1>5, FS_Subset, FS_CardinalityType
<1>7. SessionLimit'
  BY <1>5, <1>6 DEF SessionLimit, countActiveByUserId
<1>8. ASSUME NEW e, EvictOk(e) PROVE EvictOk(e)'
  <2>1. CASE e \in Active
    <3>1. CASE e \in Active'
      BY <3>1 DEF EvictOk
    <3>2. CASE e \notin Active'
      <4>1. Active' \subseteq Active \ {e}
        BY <1>4, <3>2
      <4>2. /\ IsFiniteSet(Active \ {e})
            /\ Cardinality(Active \ {e}) = Cardinality(Active) - 1
        BY <1>5, <2>1, FS_RemoveElement
      <4>3. Cardinality(Active') =< Cardinality(Active \ {e})
        BY <4>1, <4>2, FS_Subset
      <4> QED BY <1>5, <1>6, <4>2, <4>3 DEF EvictOk, SessionLimit, countActiveByUserId
    <3> QED BY <3>1, <3>2
  <2>2. CASE e \notin Active
    BY <1>5, <1>6, <1>8, <2>2 DEF EvictOk
  <2> QED BY <2>1, <2>2
<1> QED BY <1>1, <1>3, <1>7, <1>8

\* A new row next to the active ones, one of which it may replace.
LEMMA ActiveGrows ==
  ASSUME NEW S, NEW T, NEW x, NEW n, IsFiniteSet(S), T \subseteq (S \ {x}) \cup {n}
  PROVE  /\ IsFiniteSet(T) /\ Cardinality(T) \in Nat /\ Cardinality(S) \in Nat
         /\ Cardinality(T) =< Cardinality(S) + 1
         /\ x \in S => Cardinality(T) =< Cardinality(S)
<1>1. IsFiniteSet(S \ {x}) /\ Cardinality(S \ {x}) \in Nat /\ Cardinality(S) \in Nat
      /\ Cardinality(S \ {x}) = IF x \in S THEN Cardinality(S) - 1 ELSE Cardinality(S)
  BY FS_RemoveElement, FS_CardinalityType
<1>2. /\ IsFiniteSet((S \ {x}) \cup {n}) /\ Cardinality((S \ {x}) \cup {n}) \in Nat
      /\ Cardinality((S \ {x}) \cup {n}) =< Cardinality(S \ {x}) + 1
  <2>1. PICK U : U = S \ {x}
    OBVIOUS
  <2>2. /\ IsFiniteSet(U \cup {n})
        /\ Cardinality(U \cup {n}) = IF n \in U THEN Cardinality(U) ELSE Cardinality(U) + 1
    BY <1>1, <2>1, FS_AddElement
  <2> QED BY <1>1, <2>1, <2>2
<1>3. IsFiniteSet(T) /\ Cardinality(T) =< Cardinality((S \ {x}) \cup {n})
  BY <1>2, FS_Subset
<1>4. Cardinality(T) \in Nat
  BY <1>3, FS_CardinalityType
<1> QED BY <1>1, <1>2, <1>3, <1>4

\* A step adds the row n, of the login r, and x stops being unrevoked.
RowAdded(n, r, x) ==
  \A i \in Slots :
    IF i = n
    THEN session'[i].root = r
    ELSE /\ session[i] = NoSession <=> session'[i] = NoSession
         /\ session'[i].root = session[i].root
         /\ ~isRevokedS(session'[i]) =>
              i # x /\ ~isRevokedS(session[i]) /\ session'[i].expiresAt = session[i].expiresAt

LEMMA RowAddedKeeps ==
  ASSUME session \in [Slots -> SessionRec], session' \in [Slots -> SessionRec],
         rotations \in Nat, tick' = tick, RowsInOrder,
         NEW r, NEW x, FreshSid =< MaxSid, r \in 1..FreshSid, RowAdded(FreshSid, r, x)
  PROVE  /\ RowsInOrder'
         /\ unrevoked' \subseteq (unrevoked \ {x}) \cup {FreshSid}
         /\ unrevoked \subseteq 1..(FreshSid - 1)
         /\ IsFiniteSet(Active') /\ Cardinality(Active') \in Nat /\ Cardinality(Active) \in Nat
         /\ Cardinality(Active') =< Cardinality(Active) + 1
         /\ x \in Active => Cardinality(Active') =< Cardinality(Active)
<1> USE SessionsAssumption
<1>1. PICK m \in 0..MaxSid :
        /\ Sids = 1..m /\ FreshSid = m + 1
        /\ \A i \in 1..m : session[i].root \in 1..i
        /\ \A i \in (m + 1)..MaxSid : session[i] = NoSession
  BY RowsUsed
<1>2. PICK n \in Slots : n = m + 1 /\ n = FreshSid
  BY <1>1 DEF Slots
<1>3. RowAdded(n, r, x) /\ r \in 1..n
  BY <1>2
<1>4. RowsInOrder'
  <2>1. \A i \in 1..n : session'[i].root \in 1..i
    BY <1>1, <1>2, <1>3 DEF RowAdded, Slots
  <2>2. \A i \in (n + 1)..MaxSid : session'[i] = NoSession
    BY <1>1, <1>2, <1>3 DEF RowAdded, Slots
  <2>3. n \in 0..MaxSid
    BY <1>2 DEF Slots
  <2> QED BY <2>1, <2>2, <2>3 DEF RowsInOrder
<1>5. unrevoked' \subseteq (unrevoked \ {x}) \cup {n}
  BY <1>3 DEF unrevoked, Sids, RowAdded, Slots
<1>6. unrevoked \subseteq 1..(n - 1)
  BY <1>1, <1>2 DEF unrevoked
<1>7. Active' \subseteq (Active \ {x}) \cup {n}
  BY <1>3 DEF Active, Sids, isValid, isExpiredS, RowAdded, Slots
<1>8. IsFiniteSet(Active)
  BY ActiveFinite
<1>9. /\ IsFiniteSet(Active') /\ Cardinality(Active') \in Nat /\ Cardinality(Active) \in Nat
      /\ Cardinality(Active') =< Cardinality(Active) + 1
      /\ x \in Active => Cardinality(Active') =< Cardinality(Active)
  BY <1>7, <1>8, ActiveGrows
<1> QED BY <1>2, <1>4, <1>5, <1>6, <1>9

\* What another request holds and has read stays true.
LEMMA OthersKept ==
  ASSUME NEW j \in Jobs, NEW k \in Jobs, k # j, NEW w,
         user \in UserRec, session \in [Slots -> SessionRec],
         tick \in Nat, versionAt \in Int,
         sessLock \in [Slots -> Jobs \cup {NobodyS}],
         tick' = tick, UserMoves, LocksKept(j), RowsKept(j), EvictKept(j), PersonalKept(j),
         LocksHeld(k, w), TxOk(k, w)
  PROVE  LocksHeld(k, w)' /\ TxOk(k, w)'
<1> USE SessionsAssumption
<1>1. LocksHeld(k, w)'
  BY DEF LocksHeld, LocksKept, HoldsUser, HoldsSessions
<1>2. \A i : HasRow(i) => HasRow(i)' /\ session'[i].root = session[i].root
  BY DEF HasRow, RowsKept
<1>3. userLock = k => userLock' = k /\ userLock # j
  BY DEF LocksKept
<1>4. \A i \in Slots : sessLock[i] = k => sessLock'[i] = k
  BY DEF LocksKept
<1>5. SavesUser(w)' <=> SavesUser(w)
  BY DEF SavesUser
<1>6. w.pc = "verify_commit" /\ w.first => personal' = 0
  <2>1. w.pc = "verify_commit" /\ w.first => personal = 0 /\ userLock = k
    BY DEF TxOk
  <2>2. userLock = k => personal' = personal
    BY <1>3 DEF PersonalKept
  <2> QED BY <2>1, <2>2
<1>7. w.pc = "login_commit" => /\ w.evict # 0 => HasRow(w.evict)'
                               /\ EvictOk(w.evict)'
  <2>1. w.pc = "login_commit" => /\ w.evict # 0 => HasRow(w.evict)
                                 /\ EvictOk(w.evict) /\ userLock = k
    BY DEF TxOk
  <2>2. PICK e : e = w.evict
    OBVIOUS
  <2>3. userLock = k /\ EvictOk(e) => EvictOk(e)'
    BY <1>3 DEF EvictKept
  <2> QED BY <1>2, <2>1, <2>2, <2>3
<1>8. w.pc = "rotate" => /\ HasRow(w.sid)'
                         /\ isValid(session[w.sid])' /\ sessLock'[w.sid] = k
  <2>1. SUFFICES ASSUME w.pc = "rotate" PROVE <1>8!2
    OBVIOUS
  <2>2. HasRow(w.sid) /\ isValid(session[w.sid]) /\ sessLock[w.sid] = k
    BY <2>1 DEF TxOk
  <2>3. PICK i \in Slots : i = w.sid
    BY <2>2 DEF HasRow
  <2>4. sessLock[i] \notin {NobodyS, j}
    BY <2>2, <2>3
  <2>5. isValid(session[i])'
    BY <2>2, <2>3, <2>4 DEF RowsKept
  <2> QED BY <1>2, <1>4, <2>2, <2>3, <2>5
<1>9. w.pc \in {"logout_save", "logout_commit"} => LogoutOk(w)'
  BY <1>2 DEF TxOk, LogoutOk, isRevokedS
<1>10. w.pc = "logout_commit" => sessLock'[w.sid] = k
  BY <1>4 DEF TxOk, LogoutOk, HasRow
<1>11. /\ w.pc \in {"revoke_wait", "revoke_commit"} => \A i \in w.ids : HasRow(i)'
       /\ w.pc = "revoke_commit" => \A i \in w.ids : sessLock'[i] = k
  BY <1>2, <1>4 DEF TxOk, HasRow
<1>12. w.pc = "auth" => w.version \in Nat /\ VersionSince(w.version, tick)'
  BY DEF TxOk, VersionSince, UserMoves, UserRec
<1> QED
  BY <1>1, <1>3, <1>5, <1>6, <1>7, <1>8, <1>9, <1>10, <1>11, <1>12 DEF TxOk

-----------------------------------------------------------------------------
(***************************************************************************)
(* Sessions: every step preserves the invariant.                           *)
(***************************************************************************)

\* A step of one request, from what it does to each part of the state.
LEMMA StepKeeps ==
  ASSUME SessionsInv, NEW j \in Jobs, NEW w,
         job' = [job EXCEPT ![j] = w], tick' = tick, rotations' \in Nat,
         session' \in [Slots -> SessionRec],
         UserMoves, LocksKept(j), RowsKept(j), EvictKept(j), PersonalKept(j),
         RowsInOrder', OneActivePerLogin', SessionLimit', AuthDated',
         LocksHeld(j, w)', TxOk(j, w)'
  PROVE  SessionsInv'
<1> USE SessionsAssumption
<1>1. /\ user \in UserRec /\ session \in [Slots -> SessionRec]
      /\ tick \in Nat /\ versionAt \in Int
      /\ sessLock \in [Slots -> Jobs \cup {NobodyS}] /\ DOMAIN job = Jobs
  BY DEF SessionsInv, SessionsShape
<1>2. SessionsShape'
  <2>1. tick' \in 0..MaxTick /\ versionAt' \in Int
    BY <1>1 DEF SessionsInv, SessionsShape, UserMoves
  <2>2. DOMAIN job' = Jobs
    BY <1>1
  <2> QED BY <2>1, <2>2 DEF SessionsShape, UserMoves, LocksKept, PersonalKept, Slots
<1>3. ASSUME NEW k \in Jobs PROVE LocksHeld(k, job[k])' /\ TxOk(k, job[k])'
  <2>1. CASE k = j
    <3>1. job'[k] = w
      BY <1>1, <2>1
    <3> QED BY <2>1, <3>1
  <2>2. CASE k # j
    <3>1. PICK v : v = job[k] /\ v = job'[k]
      BY <1>1, <2>2
    <3>2. LocksHeld(k, v) /\ TxOk(k, v)
      BY <3>1 DEF SessionsInv
    <3>3. LocksHeld(k, v)' /\ TxOk(k, v)'
      BY <1>1, <2>2, <3>2, OthersKept
    <3> QED BY <3>1, <3>3
  <2> QED BY <2>1, <2>2
<1> QED BY <1>2, <1>3 DEF SessionsInv

\* The cached state survives a change of the user, unless it is dropped.
LEMMA AuthKept ==
  ASSUME SessionsInv, UserMoves, tick' = tick, authEntry' \in {authEntry, NoAuth}
  PROVE  AuthDated'
<1>1. user \in UserRec /\ tick \in Nat /\ versionAt \in Int
  BY SessionsAssumption DEF SessionsInv, SessionsShape
<1>2. CASE authEntry' = NoAuth
  BY <1>2 DEF AuthDated
<1>3. CASE authEntry' = authEntry /\ authEntry # NoAuth
  <2>1. /\ authEntry.version \in Nat /\ authEntry.at \in Nat /\ authEntry.at =< tick
        /\ tick < authEntry.at + AuthTtl /\ VersionSince(authEntry.version, authEntry.at)
    BY <1>3 DEF SessionsInv, AuthDated
  <2>2. PICK v \in Nat, t \in Nat : v = authEntry.version /\ t = authEntry.at
    BY <2>1
  <2>3. VersionSince(v, t) => VersionSince(v, t)'
    BY <1>1, <2>1, <2>2 DEF VersionSince, UserMoves, UserRec
  <2> QED BY <1>3, <2>1, <2>2, <2>3 DEF AuthDated
<1> QED BY <1>2, <1>3

\* A step that leaves the session rows alone.
LEMMA PlainStep ==
  ASSUME SessionsInv, NEW j \in Jobs, NEW w,
         job' = [job EXCEPT ![j] = w], tick' = tick, rotations' = rotations,
         session' = session, UserMoves, LocksKept(j), PersonalKept(j), AuthDated',
         LocksHeld(j, w)', TxOk(j, w)'
  PROVE  SessionsInv'
<1>1. /\ RowsInOrder' /\ OneActivePerLogin' /\ SessionLimit'
      /\ rotations' \in Nat /\ session' \in [Slots -> SessionRec]
  BY DEF SessionsInv, SessionsShape, RowsInOrder, OneActivePerLogin, SessionLimit,
         countActiveByUserId, Active, unrevoked, Sids, isValid, isExpiredS, Slots, SessionRec
<1>2. RowsKept(j)
  BY DEF RowsKept, isValid, isExpiredS, isRevokedS
<1>3. EvictKept(j)
  BY DEF EvictKept, EvictOk, Active, Sids, isValid, isExpiredS, isRevokedS
<1> QED BY <1>1, <1>2, <1>3, StepKeeps

\* A step that revokes rows that no other request has locked.
LEMMA ShrinkStep ==
  ASSUME SessionsInv, NEW j \in Jobs, NEW w,
         job' = [job EXCEPT ![j] = w], tick' = tick, rotations' = rotations,
         session' \in [Slots -> SessionRec], RowsShrink,
         \A i \in Slots : sessLock[i] \in {NobodyS, j} \/
                          /\ session'[i].revokedAt = session[i].revokedAt
                          /\ session'[i].expiresAt = session[i].expiresAt,
         UserMoves, LocksKept(j), PersonalKept(j), AuthDated',
         LocksHeld(j, w)', TxOk(j, w)'
  PROVE  SessionsInv'
<1>1. session \in [Slots -> SessionRec] /\ rotations \in Nat
      /\ RowsInOrder /\ OneActivePerLogin /\ SessionLimit
  BY DEF SessionsInv, SessionsShape
<1>2. RowsInOrder' /\ OneActivePerLogin' /\ SessionLimit' /\ \A e : EvictOk(e) => EvictOk(e)'
  BY <1>1, ShrinkKeeps
<1>3. RowsKept(j)
  BY DEF RowsShrink, RowsKept, isValid, isExpiredS, isRevokedS
<1>4. EvictKept(j)
  BY <1>2 DEF EvictKept
<1> QED BY <1>1, <1>2, <1>3, <1>4, StepKeeps

\* What a request has read stays true when nothing changes.
LEMMA UnchangedTx ==
  ASSUME NEW j \in Jobs, NEW w, TxOk(j, w), UNCHANGED <<user, session, personal, tick>>,
         UNCHANGED Locks, UNCHANGED Ghosts
  PROVE  TxOk(j, w)'
<1> USE DEF Locks, Ghosts
<1>1. \A e : EvictOk(e)' <=> EvictOk(e)
  BY DEF EvictOk, Active, Sids, isValid, isExpiredS, isRevokedS
<1>2. \A i : HasRow(i)' <=> HasRow(i)
  BY DEF HasRow
<1>3. LogoutOk(w)' <=> LogoutOk(w)
  BY <1>2 DEF LogoutOk, isRevokedS
<1>4. isValid(session[w.sid])' <=> isValid(session[w.sid])
  BY DEF isValid, isExpiredS, isRevokedS
<1>5. VersionSince(w.version, tick)' <=> VersionSince(w.version, tick)
  BY DEF VersionSince
<1>6. SavesUser(w)' <=> SavesUser(w)
  BY DEF SavesUser
<1>7. PICK e : e = w.evict
  OBVIOUS
<1> QED BY <1>1, <1>2, <1>3, <1>4, <1>5, <1>6, <1>7 DEF TxOk

\* A step of one request that only reads.
LEMMA ReadStep ==
  ASSUME SessionsInv, NEW j \in Jobs, NEW w, Step(j, w),
         UNCHANGED <<user, session, personal, authEntry, tick>>, UNCHANGED Locks, UNCHANGED Ghosts,
         LocksHeld(j, w), TxOk(j, w)
  PROVE  SessionsInv'
<1> USE DEF Locks, Ghosts
<1>1. UserMoves /\ LocksKept(j) /\ PersonalKept(j)
  BY DEF SessionsInv, SessionsShape, UserMoves, LocksKept, PersonalKept, UserRec
<1>2. AuthDated'
  BY <1>1, AuthKept
<1>3. LocksHeld(j, w)'
  BY DEF LocksHeld, HoldsUser, HoldsSessions
<1>4. TxOk(j, w)'
  BY UnchangedTx
<1> QED BY <1>1, <1>2, <1>3, <1>4, PlainStep DEF Step

\* A request that does not hold locks in this step has none.
LEMMA FreeOf ==
  ASSUME SessionsInv, NEW j \in Jobs
  PROVE  /\ ~HoldsUser(job[j]) => userLock # j
         /\ ~HoldsSessions(job[j]) => \A i \in Slots : sessLock[i] # j
BY DEF SessionsInv, LocksHeld

\* The end of a request, or of its transaction.
LEMMA EndsOk ==
  ASSUME NEW j \in Jobs, NEW w, w.pc \in {"idle", "invalidate"},
         userLock' # j, \A i \in Slots : sessLock'[i] # j
  PROVE  LocksHeld(j, w)' /\ TxOk(j, w)'
BY DEF LocksHeld, TxOk, HoldsUser, HoldsSessions, SavesUser

LEMMA UnlockKeeps ==
  ASSUME SessionsInv, NEW j \in Jobs, Unlock(j)
  PROVE  LocksKept(j) /\ userLock' # j /\ \A i \in Slots : sessLock'[i] # j
BY SessionsAssumption DEF SessionsInv, SessionsShape, Unlock, LocksKept, Slots

LEMMA SaveUserMoves ==
  ASSUME NEW u \in UserRec, saveUser(u)
  PROVE  UserMoves
BY DEF saveUser, UserMoves

\* A request that is idle begins with what it has just read.
LEMMA BeginStep ==
  ASSUME SessionsInv, NEW j \in Jobs, NEW w, Begins(j), Step(j, w),
         UNCHANGED <<user, session, personal, authEntry, tick>>, UNCHANGED Locks, UNCHANGED Ghosts,
         TxOk(j, w)
  PROVE  SessionsInv'
<1>1. userLock # j /\ \A i \in Slots : sessLock[i] # j
  BY FreeOf DEF Begins, HoldsUser, HoldsSessions
<1>2. LocksHeld(j, w)
  BY <1>1 DEF LocksHeld
<1> QED BY <1>2, ReadStep

LEMMA SessionFacts ==
  ASSUME SessionsInv
  PROVE  /\ user \in UserRec /\ session \in [Slots -> SessionRec] /\ tick \in Nat
         /\ rotations \in Nat /\ versionAt \in Int /\ personal \in 0..1
         /\ userLock \in Jobs \cup {NobodyS} /\ sessLock \in [Slots -> Jobs \cup {NobodyS}]
         /\ RowsInOrder /\ OneActivePerLogin /\ SessionLimit /\ AuthDated
         /\ \A j \in Jobs : LocksHeld(j, job[j]) /\ TxOk(j, job[j])
BY SessionsAssumption DEF SessionsInv, SessionsShape

LEMMA RegisterKeeps ==
  ASSUME SessionsInv, NEW j \in Jobs, Register(j) \/ ResendVerification(j) \/ RequestPasswordReset(j)
  PROVE  SessionsInv'
<1>1. Begins(j) /\ Step(j, IdleJob) /\ UNCHANGED <<session, personal, authEntry, tick, rotations>>
      /\ UNCHANGED Locks
  BY DEF Register, ResendVerification, RequestPasswordReset, Done, Ghosts
<1>2. userLock # j /\ \A i \in Slots : sessLock[i] # j
  BY <1>1, FreeOf DEF Begins, HoldsUser, HoldsSessions
<1>3. LocksHeld(j, IdleJob)' /\ TxOk(j, IdleJob)'
  BY <1>1, <1>2, EndsOk DEF Locks, IdleJob
<1>4. UserMoves
  <2>1. user \in UserRec /\ User_register(1) \in UserRec
    BY SessionFacts, UserOps
  <2>2. CASE Register(j)
    <3>1. PICK u \in UserRec : saveUser(u)
      BY <2>1, <2>2 DEF Register
    <3> QED BY <3>1, SaveUserMoves
  <2>3. CASE ResendVerification(j) \/ RequestPasswordReset(j)
    BY <2>1, <2>3 DEF ResendVerification, RequestPasswordReset, Ghosts, UserMoves
  <2> QED BY <2>2, <2>3
<1>5. AuthDated'
  BY <1>1, <1>4, AuthKept
<1>6. LocksKept(j) /\ PersonalKept(j)
  BY <1>1, SessionFacts DEF LocksKept, PersonalKept, Locks
<1> QED BY <1>1, <1>3, <1>4, <1>5, <1>6, PlainStep DEF Step

LEMMA VerifyEmailKeeps ==
  ASSUME SessionsInv, NEW j \in Jobs, postVerifyEmail(j)
  PROVE  SessionsInv'
<1> USE SessionFacts
<1>1. ASSUME NEW t \in 1..MaxTok, VerifyEmailReads(j, t) PROVE SessionsInv'
  <2>1. PICK w : w = [pc |-> "verify_save", tok |-> t, u |-> verifyEmail(user)]
    OBVIOUS
  <2>2. w.pc = "verify_save" /\ w.u \in UserRec
    BY <2>1, UserOps
  <2>3. TxOk(j, w)
    BY <2>2 DEF TxOk
  <2> QED BY <1>1, <2>1, <2>3, BeginStep DEF VerifyEmailReads, Rows
<1>2. CASE VerifyEmailSaves(j)
  <2>1. PICK w : w = [pc |-> "verify_accounts", tok |-> job[j].tok, u |-> job[j].u]
    OBVIOUS
  <2>2. w.pc = "verify_accounts" /\ w.u \in UserRec
    BY <1>2, <2>1 DEF VerifyEmailSaves, TxOk, SavesUser
  <2>3. \A i \in Slots : sessLock[i] # j
    BY <1>2, FreeOf DEF VerifyEmailSaves, HoldsSessions
  <2>4. TxOk(j, w)' /\ LocksHeld(j, w)'
    BY <1>2, <2>2, <2>3 DEF VerifyEmailSaves, TxOk, LocksHeld, HoldsUser
  <2>5. UserMoves /\ LocksKept(j) /\ PersonalKept(j)
    BY <1>2, SessionsAssumption
    DEF VerifyEmailSaves, Rows, Ghosts, UserMoves, LocksKept, PersonalKept, lockUser
  <2>6. AuthDated'
    BY <1>2, <2>5, AuthKept DEF VerifyEmailSaves
  <2> QED BY <1>2, <2>1, <2>4, <2>5, <2>6, PlainStep DEF VerifyEmailSaves, Step, Rows, Ghosts
<1>3. CASE VerifyEmailFindsAccounts(j)
  <2>1. PICK w : w = [pc |-> "verify_commit", tok |-> job[j].tok, u |-> job[j].u,
                      first |-> personal = 0]
    OBVIOUS
  <2>2. w.pc = "verify_commit" /\ w.u \in UserRec /\ userLock = j /\ (w.first => personal = 0)
    BY <1>3, <2>1 DEF VerifyEmailFindsAccounts, TxOk, SavesUser
  <2>3. TxOk(j, w)
    BY <2>2 DEF TxOk
  <2>4. \A i \in Slots : sessLock[i] # j
    BY <1>3, FreeOf DEF VerifyEmailFindsAccounts, HoldsSessions
  <2>5. LocksHeld(j, w)
    BY <2>2, <2>4 DEF LocksHeld, HoldsUser
  <2> QED BY <1>3, <2>1, <2>3, <2>5, ReadStep DEF VerifyEmailFindsAccounts, Rows
<1>4. CASE VerifyEmailCommits(j)
  <2>1. job[j].u \in UserRec /\ userLock = j /\ (job[j].first => personal = 0)
    BY <1>4 DEF VerifyEmailCommits, TxOk, SavesUser
  <2>2. UserMoves
    BY <1>4, <2>1, SaveUserMoves DEF VerifyEmailCommits
  <2>3. AuthDated'
    BY <1>4, <2>2, AuthKept DEF VerifyEmailCommits
  <2>4. PersonalKept(j)
    BY <1>4, <2>1 DEF VerifyEmailCommits, PersonalKept
  <2>5. LocksKept(j) /\ LocksHeld(j, IdleJob)' /\ TxOk(j, IdleJob)'
    BY <1>4, UnlockKeeps, EndsOk DEF VerifyEmailCommits, IdleJob
  <2> QED BY <1>4, <2>2, <2>3, <2>4, <2>5, PlainStep DEF VerifyEmailCommits, Step, Done
<1> QED BY <1>1, <1>2, <1>3, <1>4 DEF postVerifyEmail

\* A save of the user alone: a failed login, a profile.
LEMMA SaveAlone ==
  ASSUME SessionsInv, NEW j \in Jobs, LoginFails(j) \/ ProfileSaves(j)
  PROVE  SessionsInv'
<1> USE SessionFacts
<1>1. /\ job[j].pc \in {"login_fail", "profile"} /\ saveUser(job[j].u) /\ Done(j)
      /\ UNCHANGED <<session, personal, authEntry, tick, rotations, userLock, sessLock>>
  BY DEF LoginFails, ProfileSaves, Locks
<1>2. userLock # j /\ \A i \in Slots : sessLock[i] # j
  BY <1>1, FreeOf DEF HoldsUser, HoldsSessions
<1>3. LocksHeld(j, IdleJob)' /\ TxOk(j, IdleJob)'
  BY <1>1, <1>2, EndsOk DEF IdleJob
<1>4. job[j].u \in UserRec
  BY <1>1 DEF TxOk, SavesUser
<1>5. UserMoves
  BY <1>1, <1>4, SaveUserMoves
<1>6. AuthDated'
  BY <1>1, <1>5, AuthKept
<1>7. LocksKept(j) /\ PersonalKept(j)
  BY <1>1 DEF LocksKept, PersonalKept
<1> QED BY <1>1, <1>3, <1>5, <1>6, <1>7, PlainStep DEF Step, Done

\* The session a login picks for eviction is an active one.
LEMMA OldestIsActive ==
  ASSUME SessionsInv, Active # {}
  PROVE  oldestActive \in Active
<1>1. Active \in SUBSET Nat
  BY SessionsAssumption DEF Active, Sids
<1>2. \E x \in Active : \A y \in Active : x =< y
  BY <1>1, HasLeast
<1> QED BY <1>2 DEF oldestActive

LEMMA LoginCountsKeeps ==
  ASSUME SessionsInv, NEW j \in Jobs, LoginCounts(j)
  PROVE  SessionsInv'
<1> USE SessionFacts
<1>1. PICK e : e = IF countActiveByUserId >= MaxSessions THEN oldestActive ELSE 0
  OBVIOUS
<1>2. PICK w : w = [pc |-> "login_commit", u |-> job[j].u, evict |-> e]
  OBVIOUS
<1>3. w.pc = "login_commit" /\ w.u \in UserRec /\ w.evict = e /\ userLock = j
  BY <1>2 DEF LoginCounts, TxOk, SavesUser
<1>4. Cardinality(Active) \in Nat /\ Cardinality({}) = 0
  BY ActiveFinite, FS_EmptySet
<1>5. EvictOk(e) /\ (e # 0 => HasRow(e))
  <2>1. CASE countActiveByUserId >= MaxSessions
    <3>1. Active # {}
      BY <1>4, <2>1, SessionsAssumption DEF countActiveByUserId
    <3>2. e \in Active
      BY <1>1, <2>1, <3>1, OldestIsActive
    <3> QED BY <3>2 DEF EvictOk, HasRow, Active, Sids, Slots
  <2>2. CASE ~(countActiveByUserId >= MaxSessions)
    <3>1. e = 0 /\ Cardinality(Active) < MaxSessions + rotations
      BY <1>1, <1>4, <2>2, SessionsAssumption DEF countActiveByUserId
    <3> QED BY <3>1 DEF EvictOk
  <2> QED BY <2>1, <2>2
<1>6. TxOk(j, w)
  BY <1>3, <1>5 DEF TxOk
<1>7. \A i \in Slots : sessLock[i] # j
  BY FreeOf DEF LoginCounts, HoldsSessions
<1>8. LocksHeld(j, w)
  BY <1>3, <1>7 DEF LocksHeld, HoldsUser
<1> QED BY <1>1, <1>2, <1>6, <1>8, ReadStep DEF LoginCounts, Rows

LEMMA LoginCommitsKeeps ==
  ASSUME SessionsInv, NEW j \in Jobs, LoginCommits(j)
  PROVE  SessionsInv'
<1> USE SessionFacts, SessionsAssumption
<1>1. PICK e : e = job[j].evict
  OBVIOUS
<1>2. /\ job[j].pc = "login_commit" /\ FreshSid =< MaxSid /\ (e # 0 => freeFor(j, {e}))
      /\ saveUser(job[j].u) /\ Done(j) /\ Unlock(j)
      /\ UNCHANGED <<personal, authEntry, tick, rotations>>
      /\ session' = [i \in 1..MaxSid |->
           CASE i = FreshSid -> Session_create(FreshSid)
             [] i = e -> [session[i] EXCEPT !.revokedAt = tick]
             [] OTHER -> session[i]]
  BY <1>1 DEF LoginCommits
<1>3. job[j].u \in UserRec /\ userLock = j /\ EvictOk(e) /\ (e # 0 => HasRow(e))
  BY <1>1, <1>2 DEF TxOk, SavesUser
<1>4. PICK n \in Slots : n = FreshSid /\ session[n] = NoSession
                         /\ \A i \in Slots : session[i] # NoSession => i < n /\ session[i].root \in 1..i
  BY <1>2, FreshRow
<1>5. Session_create(n) \in SessionRec /\ Session_create(n).root = n
  BY DEF Session_create, SessionRec, Unrevoked, Slots
<1>6. \A i \in Slots :
        session'[i] = IF i = n THEN Session_create(n)
                      ELSE IF i = e THEN [session[i] EXCEPT !.revokedAt = tick] ELSE session[i]
  <2>1. ASSUME NEW i \in Slots
        PROVE  session'[i] = CASE i = n -> Session_create(n)
                               [] i = e -> [session[i] EXCEPT !.revokedAt = tick]
                               [] OTHER -> session[i]
    BY <1>2, <1>4, Zenon DEF Slots
  <2>2. e # n
    BY <1>3, <1>4 DEF HasRow, Slots
  <2> QED BY <2>1, <2>2, Zenon
<1>7. session' \in [Slots -> SessionRec]
  <2>1. \A i \in Slots : [session[i] EXCEPT !.revokedAt = tick] \in SessionRec
    BY DEF SessionRec
  <2>2. \A i \in Slots : session'[i] \in SessionRec
    BY <1>5, <1>6, <2>1
  <2>3. session' = [i \in Slots |-> session'[i]]
    BY <1>2 DEF Slots
  <2> QED BY <2>2, <2>3
<1>8. RowAdded(n, n, e)
  <2>1. ASSUME NEW i \in Slots, i # n
        PROVE  /\ session[i] = NoSession <=> session'[i] = NoSession
               /\ session'[i].root = session[i].root
               /\ ~isRevokedS(session'[i]) =>
                    i # e /\ ~isRevokedS(session[i]) /\ session'[i].expiresAt = session[i].expiresAt
    <3>1. CASE i = e
      <4>1. /\ session[i] # NoSession /\ session[i] \in SessionRec
            /\ session'[i] = [session[i] EXCEPT !.revokedAt = tick]
        <5>1. HasRow(i)
          BY <1>3, <3>1 DEF Slots
        <5>2. session'[i] = [session[i] EXCEPT !.revokedAt = tick]
          BY <1>6, <2>1, <3>1, Zenon
        <5> QED BY <5>1, <5>2 DEF HasRow
      <4>2. session'[i].revokedAt = tick /\ session'[i].root = session[i].root
        BY <4>1 DEF SessionRec
      <4> QED BY <4>1, <4>2 DEF isRevokedS, Unrevoked, NoSession
    <3>2. CASE i # e
      BY <1>6, <2>1, <3>2
    <3> QED BY <3>1, <3>2
  <2> QED BY <1>5, <1>6, <2>1 DEF RowAdded
<1>9. /\ RowsInOrder'
      /\ unrevoked' \subseteq (unrevoked \ {e}) \cup {n} /\ unrevoked \subseteq 1..(n - 1)
      /\ Cardinality(Active') \in Nat /\ Cardinality(Active) \in Nat
      /\ Cardinality(Active') =< Cardinality(Active) + 1
      /\ e \in Active => Cardinality(Active') =< Cardinality(Active)
  <2>1. n \in 1..FreshSid /\ RowAdded(FreshSid, n, e)
    BY <1>4, <1>8 DEF Slots
  <2> QED BY <1>2, <1>4, <1>7, <2>1, RowAddedKeeps
<1>10. SessionLimit'
  BY <1>2, <1>3, <1>9, SMTT(60) DEF SessionLimit, EvictOk, countActiveByUserId
<1>11. OneActivePerLogin'
  <2>1. \A i \in unrevoked : i \in Slots /\ session[i] # NoSession
    BY DEF unrevoked, Sids, Slots
  <2>2. \A i \in unrevoked : i # n /\ session'[i].root = session[i].root /\ session'[i].root < n
    BY <1>4, <1>8, <2>1 DEF RowAdded, Slots
  <2>3. session'[n].root = n
    BY <1>5, <1>6
  <2> QED BY <1>9, <2>2, <2>3 DEF OneActivePerLogin
<1>12. RowsKept(j)
  <2>1. ASSUME NEW i \in Slots, session[i] # NoSession
        PROVE  session'[i] # NoSession /\ session'[i].root = session[i].root
    BY <1>4, <1>8, <2>1 DEF RowAdded
  <2>2. ASSUME NEW i \in Slots, sessLock[i] \notin {NobodyS, j}, isValid(session[i])
        PROVE  isValid(session[i])'
    <3>1. i # e
      BY <1>2, <1>3, <2>2 DEF freeFor, Slots
    <3>2. i # n
      BY <1>4, <2>2 DEF isValid, isExpiredS, NoSession
    <3>3. session'[i] = session[i]
      BY <1>6, <3>1, <3>2
    <3> QED BY <1>2, <2>2, <3>3 DEF isValid, isExpiredS, isRevokedS
  <2> QED BY <2>1, <2>2 DEF RowsKept
<1>13. UserMoves
  BY <1>2, <1>3, SaveUserMoves
<1>14. AuthDated'
  BY <1>2, <1>13, AuthKept
<1>15. EvictKept(j) /\ PersonalKept(j)
  BY <1>2, <1>3 DEF EvictKept, PersonalKept
<1>16. LocksKept(j) /\ LocksHeld(j, IdleJob)' /\ TxOk(j, IdleJob)'
  BY <1>2, UnlockKeeps, EndsOk, SMTT(60) DEF IdleJob
<1>17. job' = [job EXCEPT ![j] = IdleJob] /\ rotations' \in Nat
  BY <1>2 DEF Done, Step
<1> QED BY <1>2, <1>7, <1>9, <1>10, <1>11, <1>12, <1>13, <1>14, <1>15, <1>16, <1>17, StepKeeps

LEMMA LoginKeeps ==
  ASSUME SessionsInv, NEW j \in Jobs, postLogin(j)
  PROVE  SessionsInv'
<1> USE SessionFacts
<1>1. ASSUME NEW pw, LoginReads(j, pw) PROVE SessionsInv'
  <2>1. PICK w : w = IF pw = user.password
                     THEN [pc |-> "login_save", u |-> resetLoginAttempts(user)]
                     ELSE [pc |-> "login_fail", u |-> recordFailedLoginAttempt(user)]
    OBVIOUS
  <2>2. w.pc \in {"login_save", "login_fail"} /\ w.u \in UserRec
    BY <2>1, UserOps
  <2>3. TxOk(j, w)
    BY <2>2 DEF TxOk
  <2>4. Step(j, w)
    BY <1>1, <2>1 DEF LoginReads
  <2> QED BY <1>1, <2>3, <2>4, BeginStep DEF LoginReads, Rows
<1>2. CASE LoginSaves(j)
  <2>1. PICK w : w = [pc |-> "login_count", u |-> job[j].u]
    OBVIOUS
  <2>2. w.pc = "login_count" /\ w.u \in UserRec
    BY <1>2, <2>1 DEF LoginSaves, TxOk, SavesUser
  <2>3. \A i \in Slots : sessLock[i] # j
    BY <1>2, FreeOf DEF LoginSaves, HoldsSessions
  <2>4. TxOk(j, w)' /\ LocksHeld(j, w)'
    BY <1>2, <2>2, <2>3 DEF LoginSaves, TxOk, LocksHeld, HoldsUser
  <2>5. UserMoves /\ LocksKept(j) /\ PersonalKept(j)
    BY <1>2, SessionsAssumption
    DEF LoginSaves, Rows, Ghosts, UserMoves, LocksKept, PersonalKept, lockUser
  <2>6. AuthDated'
    BY <1>2, <2>5, AuthKept DEF LoginSaves
  <2> QED BY <1>2, <2>1, <2>4, <2>5, <2>6, PlainStep DEF LoginSaves, Step, Rows, Ghosts
<1> QED BY <1>1, <1>2, SaveAlone, LoginCountsKeeps, LoginCommitsKeeps DEF postLogin

\* A session row with one column changed.
LEMMA SessionField ==
  ASSUME NEW s \in SessionRec
  PROVE  /\ \A x \in Int : /\ [s EXCEPT !.revokedAt = x] \in SessionRec
                           /\ [s EXCEPT !.revokedAt = x].revokedAt = x
                           /\ [s EXCEPT !.revokedAt = x].root = s.root
                           /\ [s EXCEPT !.revokedAt = x].expiresAt = s.expiresAt
         /\ \A x \in 0..MaxSid : /\ [s EXCEPT !.replacedBy = x] \in SessionRec
                                 /\ [s EXCEPT !.replacedBy = x].revokedAt = s.revokedAt
                                 /\ [s EXCEPT !.replacedBy = x].root = s.root
                                 /\ [s EXCEPT !.replacedBy = x].expiresAt = s.expiresAt
         /\ \A x \in BOOLEAN : /\ [s EXCEPT !.cipher = x] \in SessionRec
                               /\ [s EXCEPT !.cipher = x].revokedAt = s.revokedAt
                               /\ [s EXCEPT !.cipher = x].root = s.root
                               /\ [s EXCEPT !.cipher = x].expiresAt = s.expiresAt
<1>1. ASSUME NEW x \in Int
      PROVE  /\ [s EXCEPT !.revokedAt = x] \in SessionRec
             /\ [s EXCEPT !.revokedAt = x].revokedAt = x
             /\ [s EXCEPT !.revokedAt = x].root = s.root
             /\ [s EXCEPT !.revokedAt = x].expiresAt = s.expiresAt
  BY DEF SessionRec
<1>2. ASSUME NEW x \in 0..MaxSid
      PROVE  /\ [s EXCEPT !.replacedBy = x] \in SessionRec
             /\ [s EXCEPT !.replacedBy = x].revokedAt = s.revokedAt
             /\ [s EXCEPT !.replacedBy = x].root = s.root
             /\ [s EXCEPT !.replacedBy = x].expiresAt = s.expiresAt
  BY DEF SessionRec
<1>3. ASSUME NEW x \in BOOLEAN
      PROVE  /\ [s EXCEPT !.cipher = x] \in SessionRec
             /\ [s EXCEPT !.cipher = x].revokedAt = s.revokedAt
             /\ [s EXCEPT !.cipher = x].root = s.root
             /\ [s EXCEPT !.cipher = x].expiresAt = s.expiresAt
  BY DEF SessionRec
<1> QED BY <1>1, <1>2, <1>3

\* A row that is absent stays so when its cipher is cleared.
LEMMA NoSessionRow ==
  /\ [NoSession EXCEPT !.cipher = FALSE] = NoSession /\ NoSession.root = 0
  /\ NoSession.revokedAt = Unrevoked /\ NoSession.expiresAt = 0
<1>1. /\ NoSession.root = 0 /\ NoSession.revokedAt = Unrevoked /\ NoSession.expiresAt = 0
  BY DEF NoSession, Unrevoked
<1>2. PICK s : s = NoSession
  OBVIOUS
<1>3. s.cipher = FALSE /\ s = [x \in DOMAIN s |-> s[x]]
  BY <1>2, Zenon DEF NoSession
<1>4. [s EXCEPT !.cipher = s.cipher] = s
  BY <1>3
<1> QED BY <1>1, <1>2, <1>3, <1>4

\* Revoking everything: the rows given, whose ciphers go with all others.
LEMMA RevokeRowsShrinks ==
  ASSUME SessionsInv, NEW j \in Jobs, NEW ids, \A i \in ids : HasRow(i), freeFor(j, ids),
         session' = revokeRows(ids)
  PROVE  /\ session' \in [Slots -> SessionRec] /\ RowsShrink
         /\ \A i \in Slots : sessLock[i] \in {NobodyS, j} \/
                             /\ session'[i].revokedAt = session[i].revokedAt
                             /\ session'[i].expiresAt = session[i].expiresAt
<1> USE SessionFacts
<1>1. PICK n \in 0..MaxSid :
        /\ \A i \in 1..n : session[i].root \in 1..i
        /\ \A i \in (n + 1)..MaxSid : session[i] = NoSession
  BY DEF RowsInOrder
<1>2. \A i \in Slots : session[i] # NoSession => session[i].root # 0
  BY <1>1, SessionsAssumption DEF Slots
<1>3. ASSUME NEW i \in Slots
      PROVE  /\ session'[i] \in SessionRec
             /\ session[i] = NoSession <=> session'[i] = NoSession
             /\ session'[i].root = session[i].root
             /\ session'[i].expiresAt = session[i].expiresAt
             /\ ~isRevokedS(session'[i]) => ~isRevokedS(session[i])
             /\ sessLock[i] \in {NobodyS, j} \/ session'[i].revokedAt = session[i].revokedAt
  <2>1. PICK s \in SessionRec : s = session[i]
    OBVIOUS
  <2>2. CASE i \in ids /\ ~isRevokedS(session[i])
    <3>1. session'[i] = [[s EXCEPT !.revokedAt = tick] EXCEPT !.cipher = FALSE]
      BY <2>1, <2>2 DEF revokeRows, revokeS, Slots
    <3>2. PICK v \in SessionRec : /\ v = [s EXCEPT !.revokedAt = tick] /\ v.revokedAt = tick
                                  /\ v.root = s.root /\ v.expiresAt = s.expiresAt
      <4>1. tick \in Int
        OBVIOUS
      <4> QED BY <4>1, SessionField, ZenonT(60)
    <3>3. session'[i] \in SessionRec /\ session'[i].revokedAt = tick
          /\ session'[i].root = s.root /\ session'[i].expiresAt = s.expiresAt
      BY <3>1, <3>2, SessionField
    <3>4. session[i] # NoSession /\ session'[i] # NoSession
      BY <1>2, <2>1, <2>2, <3>3, NoSessionRow DEF HasRow
    <3> QED BY <2>1, <2>2, <3>3, <3>4 DEF isRevokedS, Unrevoked, freeFor
  <2>3. CASE ~(i \in ids /\ ~isRevokedS(session[i]))
    <3>1. session'[i] = [s EXCEPT !.cipher = FALSE]
      BY <2>1, <2>3 DEF revokeRows, Slots
    <3>2. session'[i] \in SessionRec /\ session'[i].revokedAt = s.revokedAt
          /\ session'[i].root = s.root /\ session'[i].expiresAt = s.expiresAt
      BY <3>1, SessionField
    <3>3. session[i] = NoSession <=> session'[i] = NoSession
      BY <1>2, <2>1, <3>1, <3>2, NoSessionRow, ZenonT(60)
    <3> QED BY <2>1, <3>2, <3>3 DEF isRevokedS
  <2> QED BY <2>2, <2>3
<1>4. session' \in [Slots -> SessionRec]
  <2>1. session' = [i \in Slots |-> session'[i]]
    BY DEF revokeRows, Slots
  <2> QED BY <1>3, <2>1
<1> QED BY <1>3, <1>4 DEF RowsShrink

LEMMA RefreshReadsKeeps ==
  ASSUME SessionsInv, NEW j \in Jobs, NEW i \in Sids, RefreshRotates(j, i) \/ RefreshReused(j, i)
  PROVE  SessionsInv'
<1> USE SessionFacts
<1>1. CASE RefreshRotates(j, i)
  <2>1. PICK w : w = [pc |-> "rotate", sid |-> i]
    OBVIOUS
  <2>2. /\ w.pc = "rotate" /\ w.sid = i /\ i \in Slots /\ session[i] # NoSession
        /\ sessLock' = [sessLock EXCEPT ![i] = j] /\ isValid(session[i])
        /\ sessLock[i] \in {NobodyS, j} /\ Begins(j) /\ Step(j, w)
        /\ UNCHANGED <<user, session, personal, authEntry, tick, rotations, versionAt, userLock>>
    BY <1>1, <2>1 DEF RefreshRotates, findByTokenHashForUpdate, freeFor, Sids, Slots, Rows, Ghosts
  <2>3. userLock # j
    BY <2>2, FreeOf DEF Begins, HoldsUser
  <2>4. LocksHeld(j, w)'
    BY <2>2, <2>3 DEF LocksHeld, HoldsSessions
  <2>5. TxOk(j, w)'
    <3>1. HasRow(w.sid)' /\ isValid(session[w.sid])' /\ sessLock'[w.sid] = j
      BY <2>2 DEF HasRow, isValid, isExpiredS, isRevokedS
    <3> QED BY <2>2, <3>1 DEF TxOk, SavesUser
  <2>6. UserMoves /\ LocksKept(j) /\ PersonalKept(j)
    BY <2>2, SessionsAssumption DEF UserMoves, LocksKept, PersonalKept
  <2>7. AuthDated'
    BY <2>2, <2>6, AuthKept
  <2> QED BY <2>2, <2>4, <2>5, <2>6, <2>7, PlainStep DEF Step
<1>2. CASE RefreshReused(j, i)
  <2>1. PICK w : w = [pc |-> "revoke_all", op |-> "reuse", tok |-> 0, u |-> NoUser]
    OBVIOUS
  <2>2. w.pc = "revoke_all" /\ w.u \in UserRec
    BY <2>1, UserOps
  <2>3. TxOk(j, w)
    BY <2>2 DEF TxOk
  <2> QED BY <1>2, <2>1, <2>3, BeginStep DEF RefreshReused, Rows
<1> QED BY <1>1, <1>2

LEMMA RefreshCommitsKeeps ==
  ASSUME SessionsInv, NEW j \in Jobs, RefreshCommits(j)
  PROVE  SessionsInv'
<1> USE SessionFacts, SessionsAssumption
<1>1. PICK x : x = job[j].sid
  OBVIOUS
<1>2. /\ job[j].pc = "rotate" /\ FreshSid =< MaxSid
      /\ Done(j) /\ Unlock(j) /\ rotations' = rotations + 1
      /\ UNCHANGED <<user, personal, authEntry, tick, versionAt>>
      /\ session' = [k \in 1..MaxSid |->
           CASE k = FreshSid -> Session_create(session[x].root)
             [] k = x -> [revokeS(session[x]) EXCEPT !.replacedBy = FreshSid, !.cipher = TRUE]
             [] OTHER -> purgeRotationCiphers(session[k])]
  BY <1>1 DEF RefreshCommits
<1>3. x \in Slots /\ session[x] # NoSession /\ isValid(session[x]) /\ sessLock[x] = j
  BY <1>1, <1>2 DEF TxOk, HasRow
<1>4. PICK n \in Slots : n = FreshSid /\ session[n] = NoSession
                         /\ \A i \in Slots : session[i] # NoSession => i < n /\ session[i].root \in 1..i
  BY <1>2, FreshRow
<1>5. PICK r \in Nat : r = session[x].root /\ r \in 1..n
  BY <1>3, <1>4 DEF Slots
<1>6. Session_create(r) \in SessionRec /\ Session_create(r).root = r
  BY DEF Session_create, SessionRec, Unrevoked
<1>7. PICK s \in SessionRec : s = session[x]
  BY <1>3
<1>8. PICK o \in SessionRec :
        /\ o = [revokeS(s) EXCEPT !.replacedBy = n, !.cipher = TRUE]
        /\ o.revokedAt = tick /\ o.root = r
  <2>1. revokeS(s) = [s EXCEPT !.revokedAt = tick]
    BY <1>3, <1>7 DEF revokeS, isValid
  <2>2. tick \in Int /\ n \in 0..MaxSid
    BY DEF Slots
  <2>3. PICK a \in SessionRec : a = [s EXCEPT !.revokedAt = tick] /\ a.revokedAt = tick /\ a.root = r
    <3>1. \A y \in Int : /\ [s EXCEPT !.revokedAt = y] \in SessionRec
                          /\ [s EXCEPT !.revokedAt = y].revokedAt = y
                          /\ [s EXCEPT !.revokedAt = y].root = s.root
      BY SessionField
    <3>2. s.root = r
      BY <1>5, <1>7
    <3>3. PICK y \in Int : y = tick
      BY <2>2
    <3> QED BY <3>1, <3>2, <3>3
  <2>4. PICK b \in SessionRec : b = [a EXCEPT !.replacedBy = n] /\ b.revokedAt = tick /\ b.root = r
    <3>1. \A y \in 0..MaxSid : /\ [a EXCEPT !.replacedBy = y] \in SessionRec
                                /\ [a EXCEPT !.replacedBy = y].revokedAt = a.revokedAt
                                /\ [a EXCEPT !.replacedBy = y].root = a.root
      BY SessionField
    <3> QED BY <2>2, <2>3, <3>1, Zenon
  <2>5. /\ [b EXCEPT !.cipher = TRUE] \in SessionRec
        /\ [b EXCEPT !.cipher = TRUE].revokedAt = tick /\ [b EXCEPT !.cipher = TRUE].root = r
    BY <2>4, SessionField
  <2>6. [revokeS(s) EXCEPT !.replacedBy = n, !.cipher = TRUE] = [b EXCEPT !.cipher = TRUE]
    BY <2>1, <2>3, <2>4
  <2> QED BY <2>5, <2>6
<1>9. x # n
  BY <1>3, <1>4
<1>10. \A i \in Slots : session'[i] = IF i = n THEN Session_create(r)
                                      ELSE IF i = x THEN o ELSE purgeRotationCiphers(session[i])
  <2>1. ASSUME NEW i \in Slots
        PROVE  session'[i] = CASE i = n -> Session_create(r)
                               [] i = x -> o
                               [] OTHER -> purgeRotationCiphers(session[i])
    BY <1>2, <1>4, <1>5, <1>7, <1>8, Zenon DEF Slots
  <2> QED BY <1>9, <2>1, Zenon
<1>11. ASSUME NEW i \in Slots
       PROVE  /\ purgeRotationCiphers(session[i]) \in SessionRec
              /\ purgeRotationCiphers(session[i]).root = session[i].root
              /\ purgeRotationCiphers(session[i]).revokedAt = session[i].revokedAt
              /\ purgeRotationCiphers(session[i]).expiresAt = session[i].expiresAt
              /\ session[i] = NoSession => purgeRotationCiphers(session[i]) = NoSession
  <2>1. PICK c \in SessionRec : c = session[i]
    BY <1>11
  <2>2. purgeRotationCiphers(c) = c \/ purgeRotationCiphers(c) = [c EXCEPT !.cipher = FALSE]
    BY DEF purgeRotationCiphers
  <2> QED BY <2>1, <2>2, SessionField, NoSessionRow
<1>12. session' \in [Slots -> SessionRec]
  <2>1. \A i \in Slots : session'[i] \in SessionRec
    BY <1>6, <1>8, <1>10, <1>11
  <2>2. session' = [i \in Slots |-> session'[i]]
    BY <1>2 DEF Slots
  <2> QED BY <2>1, <2>2
<1>13. RowAdded(n, r, x)
  <2>1. ASSUME NEW i \in Slots, i # n
        PROVE  /\ session[i] = NoSession <=> session'[i] = NoSession
               /\ session'[i].root = session[i].root
               /\ ~isRevokedS(session'[i]) =>
                    i # x /\ ~isRevokedS(session[i]) /\ session'[i].expiresAt = session[i].expiresAt
    <3>1. CASE i = x
      <4>1. session'[i] = o
        BY <1>10, <2>1, <3>1
      <4>2. session[i] # NoSession /\ o # NoSession
        <5>1. o.root # NoSession.root
          BY <1>5, <1>8, NoSessionRow
        <5> QED BY <1>3, <3>1, <5>1
      <4> QED BY <1>5, <1>8, <3>1, <4>1, <4>2 DEF isRevokedS, Unrevoked
    <3>2. CASE i # x
      <4>1. session'[i] = purgeRotationCiphers(session[i])
        BY <1>10, <2>1, <3>2
      <4>2. session'[i] = NoSession => session[i] = NoSession
        <5>1. session[i] # NoSession => session'[i].root # 0
          BY <1>4, <1>11, <4>1 DEF Slots
        <5> QED BY <5>1, NoSessionRow
      <4> QED BY <1>11, <3>2, <4>1, <4>2 DEF isRevokedS
    <3> QED BY <3>1, <3>2
  <2> QED BY <1>6, <1>10, <2>1 DEF RowAdded
<1>14. /\ RowsInOrder'
       /\ unrevoked' \subseteq (unrevoked \ {x}) \cup {n} /\ unrevoked \subseteq 1..(n - 1)
       /\ Cardinality(Active') \in Nat /\ Cardinality(Active) \in Nat
       /\ x \in Active => Cardinality(Active') =< Cardinality(Active)
  <2>1. r \in 1..FreshSid /\ RowAdded(FreshSid, r, x)
    BY <1>4, <1>5, <1>13
  <2> QED BY <1>2, <1>4, <1>12, <2>1, RowAddedKeeps
<1>15. x \in Active /\ x \in unrevoked
  BY <1>3 DEF Active, unrevoked, Sids, Slots, isValid
<1>16. SessionLimit' /\ \A e : EvictOk(e)'
  <2>1. Cardinality(Active) =< MaxSessions + rotations
    BY DEF SessionLimit, countActiveByUserId
  <2>2. PICK c \in Nat, d \in Nat : c = Cardinality(Active') /\ d = Cardinality(Active)
    BY <1>14
  <2>3. c < MaxSessions + rotations'
    <3>1. c =< d /\ d =< MaxSessions + rotations
      BY <1>14, <1>15, <2>1, <2>2
    <3>2. rotations' = rotations + 1
      BY <1>2
    <3> QED BY <3>1, <3>2
  <2>4. c =< MaxSessions + rotations'
    BY <1>2, <2>3, SMTT(60)
  <2>5. SessionLimit'
    BY <2>2, <2>4 DEF SessionLimit, countActiveByUserId
  <2>6. ASSUME NEW e PROVE EvictOk(e)'
    BY <2>2, <2>3 DEF EvictOk
  <2> QED BY <2>5, <2>6
<1>17. OneActivePerLogin'
  <2>1. \A i \in unrevoked : i \in Slots /\ i # n
    BY <1>14 DEF unrevoked, Sids, Slots
  <2>2. \A i \in unrevoked : session'[i].root = session[i].root
    BY <1>13, <2>1 DEF RowAdded
  <2>3. session'[n].root = session[x].root
    BY <1>5, <1>6, <1>10
  <2>4. \A i \in unrevoked \ {x} : session[i].root # session[x].root
    BY <1>15 DEF OneActivePerLogin
  <2>5. \A i, k \in unrevoked : session[i].root = session[k].root => i = k
    BY DEF OneActivePerLogin
  <2> QED BY <1>14, <2>2, <2>3, <2>4, <2>5 DEF OneActivePerLogin
<1>18. RowsKept(j)
  <2>1. ASSUME NEW i \in Slots, session[i] # NoSession
        PROVE  session'[i] # NoSession /\ session'[i].root = session[i].root
    BY <1>4, <1>13, <2>1 DEF RowAdded
  <2>2. ASSUME NEW i \in Slots, sessLock[i] \notin {NobodyS, j}, isValid(session[i])
        PROVE  isValid(session[i])'
    <3>1. i # x
      BY <1>3, <2>2
    <3>2. i # n
      BY <1>4, <2>2, NoSessionRow DEF isValid, isExpiredS
    <3>3. session'[i] = purgeRotationCiphers(session[i])
      BY <1>10, <3>1, <3>2
    <3> QED BY <1>2, <1>11, <2>2, <3>3 DEF isValid, isExpiredS, isRevokedS
  <2> QED BY <2>1, <2>2 DEF RowsKept
<1>19. UserMoves /\ EvictKept(j) /\ PersonalKept(j)
  BY <1>2, <1>16 DEF UserMoves, EvictKept, PersonalKept
<1>20. AuthDated'
  BY <1>2, <1>19, AuthKept
<1>21. LocksKept(j) /\ LocksHeld(j, IdleJob)' /\ TxOk(j, IdleJob)'
  BY <1>2, UnlockKeeps, EndsOk, SMTT(60) DEF IdleJob
<1>22. job' = [job EXCEPT ![j] = IdleJob] /\ rotations' \in Nat
  BY <1>2 DEF Done, Step
<1> QED BY <1>2, <1>12, <1>14, <1>16, <1>17, <1>18, <1>19, <1>20, <1>21, <1>22, StepKeeps

LEMMA LogoutKeeps ==
  ASSUME SessionsInv, NEW j \in Jobs, postLogoutOne(j)
  PROVE  SessionsInv'
<1> USE SessionFacts
<1>1. ASSUME NEW i \in Sids, LogoutReads(j, i) PROVE SessionsInv'
  <2>1. PICK s \in SessionRec : s = session[i] /\ i \in Slots /\ s # NoSession
    BY DEF Sids, Slots
  <2>2. PICK d \in SessionRec : d = revokeS(s) /\ isRevokedS(d) /\ d.root = s.root
    <3>1. \A y \in Int : /\ [s EXCEPT !.revokedAt = y] \in SessionRec
                          /\ [s EXCEPT !.revokedAt = y].revokedAt = y
                          /\ [s EXCEPT !.revokedAt = y].root = s.root
      BY SessionField
    <3>2. PICK y \in Int : y = tick /\ y # Unrevoked
      BY DEF Unrevoked
    <3>3. revokeS(s) = [s EXCEPT !.revokedAt = y]
      BY <1>1, <2>1, <3>2 DEF LogoutReads, revokeS
    <3> QED BY <3>1, <3>2, <3>3 DEF isRevokedS
  <2>3. PICK w : w = [pc |-> "logout_save", sid |-> i, s |-> d]
    OBVIOUS
  <2>4. w.pc = "logout_save" /\ w.sid = i /\ w.s = d
    BY <2>3
  <2>5. LogoutOk(w)
    BY <2>1, <2>2, <2>4 DEF LogoutOk, HasRow
  <2>6. TxOk(j, w)
    BY <2>4, <2>5 DEF TxOk, SavesUser
  <2>7. Step(j, w)
    BY <1>1, <2>1, <2>2, <2>3 DEF LogoutReads
  <2> QED BY <1>1, <2>6, <2>7, BeginStep DEF LogoutReads, Rows
<1>2. CASE LogoutSaves(j)
  <2>1. PICK w : w = [pc |-> "logout_commit", sid |-> job[j].sid, s |-> job[j].s,
                      u |-> incrementTokenVersion(user)]
    OBVIOUS
  <2>2. /\ w.pc = "logout_commit" /\ w.sid = job[j].sid /\ w.s = job[j].s /\ w.u \in UserRec
    BY <2>1, UserOps
  <2>3. LogoutOk(job[j])
    BY <1>2 DEF LogoutSaves, TxOk
  <2>4. LogoutOk(w) /\ w.sid \in Slots
    BY <2>2, <2>3 DEF LogoutOk, HasRow
  <2>5. /\ sessLock' = [sessLock EXCEPT ![w.sid] = j] /\ sessLock[w.sid] \in {NobodyS, j}
        /\ Step(j, w)
        /\ UNCHANGED <<user, session, personal, authEntry, tick, rotations, versionAt, userLock>>
    BY <1>2, <2>1, <2>2 DEF LogoutSaves, freeFor, Rows, Ghosts
  <2>6. userLock # j
    BY <1>2, FreeOf DEF LogoutSaves, HoldsUser
  <2>7. LocksHeld(j, w)'
    BY <2>2, <2>5, <2>6 DEF LocksHeld, HoldsSessions
  <2>8. LogoutOk(w)' /\ sessLock'[w.sid] = j
    BY <2>4, <2>5 DEF LogoutOk, HasRow, isRevokedS
  <2>9. TxOk(j, w)'
    BY <2>2, <2>8 DEF TxOk
  <2>10. UserMoves /\ LocksKept(j) /\ PersonalKept(j)
    BY <2>4, <2>5, SessionsAssumption DEF UserMoves, LocksKept, PersonalKept
  <2>11. AuthDated'
    BY <2>5, <2>10, AuthKept
  <2> QED BY <2>5, <2>7, <2>9, <2>10, <2>11, PlainStep DEF Step
<1>3. CASE LogoutCommits(j)
  <2>1. PICK w : w = job[j]
    OBVIOUS
  <2>2. w.u \in UserRec /\ LogoutOk(w) /\ sessLock[w.sid] = j
    BY <1>3, <2>1 DEF LogoutCommits, TxOk, SavesUser
  <2>3. PICK d : d = [pc |-> "invalidate"]
    OBVIOUS
  <2>4. /\ session' = [session EXCEPT ![w.sid] = w.s] /\ saveUser(w.u) /\ Step(j, d) /\ Unlock(j)
        /\ UNCHANGED <<personal, authEntry, tick, rotations>>
    BY <1>3, <2>1, <2>3 DEF LogoutCommits
  <2>5. session' \in [Slots -> SessionRec]
    BY <2>2, <2>4 DEF LogoutOk, HasRow
  <2>6. RowsShrink
    <3>1. ASSUME NEW i \in Slots, i # w.sid PROVE session'[i] = session[i]
      BY <2>4, <3>1
    <3>2. /\ session'[w.sid] = w.s /\ isRevokedS(w.s) /\ w.s.root = session[w.sid].root
          /\ session[w.sid] # NoSession
      BY <2>2, <2>4 DEF LogoutOk, HasRow
    <3>3. w.s # NoSession
      BY <3>2, NoSessionRow DEF isRevokedS
    <3> QED BY <3>1, <3>2, <3>3 DEF RowsShrink
  <2>7. \A i \in Slots : sessLock[i] \in {NobodyS, j} \/
                         /\ session'[i].revokedAt = session[i].revokedAt
                         /\ session'[i].expiresAt = session[i].expiresAt
    BY <2>2, <2>4
  <2>8. UserMoves
    BY <2>2, <2>4, SaveUserMoves
  <2>9. AuthDated' /\ PersonalKept(j)
    BY <2>4, <2>8, AuthKept DEF PersonalKept
  <2>10. LocksKept(j) /\ LocksHeld(j, d)' /\ TxOk(j, d)'
    BY <2>3, <2>4, UnlockKeeps, EndsOk
  <2>11. job' = [job EXCEPT ![j] = d]
    BY <2>4 DEF Step
  <2> QED BY <2>4, <2>5, <2>6, <2>7, <2>8, <2>9, <2>10, <2>11, ShrinkStep
<1> QED BY <1>1, <1>2, <1>3 DEF postLogoutOne

\* The requests that begin a revocation of everything, and the profile.
LEMMA RevocationBegins ==
  ASSUME SessionsInv, NEW j \in Jobs,
         LogoutAll(j) \/ postResetPassword(j) \/ ProfileReads(j) \/ AuthStateLoads(j)
  PROVE  SessionsInv'
<1> USE SessionFacts
<1>1. CASE LogoutAll(j)
  <2>1. PICK w : w = [pc |-> "revoke_all", op |-> "logout", tok |-> 0, u |-> NoUser]
    OBVIOUS
  <2>2. w.pc = "revoke_all" /\ w.u \in UserRec
    BY <2>1, UserOps
  <2>3. TxOk(j, w)
    BY <2>2 DEF TxOk
  <2> QED BY <1>1, <2>1, <2>3, BeginStep DEF LogoutAll, Rows
<1>2. ASSUME NEW t \in 1..MaxTok, ResetPassword(j, t) PROVE SessionsInv'
  <2>1. PICK w : w = [pc |-> "revoke_all", op |-> "reset", tok |-> t,
                      u |-> resetPassword(user, user.password + 1)]
    OBVIOUS
  <2>2. w.pc = "revoke_all" /\ w.u \in UserRec
    BY <2>1, UserOps
  <2>3. TxOk(j, w)
    BY <2>2 DEF TxOk
  <2> QED BY <1>2, <2>1, <2>3, BeginStep DEF ResetPassword, Rows
<1>3. CASE ProfileReads(j)
  <2>1. PICK w : w = [pc |-> "profile", u |-> user]
    OBVIOUS
  <2>2. w.pc = "profile" /\ w.u \in UserRec
    BY <2>1
  <2>3. TxOk(j, w)
    BY <2>2 DEF TxOk
  <2> QED BY <1>3, <2>1, <2>3, BeginStep DEF ProfileReads, Rows
<1>4. CASE AuthStateLoads(j)
  <2>1. PICK w : w = [pc |-> "auth", version |-> user.version]
    OBVIOUS
  <2>2. w.pc = "auth" /\ w.version \in Nat /\ w.version = user.version
    BY <2>1 DEF UserRec
  <2>3. TxOk(j, w)
    BY <2>2 DEF TxOk, SavesUser, VersionSince
  <2> QED BY <1>4, <2>1, <2>3, BeginStep DEF AuthStateLoads, Rows
<1> QED BY <1>1, <1>2, <1>3, <1>4 DEF postResetPassword

LEMMA ChangePasswordKeeps ==
  ASSUME SessionsInv, NEW j \in Jobs, ChangePassword(j)
  PROVE  SessionsInv'
<1> USE SessionFacts
<1>1. PICK w : w = [pc |-> "revoke_all", op |-> "change", tok |-> 0,
                    u |-> resetPassword(user, user.password + 1)]
  OBVIOUS
<1>2. w.pc = "revoke_all" /\ w.op = "change" /\ w.u \in UserRec
  BY <1>1, UserOps
<1>3. /\ Begins(j) /\ userLock \in {NobodyS, j} /\ userLock' = j /\ Step(j, w)
      /\ UNCHANGED <<user, session, personal, authEntry, tick, rotations, versionAt, sessLock>>
  BY <1>1 DEF ChangePassword, lockUser, Rows, Ghosts
<1>4. \A i \in Slots : sessLock[i] # j
  BY <1>3, FreeOf DEF Begins, HoldsSessions
<1>5. TxOk(j, w)' /\ LocksHeld(j, w)'
  BY <1>2, <1>3, <1>4 DEF TxOk, LocksHeld, HoldsUser
<1>6. UserMoves /\ LocksKept(j) /\ PersonalKept(j)
  BY <1>3, SessionsAssumption DEF UserMoves, LocksKept, PersonalKept
<1>7. AuthDated'
  BY <1>3, <1>6, AuthKept
<1> QED BY <1>3, <1>5, <1>6, <1>7, PlainStep DEF Step

LEMMA RevokeAllKeeps ==
  ASSUME SessionsInv, NEW j \in Jobs, revokeAllByUserId(j) \/ ReuseRevokes(j)
  PROVE  SessionsInv'
<1> USE SessionFacts
<1>0. PICK v : v = job[j] /\ LocksHeld(j, v) /\ TxOk(j, v)
  OBVIOUS
<1>1. CASE RevokeAllStarts(j)
  <2>1. PICK w : w = [pc |-> "revoke_wait", op |-> v.op, tok |-> v.tok, u |-> v.u,
                      ids |-> unrevoked]
    OBVIOUS
  <2>2. /\ v.pc = "revoke_all" /\ w.pc = "revoke_wait" /\ w.op = v.op /\ w.ids = unrevoked
        /\ w.u \in UserRec
    BY <1>0, <1>1, <2>1 DEF RevokeAllStarts, TxOk, SavesUser
  <2>3. \A i \in unrevoked : HasRow(i)
    BY DEF unrevoked, HasRow, Sids, Slots
  <2>4. TxOk(j, w)
    BY <2>2, <2>3 DEF TxOk
  <2>5. LocksHeld(j, w)
    BY <1>0, <2>2 DEF LocksHeld, HoldsUser, HoldsSessions
  <2> QED BY <1>0, <1>1, <2>1, <2>4, <2>5, ReadStep DEF RevokeAllStarts, Rows
<1>2. CASE RevokeAllLocks(j)
  <2>1. PICK w : w = [pc |-> "revoke_commit", op |-> v.op, tok |-> v.tok,
                      u |-> IF v.op = "logout" THEN incrementTokenVersion(user) ELSE v.u,
                      ids |-> v.ids]
    OBVIOUS
  <2>2. /\ v.pc = "revoke_wait" /\ w.pc = "revoke_commit" /\ w.op = v.op /\ w.ids = v.ids
        /\ w.u \in UserRec
    BY <1>0, <1>2, <2>1, UserOps DEF RevokeAllLocks, TxOk, SavesUser
  <2>3. \A i \in v.ids : HasRow(i) /\ i \in Slots
    BY <1>0, <2>2 DEF TxOk, HasRow
  <2>4. /\ sessLock' = [i \in 1..MaxSid |-> IF i \in v.ids THEN j ELSE sessLock[i]]
        /\ \A i \in v.ids : sessLock[i] \in {NobodyS, j}
        /\ Step(j, w)
        /\ UNCHANGED <<user, session, personal, authEntry, tick, rotations, versionAt, userLock>>
    BY <1>0, <1>2, <2>1 DEF RevokeAllLocks, freeFor, Rows, Ghosts
  <2>5. TxOk(j, w)'
    <3>1. \A i \in v.ids : HasRow(i)' /\ sessLock'[i] = j
      BY <2>3, <2>4 DEF HasRow, Slots
    <3> QED BY <2>2, <3>1 DEF TxOk
  <2>6. LocksHeld(j, w)'
    BY <1>0, <2>2, <2>4 DEF LocksHeld, HoldsUser, HoldsSessions
  <2>7. UserMoves /\ LocksKept(j) /\ PersonalKept(j)
    BY <2>3, <2>4, SessionsAssumption DEF UserMoves, LocksKept, PersonalKept, Slots
  <2>8. AuthDated'
    BY <2>4, <2>7, AuthKept
  <2> QED BY <2>4, <2>5, <2>6, <2>7, <2>8, PlainStep DEF Step
<1>3. CASE ReuseRevokes(j)
  <2>1. /\ v.pc = "revoke_wait" /\ v.op = "reuse" /\ freeFor(j, v.ids) /\ session' = revokeRows(v.ids)
        /\ Done(j)
        /\ UNCHANGED <<user, personal, authEntry, tick, rotations, versionAt, userLock, sessLock>>
    BY <1>0, <1>3 DEF ReuseRevokes, Locks, Ghosts
  <2>2. \A i \in v.ids : HasRow(i)
    BY <1>0, <2>1 DEF TxOk
  <2>3. /\ session' \in [Slots -> SessionRec] /\ RowsShrink
        /\ \A i \in Slots : sessLock[i] \in {NobodyS, j} \/
                            /\ session'[i].revokedAt = session[i].revokedAt
                            /\ session'[i].expiresAt = session[i].expiresAt
    BY <2>1, <2>2, RevokeRowsShrinks
  <2>4. userLock # j /\ \A i \in Slots : sessLock[i] # j
    BY <1>0, <2>1 DEF LocksHeld, HoldsUser, HoldsSessions
  <2>5. LocksHeld(j, IdleJob)' /\ TxOk(j, IdleJob)'
    BY <2>1, <2>4, EndsOk DEF IdleJob
  <2>6. UserMoves /\ LocksKept(j) /\ PersonalKept(j)
    BY <2>1 DEF UserMoves, LocksKept, PersonalKept
  <2>7. AuthDated'
    BY <2>1, <2>6, AuthKept
  <2> QED BY <2>1, <2>3, <2>5, <2>6, <2>7, ShrinkStep DEF Done, Step
<1>4. CASE RevokeAllCommits(j)
  <2>1. PICK d : d = [pc |-> "invalidate"]
    OBVIOUS
  <2>2. /\ v.pc = "revoke_commit" /\ session' = revokeRows(v.ids) /\ saveUser(v.u)
        /\ Step(j, d) /\ Unlock(j) /\ UNCHANGED <<personal, authEntry, tick, rotations>>
    BY <1>0, <1>4, <2>1 DEF RevokeAllCommits
  <2>3. v.u \in UserRec /\ \A i \in v.ids : HasRow(i) /\ sessLock[i] = j
    BY <1>0, <2>2 DEF TxOk, SavesUser
  <2>4. freeFor(j, v.ids)
    BY <2>3 DEF freeFor
  <2>5. /\ session' \in [Slots -> SessionRec] /\ RowsShrink
        /\ \A i \in Slots : sessLock[i] \in {NobodyS, j} \/
                            /\ session'[i].revokedAt = session[i].revokedAt
                            /\ session'[i].expiresAt = session[i].expiresAt
    BY <2>2, <2>3, <2>4, RevokeRowsShrinks
  <2>6. UserMoves
    BY <2>2, <2>3, SaveUserMoves
  <2>7. AuthDated' /\ PersonalKept(j)
    BY <2>2, <2>6, AuthKept DEF PersonalKept
  <2>8. LocksKept(j) /\ LocksHeld(j, d)' /\ TxOk(j, d)'
    BY <2>1, <2>2, UnlockKeeps, EndsOk
  <2> QED BY <2>2, <2>5, <2>6, <2>7, <2>8, ShrinkStep DEF Step
<1> QED BY <1>1, <1>2, <1>3, <1>4 DEF revokeAllByUserId

\* The cache is written and cleared, and a transaction that fails leaves nothing.
LEMMA EndsKeep ==
  ASSUME SessionsInv, NEW j \in Jobs, AuthStateStores(j) \/ InvalidateUser(j) \/ TxFails(j)
  PROVE  SessionsInv'
<1> USE SessionFacts
<1>1. /\ Done(j) /\ UNCHANGED <<user, session, personal, tick, rotations, versionAt>>
      /\ LocksKept(j) /\ userLock' # j /\ \A i \in Slots : sessLock'[i] # j
  <2>1. CASE AuthStateStores(j) \/ InvalidateUser(j)
    <3>1. userLock # j /\ \A i \in Slots : sessLock[i] # j
      BY <2>1, FreeOf DEF AuthStateStores, InvalidateUser, HoldsUser, HoldsSessions
    <3> QED BY <2>1, <3>1 DEF AuthStateStores, InvalidateUser, Rows, Locks, Ghosts, LocksKept
  <2>2. CASE TxFails(j)
    BY <2>2, UnlockKeeps DEF TxFails, Rows
  <2> QED BY <2>1, <2>2
<1>2. UserMoves /\ PersonalKept(j)
  BY <1>1 DEF UserMoves, PersonalKept
<1>3. AuthDated'
  <2>1. CASE authEntry' \in {authEntry, NoAuth}
    BY <1>1, <1>2, <2>1, AuthKept
  <2>2. CASE AuthStateStores(j) /\ authEntry' = [version |-> job[j].version, at |-> tick]
    <3>1. job[j].version \in Nat /\ VersionSince(job[j].version, tick)
      BY <2>2 DEF AuthStateStores, TxOk
    <3>2. authEntry'.version = job[j].version /\ authEntry'.at = tick
      BY <2>2
    <3> QED BY <1>1, <3>1, <3>2, SessionsAssumption DEF AuthDated, VersionSince
  <2> QED BY <2>1, <2>2 DEF AuthStateStores, InvalidateUser, TxFails
<1>4. LocksHeld(j, IdleJob)' /\ TxOk(j, IdleJob)'
  BY <1>1, EndsOk DEF IdleJob
<1> QED BY <1>1, <1>2, <1>3, <1>4, PlainStep DEF Done, Step

LEMMA SessionTickKeeps ==
  ASSUME SessionsInv, SessionTick
  PROVE  SessionsInv'
<1> USE SessionFacts, SessionsAssumption
<1>1. /\ tick' = tick + 1 /\ tick < MaxTick /\ \A j \in Jobs : job[j].pc = "idle"
      /\ UNCHANGED <<user, session, personal, job, userLock, sessLock, rotations, versionAt>>
      /\ authEntry' = IF authEntry # NoAuth /\ tick + 1 >= authEntry.at + AuthTtl
                      THEN NoAuth ELSE authEntry
  BY DEF SessionTick, Rows, Locks, Ghosts
<1>2. SessionsShape'
  BY <1>1 DEF SessionsInv, SessionsShape, UserRec, SessionRec, Slots
<1>3. RowsInOrder' /\ OneActivePerLogin'
  BY <1>1 DEF RowsInOrder, OneActivePerLogin, unrevoked, Sids, isRevokedS
<1>4. SessionLimit'
  <2>1. Active' \subseteq Active
    BY <1>1, SMTT(60) DEF Active, Sids, isValid, isExpiredS, isRevokedS, SessionRec, Slots
  <2>2. IsFiniteSet(Active) /\ Cardinality(Active) \in Nat
    BY ActiveFinite
  <2>3. Cardinality(Active') \in Nat /\ Cardinality(Active') =< Cardinality(Active)
    BY <2>1, <2>2, FS_Subset, FS_CardinalityType
  <2> QED BY <1>1, <2>2, <2>3 DEF SessionLimit, countActiveByUserId
<1>5. AuthDated'
  BY <1>1 DEF AuthDated, VersionSince
<1>6. ASSUME NEW j \in Jobs PROVE LocksHeld(j, job[j])' /\ TxOk(j, job[j])'
  <2>1. PICK w : w = job[j] /\ w = job'[j] /\ w.pc = "idle"
    BY <1>1
  <2>2. userLock' # j /\ \A i \in Slots : sessLock'[i] # j
    BY <1>1, FreeOf DEF HoldsUser, HoldsSessions
  <2>3. LocksHeld(j, w)' /\ TxOk(j, w)'
    BY <2>1, <2>2, EndsOk
  <2> QED BY <2>1, <2>3
<1> QED BY <1>2, <1>3, <1>4, <1>5, <1>6 DEF SessionsInv

LEMMA SessionsStutter ==
  ASSUME SessionsInv, UNCHANGED sessionVars
  PROVE  SessionsInv'
<1> USE SessionFacts DEF sessionVars
<1>1. SessionsShape'
  BY DEF SessionsInv, SessionsShape, UserRec, SessionRec, Slots
<1>2. RowsInOrder' /\ OneActivePerLogin' /\ SessionLimit' /\ AuthDated'
  BY DEF RowsInOrder, OneActivePerLogin, SessionLimit, countActiveByUserId, Active, unrevoked,
         Sids, isValid, isExpiredS, isRevokedS, AuthDated, VersionSince
<1>3. ASSUME NEW j \in Jobs PROVE LocksHeld(j, job[j])' /\ TxOk(j, job[j])'
  <2>1. LocksHeld(j, job[j])'
    BY DEF LocksHeld, HoldsUser, HoldsSessions
  <2>2. TxOk(j, job[j])'
    <3>1. PICK w : w = job[j] /\ w = job'[j] /\ TxOk(j, w)
      OBVIOUS
    <3> QED BY <3>1, UnchangedTx DEF Locks, Ghosts
  <2> QED BY <2>1, <2>2
<1> QED BY <1>1, <1>2, <1>3 DEF SessionsInv

LEMMA SessionsInitInv ==
  ASSUME SessionsInit
  PROVE  SessionsInv
<1> USE SessionsAssumption
<1>1. PICK first \in SessionRec :
        /\ first = [revokedAt |-> Unrevoked, replacedBy |-> 0, cipher |-> FALSE,
                    expiresAt |-> RefreshTtl, root |-> 1]
        /\ first.root = 1
  <2>1. Unrevoked \in Int /\ RefreshTtl \in Int /\ 0 \in 0..MaxSid /\ 1 \in Nat
    BY DEF Unrevoked
  <2>2. PICK f : f = [revokedAt |-> Unrevoked, replacedBy |-> 0, cipher |-> FALSE,
                      expiresAt |-> RefreshTtl, root |-> 1]
    OBVIOUS
  <2>3. f.root = 1
    BY <2>2
  <2>4. f \in SessionRec
    BY <2>1, <2>2 DEF SessionRec
  <2> QED BY <2>2, <2>3, <2>4
<1>2. NoSession \in SessionRec
  BY DEF SessionRec, NoSession
<1>3. /\ user \in UserRec /\ personal \in 0..1
      /\ \/ session = [i \in Slots |-> NoSession]
         \/ session = [i \in Slots |-> IF i = 1 THEN first ELSE NoSession]
  <2>1. NoUser \in UserRec /\ verifyEmail(User_register(1)) \in UserRec
    <3>1. tick \in Nat
      BY DEF SessionsInit
    <3>2. NoUser \in UserRec
      BY DEF NoUser, UserRec
    <3>3. User_register(1) \in UserRec
      BY <3>1, <3>2, UserOps
    <3> QED BY <3>1, <3>2, <3>3, UserOps
  <2>2. CASE user = NoUser /\ personal = 0 /\ session = [i \in 1..MaxSid |-> NoSession]
    BY <2>1, <2>2 DEF Slots
  <2>3. CASE /\ user = verifyEmail(User_register(1)) /\ personal = 1
             /\ session = [i \in 1..MaxSid |->
                  IF i = 1 THEN [revokedAt |-> Unrevoked, replacedBy |-> 0, cipher |-> FALSE,
                                 expiresAt |-> RefreshTtl, root |-> 1]
                  ELSE NoSession]
    BY <1>1, <2>1, <2>3 DEF Slots
  <2> QED BY <2>2, <2>3 DEF SessionsInit
<1>4. session \in [Slots -> SessionRec]
  BY <1>2, <1>3
<1>5. SessionsShape
  BY <1>3, <1>4 DEF SessionsInit, SessionsShape, Slots
<1>6. \A i \in Slots : IF i = 1 THEN session[i] = NoSession \/ session[i].root = 1
                       ELSE session[i] = NoSession
  BY <1>1, <1>3
<1>7. RowsInOrder
  <2>1. CASE 1 \in Slots /\ session[1].root = 1
    <3>1. 1 \in 0..MaxSid /\ \A i \in 1..1 : session[i].root \in 1..i
      BY <2>1 DEF Slots
    <3>2. \A i \in (1 + 1)..MaxSid : session[i] = NoSession
      BY <1>6 DEF Slots
    <3> QED BY <3>1, <3>2 DEF RowsInOrder
  <2>2. CASE \A i \in Slots : session[i] = NoSession
    <3>1. 0 \in 0..MaxSid /\ \A i \in 1..0 : session[i].root \in 1..i
      OBVIOUS
    <3>2. \A i \in (0 + 1)..MaxSid : session[i] = NoSession
      BY <2>2 DEF Slots
    <3> QED BY <3>1, <3>2 DEF RowsInOrder
  <2> QED BY <1>6, <2>1, <2>2
<1>8. Sids \subseteq {1}
  BY <1>6 DEF Sids, Slots
<1>9. OneActivePerLogin
  BY <1>8 DEF OneActivePerLogin, unrevoked
<1>10. SessionLimit
  <2>1. Active \subseteq {1}
    BY <1>8 DEF Active
  <2>2. IsFiniteSet({1}) /\ Cardinality({1}) = 1
    BY FS_Singleton
  <2>3. Cardinality(Active) \in Nat /\ Cardinality(Active) =< 1
    BY <2>1, <2>2, FS_Subset, FS_CardinalityType
  <2> QED BY <2>3 DEF SessionLimit, countActiveByUserId, SessionsInit
<1>11. AuthDated
  BY DEF AuthDated, SessionsInit
<1>12. ASSUME NEW j \in Jobs PROVE LocksHeld(j, job[j]) /\ TxOk(j, job[j])
  <2>1. job[j].pc = "idle" /\ userLock # j /\ \A i \in Slots : sessLock[i] # j
    BY DEF SessionsInit, IdleJob, Slots
  <2> QED BY <2>1 DEF LocksHeld, TxOk, SavesUser
<1> QED BY <1>5, <1>7, <1>9, <1>10, <1>11, <1>12 DEF SessionsInv

(* For any number of overlapping requests, and whichever transactions fail:  *)
(* a refresh token has one living descendant, logins respect the session     *)
(* limit but for the rotations that overlap them, a user gets one personal   *)
(* account, and a cached token version is stale for less than its TTL        *)
(* (Login, RefreshSession, VerifyEmail, LogoutAll, AuthState.service).       *)
THEOREM SessionsCorrect == SessionsSpec => []SessionsSound
<1>1. SessionsInit => SessionsInv
  BY SessionsInitInv
<1>2. SessionsInv /\ [SessionsNext]_sessionVars => SessionsInv'
  <2> SUFFICES ASSUME SessionsInv, SessionsNext PROVE SessionsInv'
    BY SessionsStutter
  <2>2. ASSUME NEW j \in Jobs, identityRoutes(j) PROVE SessionsInv'
    <3>1. CASE postRegister(j) \/ postResendVerification(j) \/ postForgotPassword(j)
      BY <3>1, RegisterKeeps DEF postRegister, postResendVerification, postForgotPassword
    <3>2. CASE postVerifyEmail(j)
      BY <3>2, VerifyEmailKeeps
    <3>3. CASE postLogin(j)
      BY <3>3, LoginKeeps
    <3>4. CASE postRefresh(j)
      BY <3>4, RefreshReadsKeeps, RefreshCommitsKeeps, RevokeAllKeeps DEF postRefresh
    <3>5. CASE postLogoutOne(j)
      BY <3>5, LogoutKeeps
    <3>6. CASE postLogoutAll(j) \/ postResetPassword(j)
      BY <3>6, RevocationBegins DEF postLogoutAll
    <3>7. CASE postMyPassword(j)
      BY <3>7, ChangePasswordKeeps DEF postMyPassword
    <3>8. CASE patchMyProfile(j)
      BY <3>8, RevocationBegins, SaveAlone DEF patchMyProfile
    <3>9. CASE revokeAllByUserId(j)
      BY <3>9, RevokeAllKeeps
    <3>10. CASE AuthStateGet(j) \/ TxFails(j)
      BY <3>10, RevocationBegins, EndsKeep DEF AuthStateGet
    <3> QED
      BY <2>2, <3>1, <3>2, <3>3, <3>4, <3>5, <3>6, <3>7, <3>8, <3>9, <3>10 DEF identityRoutes
  <2> QED BY <2>2, SessionTickKeeps DEF SessionsNext
<1>3. SessionsInv => SessionsSound
  <2>1. SUFFICES ASSUME SessionsInv PROVE SessionsSound
    OBVIOUS
  <2> USE SessionFacts
  <2>2. SessionsTypeOK
    <3>1. \A i \in Sids : session[i].root \in 1..i /\ session[i].replacedBy \in 0..MaxSid
      <4>1. PICK n \in 0..MaxSid : Sids = 1..n /\ \A i \in 1..n : session[i].root \in 1..i
        BY RowsUsed, <2>1
      <4>2. \A i \in Sids : i \in Slots
        BY DEF Sids, Slots
      <4> QED BY <2>1, <4>1, <4>2 DEF SessionRec
    <3>2. ASSUME NEW j \in Jobs, job[j].pc = "idle" PROVE userLock # j /\ LocksOf(j) = {}
      BY <2>1, <3>2, FreeOf DEF HoldsUser, HoldsSessions, LocksOf, Slots
    <3>3. user.verified \in BOOLEAN /\ user.failed \in Nat /\ user.version \in Nat
      BY <2>1 DEF UserRec
    <3>4. personal \in Nat /\ tick \in 0..MaxTick
      BY <2>1 DEF SessionsInv, SessionsShape
    <3> QED BY <3>1, <3>2, <3>3, <3>4 DEF SessionsTypeOK
  <2>3. OnePersonalAccount
    BY <2>1 DEF OnePersonalAccount
  <2>4. AuthStateFresh
    BY <2>1, SessionsAssumption DEF AuthStateFresh, AuthDated, VersionSince
  <2> QED BY <2>1, <2>2, <2>3, <2>4 DEF SessionsSound
<1> QED BY <1>1, <1>2, <1>3, PTL DEF SessionsSpec

=============================================================================
