------------------------------ MODULE ApiKeys ------------------------------
(***************************************************************************)
(* API keys: the rows the API manages (src/apps/api/.../key-management),   *)
(* the Redis entries read before them, and what the hub decides on them:   *)
(* the validation of every SDK request (packages/shared/validateApiKey.ts) *)
(* and the handshake of every agent (loadKeyHash, HubAuth.service.ts).     *)
(*                                                                         *)
(* A management request reads an entity, changes it in memory, saves the   *)
(* whole of it and then deletes the cache entry: three awaits, so two      *)
(* requests can overlap.  A validation that misses the cache reads the row *)
(* and writes the entry in two awaits.  A secret is the number of its      *)
(* generation; 0 is no secret.                                             *)
(***************************************************************************)
EXTENDS Integers, FiniteSets, OrgRoles

CONSTANTS Keys,         \* key ids
          Actors,       \* users; RoleOf gives their role level, 0 for no member
          RoleOf,
          Requests,     \* management requests that may run at once
          Validators,   \* validations that may run at once
          Limits,       \* the plan's limits
          ScopeChoices, \* the sets of scopes a caller may ask for
          CacheTtl,     \* KEY_CACHE_TTL_SEC
          RotationGrace, \* ROTATION_GRACE_MS
          KeyLife,      \* expiresAt of a key, from its creation
          MaxTime, MaxSecret \* bounds on the clock and on the secrets given out

ApiScope == {"*", "tunnel:connect", "other"}

ASSUME ApiKeysAssumption ==
  /\ RoleOf \in [Actors -> {0} \cup RoleLevel]
  /\ ScopeChoices \subseteq (SUBSET ApiScope \ {{}})
  /\ KeyLife \in Nat /\ MaxTime \in Nat /\ MaxSecret \in Nat
  /\ CacheTtl \in Nat \ {0} /\ RotationGrace \in Nat \ {0}
  /\ CacheTtl =< RotationGrace

Never == -1
NoKey == [status |-> "none"]
NoEntry == [status |-> "none"]

VARIABLES
  keyRow,     \* ApiKey rows
  keyEntry,   \* Redis: the cached key, with the time of its write
  account,    \* Account.status
  request,    \* management requests
  validator,  \* validations
  time,
  secrets,    \* secrets given out so far
  revokedAt,  \* when a row was last saved as REVOKED
  retiredAt   \* when a secret last stopped being a row's current one

keyVars == <<keyRow, keyEntry, account, request, validator, time, secrets,
             revokedAt, retiredAt>>

(***************************************************************************)
(* The ApiKey entity.                                                      *)
(***************************************************************************)
ApiKey_create(actor, secret, scopes) ==
  [status |-> "ACTIVE", secret |-> secret, previous |-> 0, graceEndsAt |-> Never,
   expiresAt |-> time + KeyLife, createdById |-> actor, scopes |-> scopes]

isRevoked(k) == k.status = "REVOKED"
isExpired(k) == k.expiresAt =< time
isInRotationGrace(k) == k.graceEndsAt # Never /\ k.graceEndsAt > time
hasScope(k, scope) == "*" \in k.scopes \/ scope \in k.scopes
isOwnedBy(k, actor) == k.createdById = actor

\* Mutant of rotate.
rotateKeepsNew(k, secret) ==
  [k EXCEPT !.previous = secret, !.secret = secret, !.graceEndsAt = time + RotationGrace]
rotate(k, secret) ==
  [k EXCEPT !.previous = k.secret, !.secret = secret,
            !.graceEndsAt = time + RotationGrace]
clearRotationGrace(k) == [k EXCEPT !.previous = 0, !.graceEndsAt = Never]
revoke(k) == [k EXCEPT !.status = "REVOKED"]
markExpired(k) == [k EXCEPT !.status = "EXPIRED"]
updateScopes(k, scopes) == [k EXCEPT !.scopes = scopes]

(***************************************************************************)
(* The repository.  save writes every mutable column of the entity.        *)
(***************************************************************************)
saveKey(k, ent) ==
  /\ keyRow' = [keyRow EXCEPT ![k] = ent]
  /\ revokedAt' = IF isRevoked(ent) /\ ~isRevoked(keyRow[k])
                  THEN [revokedAt EXCEPT ![k] = time] ELSE revokedAt
  /\ retiredAt' =
       IF keyRow[k] # NoKey /\ keyRow[k].secret # ent.secret
       THEN [retiredAt EXCEPT ![keyRow[k].secret] = time] ELSE retiredAt

findAllByAccount == {k \in Keys : keyRow[k] # NoKey}
countActiveByAccount == Cardinality({k \in Keys : keyRow[k].status = "ACTIVE"})
findExpiredKeys == {k \in Keys : keyRow[k].status = "ACTIVE" /\ isExpired(keyRow[k])}
findExpiredRotations ==
  {k \in findAllByAccount : keyRow[k].previous # 0 /\ ~isInRotationGrace(keyRow[k])}

(***************************************************************************)
(* The cache.  An entry dies CacheTtl after its write; every call to Redis *)
(* fails soft.                                                             *)
(***************************************************************************)
buildCachePayload(ent, st) ==
  [status |-> ent.status, secret |-> ent.secret, previous |-> ent.previous,
   graceEndsAt |-> ent.graceEndsAt, expiresAt |-> ent.expiresAt,
   scopes |-> ent.scopes, accountStatus |-> st, at |-> time]

cacheSet(k, e) ==
  \/ keyEntry' = [keyEntry EXCEPT ![k] = e]
  \/ UNCHANGED keyEntry
cacheGet(k) ==
  IF keyEntry[k] # NoEntry /\ time < keyEntry[k].at + CacheTtl
  THEN keyEntry[k] ELSE NoEntry
invalidateAllForAccount(ks) ==
  \E gone \in SUBSET ks :
    keyEntry' = [k \in Keys |-> IF k \in gone THEN NoEntry ELSE keyEntry[k]]

(***************************************************************************)
(* Management requests.  Each use case checks the caller, reads the key,   *)
(* changes the entity; the save and the cache follow as steps.             *)
(***************************************************************************)
IdleRequest == [pc |-> "idle"]
Await(r, rec) == request' = [request EXCEPT ![r] = rec]
Respond(r) == Await(r, IdleRequest)
SaveNext(r, op, k, ent) == Await(r, [pc |-> "save", op |-> op, keys |-> {k}, ent |-> ent])

resolveMembership(actor, requiredRole) == RoleOf[actor] # 0 /\ RoleOf[actor] >= requiredRole
canManageAny(actor) == RoleOf[actor] >= ADMIN
findManageable(actor, k) ==
  /\ RoleOf[actor] # 0
  /\ keyRow[k] # NoKey /\ ~isRevoked(keyRow[k])
  /\ canManageAny(actor) \/ isOwnedBy(keyRow[k], actor)

freshId(k) == keyRow[k] = NoKey /\ \A r \in Requests : request[r].pc # "idle" => k \notin request[r].keys
newSecret == secrets < MaxSecret /\ secrets' = secrets + 1

\* The limit on active keys is counted here and again by the use case, both
\* before the row is saved.
apiKeyLimitGuard == countActiveByAccount < Limits.maxApiKeys

CreateApiKey(r, actor, k, env, scopes) ==
  /\ resolveMembership(actor, ADMIN)
  /\ env = "PROD" => Limits.prodKeysAllowed
  /\ Cardinality(scopes) =< Limits.maxScopesPerKey
  /\ countActiveByAccount < Limits.maxApiKeys
  /\ "*" \in scopes => resolveMembership(actor, OWNER)
  /\ newSecret
  /\ SaveNext(r, "create", k, ApiKey_create(actor, secrets + 1, scopes))

RotateApiKey(r, actor, k) ==
  /\ Limits.rotationAllowed
  /\ findManageable(actor, k)
  /\ newSecret
  /\ SaveNext(r, "rotate", k, rotate(keyRow[k], secrets + 1))

RevokeApiKey(r, actor, k) ==
  /\ findManageable(actor, k)
  /\ SaveNext(r, "revoke", k, revoke(keyRow[k]))
  /\ UNCHANGED secrets

UpdateApiKey(r, actor, k, scopes) ==
  /\ findManageable(actor, k)
  /\ Cardinality(scopes) =< Limits.maxScopesPerKey
  /\ SaveNext(r, "update", k, updateScopes(keyRow[k], scopes))
  /\ UNCHANGED secrets

\* The workers read their list of entities and save them one by one.
ExpireApiKeysWorker(r) ==
  \E k \in findExpiredKeys : SaveNext(r, "expire", k, markExpired(keyRow[k]))
ExpireRotationGraceWorker(r) ==
  \E k \in findExpiredRotations : SaveNext(r, "clear", k, clearRotationGrace(keyRow[k]))

SaveKeyStep(r) ==
  /\ request[r].pc = "save"
  /\ \A k \in request[r].keys : saveKey(k, request[r].ent)
  /\ Await(r, [request[r] EXCEPT !.pc = "cache"])
  /\ UNCHANGED <<keyEntry, account, validator, time, secrets>>

\* A new key is written to the cache, with the account taken to be ACTIVE; every
\* other operation deletes the entry.
CacheStep(r) ==
  /\ request[r].pc = "cache"
  /\ IF request[r].op = "create"
     THEN \A k \in request[r].keys : cacheSet(k, buildCachePayload(request[r].ent, "ACTIVE"))
     ELSE invalidateAllForAccount(request[r].keys)
  /\ Respond(r)
  /\ UNCHANGED <<keyRow, account, validator, time, secrets, revokedAt, retiredAt>>

\* Billing changes the account's status and then calls
\* AccountKeyCacheInvalidator: read the account's keys, delete their entries.
connectable(st) == st \in {"ACTIVE", "PAST_DUE"}
AccountStatusWrite(r, st) ==
  /\ request[r].pc = "idle" /\ st # account
  /\ account' = st
  /\ Await(r, [pc |-> "keys", op |-> "status", keys |-> {}])
  /\ UNCHANGED <<keyRow, keyEntry, validator, time, secrets, revokedAt, retiredAt>>

InvalidatorReadsKeys(r) ==
  /\ request[r].pc = "keys"
  /\ Await(r, [pc |-> "cache", op |-> "status", keys |-> findAllByAccount])
  /\ UNCHANGED <<keyRow, keyEntry, account, validator, time, secrets, revokedAt, retiredAt>>

\* The routes: guards, then the use case.
PostKey(r, actor, k) ==
  /\ apiKeyLimitGuard /\ freshId(k)
  /\ \E env \in {"DEV", "PROD"}, scopes \in ScopeChoices :
       CreateApiKey(r, actor, k, env, scopes)
PatchKey(r, actor, k) == \E scopes \in ScopeChoices : UpdateApiKey(r, actor, k, scopes)
PostRevoke(r, actor, k) == RevokeApiKey(r, actor, k)
PostRotate(r, actor, k) == RotateApiKey(r, actor, k)

apiKeyRoutes(r, actor, k) ==
  /\ request[r].pc = "idle"
  /\ \/ PostKey(r, actor, k) \/ PatchKey(r, actor, k)
     \/ PostRevoke(r, actor, k) \/ PostRotate(r, actor, k)
  /\ UNCHANGED <<keyRow, keyEntry, account, validator, time, revokedAt, retiredAt>>

KeyWorkers(r) ==
  /\ request[r].pc = "idle"
  /\ ExpireApiKeysWorker(r) \/ ExpireRotationGraceWorker(r)
  /\ UNCHANGED <<keyRow, keyEntry, account, validator, time, secrets, revokedAt, retiredAt>>

(***************************************************************************)
(* Validation: cache first, row second, checks last.                       *)
(***************************************************************************)
\* Mutant of graceActive.
graceNeverEnds(e) == e.graceEndsAt # Never
graceActive(e) == e.graceEndsAt # Never /\ e.graceEndsAt > time
Verifies(e, secret) ==
  secret = e.secret \/ (graceActive(e) /\ e.previous # 0 /\ secret = e.previous)

\* Mutant of Passes.
PassesRevoked(e, secret) ==
  e.expiresAt >= time /\ connectable(e.accountStatus) /\ hasScope(e, "tunnel:connect")
  /\ Verifies(e, secret)
\* The checks of ValidateApiKeyUseCaseImpl on a cached payload.
Passes(e, secret) ==
  /\ ~isRevoked(e)
  /\ e.expiresAt >= time
  /\ connectable(e.accountStatus)
  /\ hasScope(e, "tunnel:connect")
  /\ Verifies(e, secret)

\* What the handshake decides on: the entry in Redis, the one the API and the
\* validations write, or the row on a miss.  It writes nothing back.
loadKeyHash(k) ==
  IF cacheGet(k) = NoEntry /\ keyRow[k] # NoKey
  THEN buildCachePayload(keyRow[k], account) ELSE cacheGet(k)

\* Mutant of AuthenticatesAgent.
AuthenticatesExpired(k, secret) ==
  /\ loadKeyHash(k).status = "ACTIVE"
  /\ connectable(loadKeyHash(k).accountStatus)
  /\ Verifies(loadKeyHash(k), secret)
  /\ hasScope(loadKeyHash(k), "tunnel:connect")

\* The agent handshake wants an ACTIVE key, and refuses it from its hour on,
\* where a validation still accepts it at that hour.
AuthenticatesAgent(k, secret) ==
  /\ loadKeyHash(k).status = "ACTIVE"
  /\ connectable(loadKeyHash(k).accountStatus)
  /\ loadKeyHash(k).expiresAt > time
  /\ Verifies(loadKeyHash(k), secret)
  /\ hasScope(loadKeyHash(k), "tunnel:connect")

\* A validation that misses the cache reads the key with its account...
ValidateLoadsRow(v, k) ==
  /\ validator[v].pc = "idle"
  /\ cacheGet(k) = NoEntry /\ keyRow[k] # NoKey
  /\ validator' = [validator EXCEPT ![v] =
       [pc |-> "write", key |-> k, entry |-> buildCachePayload(keyRow[k], account)]]
  /\ UNCHANGED <<keyRow, keyEntry, account, request, time, secrets, revokedAt, retiredAt>>

\* ... and writeCache stores what was read, whatever has happened since.
ValidateWritesCache(v) ==
  /\ validator[v].pc = "write"
  /\ cacheSet(validator[v].key, [validator[v].entry EXCEPT !.at = time])
  /\ validator' = [validator EXCEPT ![v] = [pc |-> "idle"]]
  /\ UNCHANGED <<keyRow, account, request, time, secrets, revokedAt, retiredAt>>

\* What a validation that is decided now would decide on: the entry in Redis,
\* or what it has read from the row and is writing back.
Decides(k) ==
  {cacheGet(k)} \cup {validator[v].entry : v \in {w \in Validators :
                         validator[w].pc = "write" /\ validator[w].key = k}}
Accepts(k, secret) ==
  \/ AuthenticatesAgent(k, secret)
  \/ \E e \in Decides(k) \ {NoEntry} : Passes(e, secret)

\* No request or validation outlasts a unit of time: a unit is much longer than
\* a round trip to the database.
KeyTimePasses ==
  /\ time < MaxTime
  /\ \A r \in Requests : request[r].pc = "idle"
  /\ \A v \in Validators : validator[v].pc = "idle"
  /\ time' = time + 1
  /\ keyEntry' = [k \in Keys |-> IF keyEntry[k] # NoEntry /\ time + 1 >= keyEntry[k].at + CacheTtl
                                 THEN NoEntry ELSE keyEntry[k]]
  /\ UNCHANGED <<keyRow, account, request, validator, secrets, revokedAt, retiredAt>>

(***************************************************************************)
(* The specification.                                                      *)
(***************************************************************************)
KeysInit ==
  /\ keyRow = [k \in Keys |-> NoKey]
  /\ keyEntry = [k \in Keys |-> NoEntry]
  /\ account = "ACTIVE"
  /\ request = [r \in Requests |-> IdleRequest]
  /\ validator = [v \in Validators |-> [pc |-> "idle"]]
  /\ time = 0 /\ secrets = 0
  /\ revokedAt = [k \in Keys |-> Never]
  /\ retiredAt = [s \in 1..MaxSecret |-> Never]

KeysNext ==
  \/ \E r \in Requests :
       \/ \E actor \in Actors, k \in Keys : apiKeyRoutes(r, actor, k)
       \/ KeyWorkers(r)
       \/ \E st \in {"ACTIVE", "SUSPENDED"} : AccountStatusWrite(r, st)
       \/ SaveKeyStep(r) \/ CacheStep(r) \/ InvalidatorReadsKeys(r)
  \/ \E v \in Validators :
       ValidateWritesCache(v) \/ \E k \in Keys : ValidateLoadsRow(v, k)
  \/ KeyTimePasses

KeysSpec == KeysInit /\ [][KeysNext]_keyVars

(***************************************************************************)
(* Properties.                                                             *)
(***************************************************************************)
(* The rows, the cached entries, the clock and the secrets given out have    *)
(* their types; a secret in grace is never the current one.                  *)
KeysTypeOK ==
  /\ \A k \in Keys :
       /\ keyRow[k].status \in {"none", "ACTIVE", "REVOKED", "EXPIRED"}
       /\ keyEntry[k].status \in {"none", "ACTIVE", "REVOKED", "EXPIRED"}
       /\ keyRow[k] # NoKey => keyRow[k].secret \in 1..secrets
                               /\ keyRow[k].previous \in 0..secrets \ {keyRow[k].secret}
  /\ time \in 0..MaxTime /\ secrets \in 0..MaxSecret

(* A key whose row is revoked is accepted by the hub for less than the       *)
(* cache's TTL after the revocation, even when a validation wrote back what  *)
(* it had read before it, or Redis lost the delete.                          *)
RevokedAcceptBounded ==
  \A k \in Keys, s \in 1..secrets :
    isRevoked(keyRow[k]) /\ Accepts(k, s) => time < revokedAt[k] + CacheTtl

(* A secret that is no longer a key's current one is accepted for less than  *)
(* the rotation's grace period, however many rotations, stale cache entries, *)
(* lost deletes and overlapping saves there were.                            *)
RetiredSecretBounded ==
  \A k \in Keys, s \in 1..secrets :
    /\ keyRow[k] # NoKey /\ keyRow[k].secret # s /\ retiredAt[s] # Never
    /\ Accepts(k, s)
    => time < retiredAt[s] + RotationGrace

(* A key works until the hour it was created to expire at, whatever a stale  *)
(* entry or an overlapping save, which may write ACTIVE over what the worker *)
(* marked EXPIRED, says of its status; an agent is refused from that hour on.*)
ExpiryRespected ==
  \A k \in Keys, s \in 1..secrets :
    /\ Accepts(k, s) => keyRow[k] # NoKey /\ time =< keyRow[k].expiresAt
    /\ AuthenticatesAgent(k, s) => time < keyRow[k].expiresAt

(* A key stops working when its owner stops it, for agents and for requests, *)
(* both of which are decided on the entry in Redis when there is one:        *)
(* through revocation and rotation a secret outlives its key by the cache's  *)
(* TTL or the grace period at most, through expiry not at all (ApiKey        *)
(* entities, validateApiKey, loadKeyHash, ApiKeyCache).                      *)
KeysBounded ==
  KeysTypeOK /\ RevokedAcceptBounded /\ RetiredSecretBounded /\ ExpiryRespected

=============================================================================
