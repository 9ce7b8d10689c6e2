----------------------------- MODULE UsageFlush -----------------------------
(***************************************************************************)
(* Counting requests: the hub's limiter for the public tunnel path with    *)
(* its in-process accumulator (PublicPathUsageLimiter, HubUsage), the      *)
(* counters in Redis, and the API's worker that drains them into           *)
(* UsageAggregate rows (FlushUsageWorker, RedisApiKeyCache, UsageAggregate *)
(* repository).  One account, one metric, one five-minute bucket.          *)
(*                                                                         *)
(* A drain is a SCAN, whose pages may list a key again, a GET per listed   *)
(* key, a DEL of them all, and a write per value read.  Nothing keeps two  *)
(* ticks of the worker apart.  A counter without a key ("public") has no   *)
(* unique index to upsert on: its write is a find and then an update or a  *)
(* create.                                                                 *)
(***************************************************************************)
EXTENDS Integers, FiniteSets

CONSTANTS KeySlots,      \* public key ids with a counter
          KnownKeys,     \* those that resolve to a row of this account
          Flushers,      \* flush ticks that may overlap
          Lookers,       \* public requests that may look the plan up at once
          PlanRate,      \* publicPathRateLimitPerMinute the plan lookup may give
          ProRate,       \* the limit applied when the lookup fails
          MaxListed,     \* times the SCAN may return one key
          MaxServed, MaxMinutes, MaxLosses \* bounds

Public == "public"     \* PUBLIC_USAGE_SENTINEL
Rollup == "rollup"     \* apiKeyId null
Slots == KeySlots \cup {Public}
Unlimited == -1
NoPlan == [limit |-> -2, at |-> 0]
NoLookup == -1

ASSUME UsageAssumption ==
  /\ IsFiniteSet(KeySlots) /\ KnownKeys \subseteq KeySlots
  /\ Public \notin KeySlots /\ Rollup \notin KeySlots
  /\ IsFiniteSet(Flushers) /\ MaxListed \in Nat \ {0}
  /\ PlanRate \subseteq Nat \cup {Unlimited} /\ ProRate \in Nat
  /\ MaxServed \in Nat /\ MaxMinutes \in Nat /\ MaxLosses \in Nat

VARIABLES
  planCache,     \* the cached limit and the minute its lookup began in, or NoPlan
  lookup,        \* the minute in which a request in getRateLimitPerMinute asked
                 \* for the plan, or NoLookup
  minuteCounter, \* requests of this minute
  accumulator,   \* monthlyAccumulator
  minutes, servedTotal, losses,
  allowedNow,    \* requests let through under a limit in this minute
  largest,       \* history: the largest limit a lookup gave in this minute ...
  largestBefore, \* ... and in the one before; 0 when there was none
  redisCount,    \* Redis: the counters; 0 is no key
  unread,        \* history: what a counter holds that no drain has read
  rereads,       \* history: requests that a drain read again in a counter that
                 \* was not deleted in between
  flusher,       \* flush ticks
  usageRow       \* UsageAggregate: quantity of the rows of each key; Rollup's
                 \* rows are a function from row numbers

limiterVars == <<planCache, lookup, minuteCounter, minutes, allowedNow, largest, largestBefore>>
usageVars == <<limiterVars, accumulator, servedTotal, losses, redisCount, unread, rereads,
               flusher, usageRow>>

IdleFlush == [pc |-> "idle"]

UsageInit ==
  /\ planCache = NoPlan /\ lookup = [r \in Lookers |-> NoLookup]
  /\ minuteCounter = 0 /\ accumulator = 0
  /\ minutes = 0 /\ servedTotal = 0 /\ losses = 0
  /\ allowedNow = 0 /\ largest = 0 /\ largestBefore = 0
  /\ redisCount = [s \in Slots |-> 0] /\ unread = redisCount /\ rereads = 0
  /\ flusher = [w \in Flushers |-> IdleFlush]
  /\ usageRow = [k \in KeySlots \cup {Rollup} |-> IF k = Rollup THEN <<>> ELSE 0]

(***************************************************************************)
(* The hub.                                                                *)
(***************************************************************************)
drainState == <<redisCount, unread, rereads, flusher, usageRow>>

recordMonthlyUsage == accumulator' = accumulator + 1 /\ servedTotal' = servedTotal + 1

overPublicLimitLate(count, limit) == limit # Unlimited /\ count > limit + 1
overPublicLimit(count, limit) == limit # Unlimited /\ count > limit

\* checkRequest once the limit is known: refused requests count against the
\* minute, not the month.
checkRequest(limit) ==
  /\ servedTotal < MaxServed
  /\ minuteCounter' = IF limit = Unlimited THEN minuteCounter ELSE minuteCounter + 1
  /\ minuteCounter' =< MaxServed
  /\ IF overPublicLimit(minuteCounter + 1, limit)
     THEN UNCHANGED <<accumulator, servedTotal, allowedNow>>
     ELSE /\ recordMonthlyUsage
          /\ allowedNow' = IF limit = Unlimited THEN allowedNow ELSE allowedNow + 1
  /\ UNCHANGED <<minutes, largestBefore, losses, drainState>>

Found(limit) == largest' = IF limit > largest THEN limit ELSE largest

\* getRateLimitPerMinute: the cached limit ...
CheckCached ==
  /\ planCache # NoPlan
  /\ checkRequest(planCache.limit)
  /\ UNCHANGED <<planCache, lookup, largest>>

\* ... or a lookup, with the time it is asked at ...
AskPlan(r) ==
  /\ planCache = NoPlan /\ lookup[r] = NoLookup /\ servedTotal < MaxServed
  /\ lookup' = [lookup EXCEPT ![r] = minutes]
  /\ UNCHANGED <<planCache, minuteCounter, minutes, allowedNow, largest, largestBefore,
                 accumulator, servedTotal, losses, drainState>>

\* ... whose answer is cached for PLAN_CACHE_TTL_MS, a minute, from that time ...
PlanAnswers(r) ==
  /\ lookup[r] # NoLookup
  /\ lookup' = [lookup EXCEPT ![r] = NoLookup]
  /\ \E limit \in PlanRate :
       /\ checkRequest(limit) /\ Found(limit)
       /\ planCache' = IF lookup[r] + 1 >= minutes THEN [limit |-> limit, at |-> lookup[r]]
                       ELSE NoPlan

\* ... and whose failure is not.
PlanFails(r) ==
  /\ lookup[r] # NoLookup
  /\ lookup' = [lookup EXCEPT ![r] = NoLookup]
  /\ checkRequest(ProRate) /\ Found(ProRate)
  /\ UNCHANGED planCache

\* The entry expires at some time of the minute after its lookup was asked ...
PlanExpires ==
  /\ planCache # NoPlan /\ planCache.at < minutes
  /\ planCache' = NoPlan
  /\ UNCHANGED <<lookup, minuteCounter, minutes, allowedNow, largest, largestBefore,
                 accumulator, servedTotal, losses, drainState>>

cachedForever(entry) == TRUE
cachedStill(entry) == entry.at = minutes

\* ... and is never there in a later one; each minute has a fresh counter.
NextMinute ==
  /\ minutes < MaxMinutes
  /\ minutes' = minutes + 1
  /\ minuteCounter' = 0 /\ allowedNow' = 0
  /\ largestBefore' = largest /\ largest' = 0
  /\ planCache' = IF cachedStill(planCache) THEN planCache ELSE NoPlan
  /\ UNCHANGED <<lookup, accumulator, servedTotal, losses, drainState>>

Increment(s, n) ==
  /\ redisCount' = [redisCount EXCEPT ![s] = @ + n]
  /\ unread' = [unread EXCEPT ![s] = @ + n]

keepsAccumulator == UNCHANGED accumulator
clearAccumulator == accumulator' = 0

\* flush: one INCRBY, not awaited; the accumulator is cleared whether or not it
\* reaches Redis.
FlushAccumulator ==
  /\ accumulator > 0
  /\ clearAccumulator
  /\ \/ Increment(Public, accumulator) /\ UNCHANGED losses
     \/ /\ losses < MaxLosses /\ losses' = losses + 1
        /\ UNCHANGED <<redisCount, unread>>
  /\ UNCHANGED <<limiterVars, servedTotal, rereads, flusher, usageRow>>

\* stop() and a crash lose what is not flushed, and the process that follows
\* has no cache and no counter.
HubEnds ==
  /\ losses < MaxLosses /\ losses' = losses + 1
  /\ accumulator' = 0 /\ planCache' = NoPlan /\ minuteCounter' = 0 /\ allowedNow' = 0
  /\ lookup' = [r \in Lookers |-> NoLookup]
  /\ UNCHANGED <<minutes, largest, largestBefore, servedTotal, drainState>>

\* incrementUsage of a keyed request.
IncrementUsage(k) ==
  /\ servedTotal < MaxServed
  /\ servedTotal' = servedTotal + 1
  /\ Increment(k, 1)
  /\ UNCHANGED <<limiterVars, accumulator, losses, rereads, flusher, usageRow>>

(***************************************************************************)
(* The worker.                                                             *)
(***************************************************************************)
Flush(w, rec) == flusher' = [flusher EXCEPT ![w] = rec]
HubState == <<limiterVars, accumulator, servedTotal>>

\* Mutant of ScanKeys.
ScanKeysKeyed(w) ==
  /\ flusher[w].pc = "idle"
  /\ \E s \in KeySlots : redisCount[s] > 0
  /\ Flush(w, [pc |-> "get", todo |-> [s \in {s \in KeySlots : redisCount[s] > 0} |-> 1],
               left |-> <<>>])
  /\ UNCHANGED HubState /\ UNCHANGED <<losses, redisCount, unread, rereads, usageRow>>
\* listAccountIdsWithPendingUsage, then the SCAN of drainUsageCounters: the pages
\* are appended to one another, and a key on two of them stays on both.
ScanKeys(w) ==
  /\ flusher[w].pc = "idle"
  /\ \E s \in Slots : redisCount[s] > 0
  /\ \E todo \in [{s \in Slots : redisCount[s] > 0} -> 1..MaxListed] :
       Flush(w, [pc |-> "get", todo |-> todo, left |-> <<>>])
  /\ UNCHANGED HubState /\ UNCHANGED <<losses, redisCount, unread, rereads, usageRow>>

Apart(f, s) == [x \in DOMAIN f \ {s} |-> f[x]]
With(f, s, n) == [x \in DOMAIN f \cup {s} |-> IF x = s THEN n ELSE f[x]]

\* One GET of the pipeline, which is no transaction; toCounterQuantity drops a
\* key that is gone since the SCAN.
GetCounter(w) ==
  /\ flusher[w].pc = "get"
  /\ \E s \in DOMAIN flusher[w].todo :
       LET n == flusher[w].todo[s] IN
       /\ n > 0
       /\ Flush(w, [pc |-> "get", todo |-> [flusher[w].todo EXCEPT ![s] = n - 1],
                    left |-> IF redisCount[s] > 0 THEN With(flusher[w].left, <<s, n>>, redisCount[s])
                             ELSE flusher[w].left])
       /\ unread' = [unread EXCEPT ![s] = 0]
       /\ rereads' = rereads + (redisCount[s] - unread[s])
  /\ UNCHANGED HubState /\ UNCHANGED <<losses, redisCount, usageRow>>

DeleteCounters(keys) ==
  /\ redisCount' = [s \in Slots |-> IF s \in keys THEN 0 ELSE redisCount[s]]
  /\ unread' = [s \in Slots |-> IF s \in keys THEN 0 ELSE unread[s]]

AllRead(w) == flusher[w].pc = "get" /\ \A s \in DOMAIN flusher[w].todo : flusher[w].todo[s] = 0

DelCounters(w) ==
  /\ AllRead(w)
  /\ DeleteCounters(DOMAIN flusher[w].todo)
  /\ Flush(w, [pc |-> "write", left |-> flusher[w].left])
  /\ UNCHANGED HubState /\ UNCHANGED <<losses, rereads, usageRow>>

\* A command of the drain that throws ends the tick; a DEL may have been done.
DrainThrows(w) ==
  /\ flusher[w].pc = "get" /\ losses < MaxLosses /\ losses' = losses + 1
  /\ Flush(w, IdleFlush)
  /\ \/ UNCHANGED <<redisCount, unread>>
     \/ AllRead(w) /\ DeleteCounters(DOMAIN flusher[w].todo)
  /\ UNCHANGED HubState /\ UNCHANGED <<rereads, usageRow>>

resolveApiKeyRowId(s) == IF s \in KnownKeys THEN s ELSE Rollup
Wrote(w, c) == Flush(w, [pc |-> "write", left |-> Apart(flusher[w].left, c)])
storeState == <<redisCount, unread, rereads>>

\* upsertQuantity of a key: one upsert.
UpsertKeyed(w) ==
  /\ flusher[w].pc = "write"
  /\ \E c \in DOMAIN flusher[w].left :
       /\ resolveApiKeyRowId(c[1]) # Rollup
       /\ usageRow' = [usageRow EXCEPT ![c[1]] = @ + flusher[w].left[c]]
       /\ Wrote(w, c)
  /\ UNCHANGED HubState /\ UNCHANGED <<losses, storeState>>

\* Mutant of FindRollup.
FindRollupNever(w) ==
  /\ flusher[w].pc = "write"
  /\ \E c \in DOMAIN flusher[w].left :
       /\ resolveApiKeyRowId(c[1]) = Rollup
       /\ Flush(w, [pc |-> "rollup", left |-> flusher[w].left, counter |-> c, existing |-> 0])
  /\ UNCHANGED HubState /\ UNCHANGED <<losses, storeState, usageRow>>
\* ... of the rollup: findFirst, in no order, of its rows ...
FindRollup(w) ==
  LET rows == DOMAIN usageRow[Rollup] IN
  /\ flusher[w].pc = "write"
  /\ \E c \in DOMAIN flusher[w].left, row \in IF rows = {} THEN {0} ELSE rows :
       /\ resolveApiKeyRowId(c[1]) = Rollup
       /\ Flush(w, [pc |-> "rollup", left |-> flusher[w].left, counter |-> c, existing |-> row])
  /\ UNCHANGED HubState /\ UNCHANGED <<losses, storeState, usageRow>>

\* ... and the update of the row found or the create.
WriteRollup(w) ==
  LET rows == usageRow[Rollup]
      row == flusher[w].existing
      n == flusher[w].left[flusher[w].counter] IN
  /\ flusher[w].pc = "rollup"
  /\ usageRow' = [usageRow EXCEPT ![Rollup] =
       IF row # 0 THEN [rows EXCEPT ![row] = @ + n]
       ELSE With(rows, Cardinality(DOMAIN rows) + 1, n)]
  /\ Wrote(w, flusher[w].counter)
  /\ UNCHANGED HubState /\ UNCHANGED <<losses, storeState>>

\* A write that throws loses its counter and no other.
WriteFails(w) ==
  /\ flusher[w].pc = "write" /\ losses < MaxLosses
  /\ losses' = losses + 1
  /\ \E c \in DOMAIN flusher[w].left : Wrote(w, c)
  /\ UNCHANGED HubState /\ UNCHANGED <<storeState, usageRow>>

FlushEnds(w) ==
  /\ flusher[w].pc = "write" /\ DOMAIN flusher[w].left = {}
  /\ Flush(w, IdleFlush)
  /\ UNCHANGED HubState /\ UNCHANGED <<losses, storeState, usageRow>>

\* The API process ends in the middle of a drain.
ApiEnds ==
  /\ losses < MaxLosses /\ losses' = losses + 1
  /\ \E w \in Flushers : flusher[w].pc # "idle"
  /\ flusher' = [w \in Flushers |-> IdleFlush]
  /\ UNCHANGED HubState /\ UNCHANGED <<storeState, usageRow>>

FlushStep(w) ==
  \/ ScanKeys(w) \/ GetCounter(w) \/ DelCounters(w) \/ UpsertKeyed(w)
  \/ FindRollup(w) \/ WriteRollup(w) \/ FlushEnds(w)

UsageNext ==
  \/ CheckCached \/ PlanExpires \/ NextMinute \/ FlushAccumulator \/ HubEnds \/ ApiEnds
  \/ \E r \in Lookers : AskPlan(r) \/ PlanAnswers(r) \/ PlanFails(r)
  \/ \E k \in KeySlots : IncrementUsage(k)
  \/ \E w \in Flushers : FlushStep(w) \/ DrainThrows(w) \/ WriteFails(w)

UsageSpec == UsageInit /\ [][UsageNext]_usageVars

\* The hub's 30 s timer and the worker's 5 min timer keep running, and a tick's
\* awaits end.
UsageFairness ==
  /\ WF_usageVars(FlushAccumulator)
  /\ \A w \in Flushers : WF_usageVars(FlushStep(w))
UsageLiveSpec == UsageSpec /\ UsageFairness

(***************************************************************************)
(* Properties.                                                             *)
(***************************************************************************)
Sum(f) == LET S == DOMAIN f
              sum[T \in SUBSET S] == IF T = {} THEN 0
                ELSE LET x == CHOOSE x \in T : TRUE IN f[x] + sum[T \ {x}]
          IN sum[S]
Recorded == Sum([k \in KeySlots |-> usageRow[k]]) + Sum(usageRow[Rollup])

(* What the rows hold, what is accumulated and what the counters hold that   *)
(* no drain has read is never more than the requests served and those a      *)
(* drain read again before they were deleted, because SCAN listed their key  *)
(* twice, two ticks overlapped or the tick that read them first failed.      *)
(* Lost writes and restarts lose counts and add none, and where no counter   *)
(* is read again nothing is counted twice.                                   *)
NeverOvercounts == Recorded + Sum(unread) + accumulator =< servedTotal + rereads

(* No unique index keeps a period's rollup to one row: there is one for one  *)
(* flush tick, and never more than the ticks that overlap.                   *)
FewRollupRows == Cardinality(DOMAIN usageRow[Rollup]) =< Cardinality(Flushers)

(* A hub process lets through, in one minute, no more limited requests than  *)
(* the largest limit that a lookup gave it in that minute or the one before, *)
(* the fallback of a failed lookup included: no limit outlives its minute in *)
(* the cache by more than one.                                               *)
PublicRateRespected == allowedNow =< largest \/ allowedNow =< largestBefore

(* Usage is counted and limited on the way in: through the hub's             *)
(* accumulator, Redis and the API's flush worker, with lost writes and       *)
(* restarts of either process (PublicPathUsageLimiter, FlushUsageWorker).    *)
UsageCounted == NeverOvercounts /\ FewRollupRows /\ PublicRateRespected

(* Every counter in Redis is drained: a flush tick does not leave one behind *)
(* for good.                                                                 *)
CountersDrained == \A s \in Slots : redisCount[s] > 0 ~> redisCount[s] = 0
=============================================================================
