---------------------------- MODULE ReplayWindow ----------------------------
(***************************************************************************)
(* Validation of a signed SDK message at the hub: the timestamp window,    *)
(* the request id remembered in Redis and the per-minute rate limit        *)
(* (HubAuth.service.ts, packages/shared/src/validateApiKey.ts).            *)
(*                                                                         *)
(* A signed message may be delivered any number of times.  Its validation  *)
(* checks the timestamp first and remembers the id later, after the key    *)
(* has been loaded; MaxDelay bounds that time.  The key's own checks are   *)
(* module ApiKeys; here every signature is good.                           *)
(***************************************************************************)
EXTENDS Integers, FiniteSets

CONSTANTS Signed,       \* signed messages, each with its requestId
          TsOf,         \* the timestamp each carries
          Checks,       \* validations that may run at once
          Window,       \* SIGNATURE_WINDOW_MS
          ReplayTtl,    \* REPLAY_WINDOW_MS
          MaxDelay,     \* the longest a validation waits before it marks the id
          RateLimit,    \* rateLimitPerMinute of the cached key
          Minute,       \* length of a minute
          MaxNow, MaxFaults \* bounds on the clock and on failing Redis calls

ASSUME ReplayAssumption ==
  /\ TsOf \in [Signed -> Int] /\ IsFiniteSet(Checks)
  /\ Window \in Nat /\ MaxDelay \in Nat /\ ReplayTtl \in Nat
  /\ ReplayTtl > 2 * Window + MaxDelay
  /\ RateLimit \in Nat /\ Minute \in Nat \ {0} /\ MaxNow \in Nat /\ MaxFaults \in Nat

VARIABLES
  instant,
  markedUntil,  \* Redis: when the mark of a requestId expires
  check,        \* running validations
  rateCount,    \* Redis: the counter of the current minute
  admitted,     \* how often a message was accepted
  openMarks,    \* how often its mark failed and was taken for new
  minuteAdmits, \* accepted in this minute on a count Redis gave
  faults

replayVars == <<instant, markedUntil, check, rateCount, admitted, openMarks,
                minuteAdmits, faults>>

IdleCheck == [pc |-> "idle"]
CheckRecord ==
  {IdleCheck} \cup [pc : {"mark", "rate"}, msg : Signed, since : Nat]

ReplayInit ==
  /\ instant = 0
  /\ markedUntil = [q \in Signed |-> 0]
  /\ check = [v \in Checks |-> IdleCheck]
  /\ rateCount = 0 /\ minuteAdmits = 0
  /\ admitted = [q \in Signed |-> 0]
  /\ openMarks = [q \in Signed |-> 0]
  /\ faults = 0

checkTimestampOneSided(q) == instant - TsOf[q] =< Window
checkTimestamp(q) == instant - TsOf[q] =< Window /\ TsOf[q] - instant =< Window

\* authenticateRequest and authenticateSdkRegister: the same window is checked
\* by the hub and again by the validation.
AuthenticateRequest(v, q) ==
  /\ check[v].pc = "idle"
  /\ checkTimestamp(q)
  /\ check' = [check EXCEPT ![v] = [pc |-> "mark", msg |-> q, since |-> instant]]
  /\ UNCHANGED <<instant, markedUntil, rateCount, admitted, openMarks, minuteAdmits, faults>>

\* SET NX PX: a message that is still marked is a replay.
MarkRequestId(v) ==
  LET q == check[v].msg IN
  /\ check[v].pc = "mark"
  /\ IF markedUntil[q] > instant
     THEN /\ check' = [check EXCEPT ![v] = IdleCheck]
          /\ UNCHANGED markedUntil
     ELSE /\ check' = [check EXCEPT ![v].pc = "rate"]
          /\ markedUntil' = [markedUntil EXCEPT ![q] = instant + ReplayTtl]
  /\ UNCHANGED <<instant, rateCount, admitted, openMarks, minuteAdmits, faults>>

\* Redis fails: the message is taken for new and nothing is remembered.
MarkFailsOpen(v) ==
  /\ check[v].pc = "mark" /\ faults < MaxFaults
  /\ check' = [check EXCEPT ![v].pc = "rate"]
  /\ openMarks' = [openMarks EXCEPT ![check[v].msg] = @ + 1]
  /\ faults' = faults + 1
  /\ UNCHANGED <<instant, markedUntil, rateCount, admitted, minuteAdmits>>

overLimitLate(count) == count > RateLimit + 1
overLimit(count) == count > RateLimit

\* INCR of the minute's counter, and the verdict on what it returned.
IncrementRateLimit(v) ==
  LET q == check[v].msg IN
  /\ check[v].pc = "rate"
  /\ rateCount' = rateCount + 1
  /\ IF overLimit(rateCount + 1)
     THEN UNCHANGED <<admitted, minuteAdmits>>
     ELSE /\ admitted' = [admitted EXCEPT ![q] = @ + 1]
          /\ minuteAdmits' = minuteAdmits + 1
  /\ check' = [check EXCEPT ![v] = IdleCheck]
  /\ UNCHANGED <<instant, markedUntil, openMarks, faults>>

RateFailsOpen(v) ==
  /\ check[v].pc = "rate" /\ faults < MaxFaults
  /\ admitted' = [admitted EXCEPT ![check[v].msg] = @ + 1]
  /\ check' = [check EXCEPT ![v] = IdleCheck]
  /\ faults' = faults + 1
  /\ UNCHANGED <<instant, markedUntil, rateCount, openMarks, minuteAdmits>>

\* A new minute has a counter of its own.
NowTicks ==
  /\ instant < MaxNow
  /\ \A v \in Checks : check[v].pc = "mark" => instant + 1 - check[v].since =< MaxDelay
  /\ instant' = instant + 1
  /\ IF (instant + 1) % Minute = 0
     THEN rateCount' = 0 /\ minuteAdmits' = 0
     ELSE UNCHANGED <<rateCount, minuteAdmits>>
  /\ UNCHANGED <<markedUntil, check, admitted, openMarks, faults>>

ReplayNext ==
  \/ \E v \in Checks :
       \/ \E q \in Signed : AuthenticateRequest(v, q)
       \/ MarkRequestId(v) \/ MarkFailsOpen(v)
       \/ IncrementRateLimit(v) \/ RateFailsOpen(v)
  \/ NowTicks

ReplaySpec == ReplayInit /\ [][ReplayNext]_replayVars

(***************************************************************************)
(* Properties.                                                             *)
(***************************************************************************)
(* The clock, the marks, the counters and the validations have their types.  *)
ReplayTypeOK ==
  /\ instant \in Nat /\ rateCount \in Nat /\ minuteAdmits \in Nat /\ faults \in Nat
  /\ markedUntil \in [Signed -> Nat]
  /\ check \in [Checks -> CheckRecord]
  /\ admitted \in [Signed -> Nat] /\ openMarks \in [Signed -> Nat]

(* A signed message is accepted at most once, however often it is delivered  *)
(* and however the validations interleave, except for the deliveries whose   *)
(* mark could not be written to Redis.                                       *)
AcceptedOnce == \A q \in Signed : admitted[q] =< 1 + openMarks[q]

(* In a minute a key is granted at most its limit, except when Redis fails.  *)
RateRespected == minuteAdmits =< RateLimit

(* What the hub admits: a signed message once, and no more than the limit in *)
(* a minute, whatever the interleaving of the validations (validateApiKey,   *)
(* markRequestId and incrementRateLimit).                                    *)
RequestsAdmitted == AcceptedOnce /\ RateRespected

\* The inductive invariant of AcceptedOnce: past the first mark, whoever still
\* waits to mark does so while the mark lasts.
Pending(q) == {v \in Checks : check[v].pc = "rate" /\ check[v].msg = q}
Marked(q) == markedUntil[q] # 0
MarkCovers ==
  \A q \in Signed :
    /\ Marked(q) => markedUntil[q] > TsOf[q] + Window + MaxDelay
    /\ \A v \in Checks : check[v].pc = "mark" /\ check[v].msg = q =>
         /\ instant =< check[v].since + MaxDelay
         /\ check[v].since =< TsOf[q] + Window
         /\ TsOf[q] - Window =< check[v].since
         /\ check[v].since =< instant
AcceptedByMark ==
  \A q \in Signed :
    admitted[q] + Cardinality(Pending(q)) =< (IF Marked(q) THEN 1 ELSE 0) + openMarks[q]
=============================================================================
