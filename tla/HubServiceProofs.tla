-------------------------- MODULE HubServiceProofs --------------------------
(***************************************************************************)
(* Proofs about the hub's start and its door: a hub that starts answers    *)
(* for nothing of an earlier process (HubLifecycle); a signed message is   *)
(* accepted once and a minute grants no more than the limit                *)
(* (ReplayWindow), for any number of messages, of validations that         *)
(* overlap and of Redis calls that fail.                                   *)
(***************************************************************************)
EXTENDS HubLifecycle, ReplayWindow, FiniteSetTheorems, TLAPS

-----------------------------------------------------------------------------
(* The start. *)

\* Everything a process writes carries its id, the one configured or one never
\* used before; what it is still to write is of its own agents; and each
\* clean-up that succeeded leaves nothing for the stages after it.  Without a
\* configured id the clean-ups find nothing, as nothing carries a new id.
WrittenUnderAnId ==
  /\ \A a \in Agent : sessionRows[a].status = "CONNECTED" => sessionRows[a].by \in used
  /\ \A l \in Label : route[l].agent # None => route[l].by \in used
  /\ hubStage # "down" => id \in used

WrittenByConfigured ==
  configuredId # None =>
    /\ hubStage # "down" => id = configuredId
    /\ \A a \in Agent : sessionRows[a].status = "CONNECTED" => sessionRows[a].by = configuredId
    /\ \A l \in Label : route[l].agent # None => route[l].by = configuredId

WritesOfServed ==
  /\ hubStage # "up" => writes = {}
  /\ \A a \in Agent, k \in {"row", "route"} : <<a, k>> \in writes => a \in registeredHere

\* The CONNECTED rows, and the routes, with the id of the process are its own.
OwnRows ==
  \A a \in Agent :
    sessionRows[a].status = "CONNECTED" /\ sessionRows[a].by = id => a \in registeredHere

OwnRoutes ==
  \A l \in Label :
    route[l].agent # None /\ route[l].by = id => route[l].agent \in registeredHere

RowsCleaned ==
  /\ hubStage # "down"
  /\ configuredId = None \/ (hubStage # "evicting" /\ clean)
  => OwnRows

RoutesCleaned ==
  /\ hubStage # "down"
  /\ configuredId = None \/ (hubStage = "up" /\ clean)
  => OwnRoutes

Cleaned == /\ WrittenUnderAnId /\ WrittenByConfigured /\ WritesOfServed
           /\ RowsCleaned /\ RoutesCleaned

\* Type correctness: every step of a start, a registration, a close or an exit
\* keeps the variables in their types.
THEOREM LifecycleTypeCorrect == LifecycleSpec => []LifecycleTypeOK
<1>1. LifecycleInit => LifecycleTypeOK
  <2> SUFFICES ASSUME LifecycleInit PROVE LifecycleTypeOK
    OBVIOUS
  <2>1. noRow \in [status : {"none", "CONNECTED", "DISCONNECTED", "EVICTED"}, by : Id \cup {None}]
    BY DEF noRow
  <2>2. noRoute \in [agent : Agent \cup {None}, by : Id \cup {None}]
    BY DEF noRoute
  <2>3. clean \in BOOLEAN
    BY Zenon DEF LifecycleInit
  <2> QED BY <2>1, <2>2, <2>3 DEF LifecycleInit, LifecycleTypeOK
<1>2. LifecycleTypeOK /\ [LifecycleNext]_lifecycleVars => LifecycleTypeOK'
  <2> SUFFICES ASSUME LifecycleTypeOK, [LifecycleNext]_lifecycleVars PROVE LifecycleTypeOK'
    OBVIOUS
  <2> USE LifecycleAssumption DEF LifecycleTypeOK
  <2>1. CASE Construct
    BY <2>1 DEF Construct
  <2>2. CASE EvictStale
    BY <2>2 DEF EvictStale
  <2>3. CASE UnregisterAllForHub
    BY <2>3 DEF UnregisterAllForHub, noRoute
  <2>4. CASE CleanupFails
    BY <2>4 DEF CleanupFails
  <2>5. CASE Exit
    BY <2>5 DEF Exit
  <2>6. ASSUME NEW a \in Agent, NEW l \in Label, AgentRegisters(a, l) PROVE LifecycleTypeOK'
    BY <2>6 DEF AgentRegisters
  <2>7. ASSUME NEW a \in Agent, WriteRow(a) PROVE LifecycleTypeOK'
    BY <2>7 DEF WriteRow
  <2>8. ASSUME NEW a \in Agent, WriteRoute(a) PROVE LifecycleTypeOK'
    BY <2>8 DEF WriteRoute
  <2>9. ASSUME NEW a \in Agent, Close(a) PROVE LifecycleTypeOK'
    BY <2>9, ZenonT(60) DEF Close, noRoute
  <2>10. CASE UNCHANGED lifecycleVars
    BY <2>10 DEF lifecycleVars
  <2> QED BY <2>1, <2>2, <2>3, <2>4, <2>5, <2>6, <2>7, <2>8, <2>9, <2>10 DEF LifecycleNext
<1> QED BY <1>1, <1>2, PTL DEF LifecycleSpec

\* A hub that listens after its clean-ups succeeded answers for no row and no
\* route but those of its own process, whatever crashes and stops came before:
\* everything there is when the id is configured, and else what carries its id
\* (HubServer.start, evictStaleForInstance, unregisterAllForHub).
THEOREM StartLeavesNothingStale == LifecycleSpec => []NothingStaleAfterStart
<1> USE LifecycleAssumption
<1>1. LifecycleInit => Cleaned
  BY DEF LifecycleInit, Cleaned, WrittenUnderAnId, WrittenByConfigured, WritesOfServed,
         RowsCleaned, RoutesCleaned, noRow, noRoute
<1>2. LifecycleTypeOK /\ Cleaned /\ [LifecycleNext]_lifecycleVars => Cleaned'
  <2> SUFFICES ASSUME LifecycleTypeOK, Cleaned, [LifecycleNext]_lifecycleVars PROVE Cleaned'
    OBVIOUS
  <2> USE DEF LifecycleTypeOK, Cleaned, WrittenUnderAnId, WrittenByConfigured, WritesOfServed,
              OwnRows, OwnRoutes, RowsCleaned, RoutesCleaned
  <2>1. CASE Construct
    BY <2>1 DEF Construct
  <2>2. CASE EvictStale
    BY <2>2 DEF EvictStale
  <2>3. CASE UnregisterAllForHub
    BY <2>3 DEF UnregisterAllForHub, noRoute
  <2>4. CASE CleanupFails
    BY <2>4 DEF CleanupFails
  <2>5. CASE Exit
    BY <2>5 DEF Exit
  <2>6. ASSUME NEW a \in Agent, NEW l \in Label, AgentRegisters(a, l) PROVE Cleaned'
    BY <2>6 DEF AgentRegisters
  <2>7. ASSUME NEW a \in Agent, WriteRow(a) PROVE Cleaned'
    BY <2>7 DEF WriteRow
  <2>8. ASSUME NEW a \in Agent, WriteRoute(a) PROVE Cleaned'
    BY <2>8 DEF WriteRoute
  <2>9. ASSUME NEW a \in Agent, Close(a) PROVE Cleaned'
    BY <2>9 DEF Close, noRoute
  <2>10. CASE UNCHANGED lifecycleVars
    BY <2>10 DEF lifecycleVars
  <2> QED BY <2>1, <2>2, <2>3, <2>4, <2>5, <2>6, <2>7, <2>8, <2>9, <2>10 DEF LifecycleNext
<1>3. Cleaned => NothingStaleAfterStart
  BY DEF Cleaned, WrittenByConfigured, RowsCleaned, RoutesCleaned, OwnRows, OwnRoutes,
         NothingStaleAfterStart, Ours
<1> QED BY LifecycleTypeCorrect, <1>1, <1>2, <1>3, PTL DEF LifecycleSpec

-----------------------------------------------------------------------------
(* Admission. *)

\* No more was granted in a minute than its counter says.
RateInv == minuteAdmits =< rateCount /\ minuteAdmits =< RateLimit

ReplayInv == ReplayTypeOK /\ MarkCovers /\ AcceptedByMark /\ RateInv

\* A validation that is not idle has its message and its start.
LEMMA CheckFields ==
  ASSUME ReplayTypeOK, NEW v \in Checks, check[v].pc \in {"mark", "rate"}
  PROVE  /\ check[v] \in [pc : {"mark", "rate"}, msg : Signed, since : Nat]
         /\ check[v].msg \in Signed /\ check[v].since \in Nat
<1>1. check[v] \in CheckRecord
  BY DEF ReplayTypeOK
<1>2. check[v] # IdleCheck
  BY DEF IdleCheck
<1> QED BY <1>1, <1>2 DEF CheckRecord

\* The validations past their mark are finitely many.
LEMMA PendingFinite ==
  ASSUME NEW q
  PROVE  IsFiniteSet(Pending(q)) /\ Cardinality(Pending(q)) \in Nat
<1>1. Pending(q) \subseteq Checks
  BY DEF Pending
<1>2. IsFiniteSet(Pending(q))
  BY <1>1, FS_Subset, ReplayAssumption
<1> QED BY <1>2, FS_CardinalityType

\* A validation that passes its mark joins those waiting to be counted.
LEMMA PendingJoins ==
  ASSUME ReplayTypeOK, NEW v \in Checks, check[v].pc = "mark", NEW q \in Signed,
         check' = [check EXCEPT ![v].pc = "rate"]
  PROVE  /\ Pending(q)' = IF q = check[v].msg THEN Pending(q) \cup {v} ELSE Pending(q)
         /\ IsFiniteSet(Pending(q)')
         /\ Cardinality(Pending(q)') =
              Cardinality(Pending(q)) + (IF q = check[v].msg THEN 1 ELSE 0)
<1>1. check[v].msg \in Signed /\ check[v] \in [pc : {"mark", "rate"}, msg : Signed, since : Nat]
  BY CheckFields
<1>2. check'[v].pc = "rate" /\ check'[v].msg = check[v].msg
  BY <1>1 DEF ReplayTypeOK
<1>3. \A w \in Checks : w # v => check'[w] = check[w]
  BY DEF ReplayTypeOK
<1>4. Pending(q)' = IF q = check[v].msg THEN Pending(q) \cup {v} ELSE Pending(q)
  BY <1>2, <1>3 DEF Pending
<1>5. v \notin Pending(q)
  BY DEF Pending
<1>6. Cardinality(Pending(q) \cup {v}) = Cardinality(Pending(q)) + 1 /\ IsFiniteSet(Pending(q) \cup {v})
  BY <1>5, PendingFinite, FS_AddElement
<1> QED BY <1>4, <1>6, PendingFinite

\* A validation that is over leaves them.
LEMMA PendingLeaves ==
  ASSUME ReplayTypeOK, NEW v \in Checks, check[v].pc = "rate", NEW q \in Signed,
         check' = [check EXCEPT ![v] = IdleCheck]
  PROVE  /\ IsFiniteSet(Pending(q)')
         /\ Cardinality(Pending(q)') =
              Cardinality(Pending(q)) - (IF q = check[v].msg THEN 1 ELSE 0)
<1>2. check'[v].pc = "idle"
  BY DEF ReplayTypeOK, IdleCheck
<1>3. \A w \in Checks : w # v => check'[w] = check[w]
  BY DEF ReplayTypeOK
<1>4. Pending(q)' = IF q = check[v].msg THEN Pending(q) \ {v} ELSE Pending(q)
  BY <1>2, <1>3 DEF Pending
<1>5. q = check[v].msg => v \in Pending(q)
  BY DEF Pending
<1>6. CASE q = check[v].msg
  <2>1. Cardinality(Pending(q) \ {v}) = Cardinality(Pending(q)) - 1 /\ IsFiniteSet(Pending(q) \ {v})
    BY <1>5, <1>6, PendingFinite, FS_RemoveElement
  <2> QED BY <1>4, <1>6, <2>1
<1>7. CASE q # check[v].msg
  BY <1>4, <1>7, PendingFinite
<1> QED BY <1>6, <1>7

\* The steps that neither mark nor count leave them alone.
LEMMA PendingSame ==
  ASSUME ReplayTypeOK, NEW v \in Checks, check[v].pc # "rate", NEW q \in Signed,
         check'[v].pc # "rate", \A w \in Checks : w # v => check'[w] = check[w]
  PROVE  Pending(q)' = Pending(q)
BY DEF Pending

\* Every step keeps the types.
LEMMA TypeStep ==
  ASSUME ReplayTypeOK, [ReplayNext]_replayVars
  PROVE  ReplayTypeOK'
<1> USE ReplayAssumption
<1>1. ASSUME NEW v \in Checks, NEW q \in Signed, AuthenticateRequest(v, q) PROVE ReplayTypeOK'
  <2>1. [pc |-> "mark", msg |-> q, since |-> instant] \in CheckRecord
    BY DEF CheckRecord, ReplayTypeOK
  <2> QED BY <1>1, <2>1 DEF AuthenticateRequest, ReplayTypeOK
<1>2. ASSUME NEW v \in Checks, check[v].pc = "mark" PROVE [check[v] EXCEPT !.pc = "rate"] \in CheckRecord
  BY <1>2, CheckFields DEF CheckRecord
<1>3. ASSUME NEW v \in Checks, MarkRequestId(v) PROVE ReplayTypeOK'
  <2>1. check[v].pc = "mark" /\ check[v].msg \in Signed
    BY <1>3, CheckFields DEF MarkRequestId
  <2>2. IdleCheck \in CheckRecord
    BY DEF CheckRecord
  <2>3. check' \in [Checks -> CheckRecord]
    BY <1>2, <1>3, <2>1, <2>2 DEF MarkRequestId, ReplayTypeOK
  <2>4. markedUntil' \in [Signed -> Nat]
    BY <1>3, <2>1 DEF MarkRequestId, ReplayTypeOK
  <2> QED BY <1>3, <2>3, <2>4 DEF MarkRequestId, ReplayTypeOK
<1>4. ASSUME NEW v \in Checks, MarkFailsOpen(v) PROVE ReplayTypeOK'
  <2>1. check[v].pc = "mark" /\ check[v].msg \in Signed
    BY <1>4, CheckFields DEF MarkFailsOpen
  <2>2. check' \in [Checks -> CheckRecord]
    BY <1>2, <1>4, <2>1 DEF MarkFailsOpen, ReplayTypeOK
  <2>3. openMarks' \in [Signed -> Nat]
    BY <1>4, <2>1 DEF MarkFailsOpen, ReplayTypeOK
  <2> QED BY <1>4, <2>2, <2>3 DEF MarkFailsOpen, ReplayTypeOK
<1>5. ASSUME NEW v \in Checks, IncrementRateLimit(v) \/ RateFailsOpen(v) PROVE ReplayTypeOK'
  <2>1. check[v].pc = "rate" /\ check[v].msg \in Signed
    BY <1>5, CheckFields DEF IncrementRateLimit, RateFailsOpen
  <2>2. IdleCheck \in CheckRecord
    BY DEF CheckRecord
  <2>3. check' \in [Checks -> CheckRecord]
    BY <1>5, <2>2 DEF IncrementRateLimit, RateFailsOpen, ReplayTypeOK
  <2>4. admitted' \in [Signed -> Nat]
    BY <1>5, <2>1 DEF IncrementRateLimit, RateFailsOpen, ReplayTypeOK
  <2> QED BY <1>5, <2>3, <2>4 DEF IncrementRateLimit, RateFailsOpen, ReplayTypeOK
<1>6. CASE NowTicks
  BY <1>6 DEF NowTicks, ReplayTypeOK
<1>7. CASE UNCHANGED replayVars
  BY <1>7 DEF replayVars, ReplayTypeOK
<1> QED BY <1>1, <1>3, <1>4, <1>5, <1>6, <1>7 DEF ReplayNext

\* Whoever still waits to mark a message does so before its mark expires.
LEMMA CoverStep ==
  ASSUME ReplayTypeOK, ReplayTypeOK', MarkCovers, [ReplayNext]_replayVars
  PROVE  MarkCovers'
<1> USE ReplayAssumption
<1>1. ASSUME NEW v \in Checks, NEW q \in Signed, AuthenticateRequest(v, q) PROVE MarkCovers'
  BY <1>1 DEF AuthenticateRequest, checkTimestamp, MarkCovers, ReplayTypeOK, Marked
<1>3. ASSUME NEW v \in Checks, MarkRequestId(v) PROVE MarkCovers'
  <2>1. /\ check[v].pc = "mark" /\ check[v].msg \in Signed
        /\ check[v] \in [pc : {"mark", "rate"}, msg : Signed, since : Nat]
    BY <1>3, CheckFields DEF MarkRequestId
  <2>2. /\ check'[v].pc # "mark"
        /\ \A w \in Checks : w # v => check'[w] = check[w]
    BY <1>3, <2>1 DEF MarkRequestId, ReplayTypeOK, IdleCheck
  <2>3. /\ TsOf[check[v].msg] - Window =< instant
        /\ instant' = instant
    BY <1>3, <2>1 DEF MarkRequestId, MarkCovers, ReplayTypeOK
  <2>4. instant + ReplayTtl > TsOf[check[v].msg] + Window + MaxDelay
    BY <2>1, <2>3 DEF ReplayTypeOK
  <2>5. \A q \in Signed : \/ markedUntil'[q] = markedUntil[q]
                          \/ q = check[v].msg /\ markedUntil'[q] = instant + ReplayTtl
    BY <1>3, <2>1 DEF MarkRequestId, ReplayTypeOK
  <2> QED BY <2>1, <2>2, <2>3, <2>4, <2>5 DEF MarkCovers, Marked
<1>4. ASSUME NEW v \in Checks, MarkFailsOpen(v) \/ IncrementRateLimit(v) \/ RateFailsOpen(v)
      PROVE MarkCovers'
  <2>1. /\ check[v] \in [pc : {"mark", "rate"}, msg : Signed, since : Nat]
    BY <1>4, CheckFields DEF MarkFailsOpen, IncrementRateLimit, RateFailsOpen
  <2>2. /\ check'[v].pc # "mark"
        /\ \A w \in Checks : w # v => check'[w] = check[w]
    BY <1>4, <2>1 DEF MarkFailsOpen, IncrementRateLimit, RateFailsOpen, ReplayTypeOK, IdleCheck
  <2>3. UNCHANGED <<instant, markedUntil>>
    BY <1>4 DEF MarkFailsOpen, IncrementRateLimit, RateFailsOpen
  <2> QED BY <2>2, <2>3 DEF MarkCovers, Marked
<1>6. CASE NowTicks
  <2>1. \A v \in Checks : check[v].pc = "mark" => check[v].since \in Nat
    BY CheckFields
  <2>2. /\ instant \in Nat /\ instant' = instant + 1
        /\ UNCHANGED <<markedUntil, check>>
        /\ \A v \in Checks : check[v].pc = "mark" => instant + 1 - check[v].since =< MaxDelay
    BY <1>6 DEF NowTicks, ReplayTypeOK
  <2>3. \A v \in Checks : check[v].pc = "mark" =>
          instant + 1 =< check[v].since + MaxDelay
    BY <2>1, <2>2
  <2>4. \A q \in Signed, v \in Checks : check[v].pc = "mark" /\ check[v].msg = q =>
          check[v].since =< instant + 1
    BY <2>1, <2>2 DEF MarkCovers
  <2> QED BY <2>2, <2>3, <2>4 DEF MarkCovers, Marked
<1>7. CASE UNCHANGED replayVars
  BY <1>7 DEF replayVars, MarkCovers, Marked
<1> QED BY <1>1, <1>3, <1>4, <1>6, <1>7 DEF ReplayNext

\* Every acceptance, past or to come, has a mark or a mark that failed.
LEMMA AcceptStep ==
  ASSUME ReplayTypeOK, ReplayTypeOK', MarkCovers, AcceptedByMark, [ReplayNext]_replayVars
  PROVE  AcceptedByMark'
<1> USE ReplayAssumption
<1> SUFFICES ASSUME NEW q \in Signed
             PROVE  admitted'[q] + Cardinality(Pending(q)') =<
                      (IF markedUntil'[q] # 0 THEN 1 ELSE 0) + openMarks'[q]
  BY DEF AcceptedByMark, Marked
<1>0. /\ admitted[q] + Cardinality(Pending(q)) =< (IF markedUntil[q] # 0 THEN 1 ELSE 0) + openMarks[q]
      /\ admitted[q] \in Nat /\ openMarks[q] \in Nat /\ markedUntil[q] \in Nat /\ instant \in Nat
      /\ Cardinality(Pending(q)) \in Nat
  BY PendingFinite DEF AcceptedByMark, Marked, ReplayTypeOK
<1>1. ASSUME NEW v \in Checks, NEW p \in Signed, AuthenticateRequest(v, p)
      PROVE  admitted'[q] + Cardinality(Pending(q)') =<
               (IF markedUntil'[q] # 0 THEN 1 ELSE 0) + openMarks'[q]
  <2>0. /\ check[v].pc # "rate" /\ check'[v].pc # "rate"
        /\ \A w \in Checks : w # v => check'[w] = check[w]
    BY <1>1 DEF AuthenticateRequest, ReplayTypeOK
  <2>1. Pending(q)' = Pending(q)
    BY <2>0, PendingSame
  <2> QED BY <1>0, <1>1, <2>1 DEF AuthenticateRequest
<1>2. ASSUME NEW v \in Checks, MarkRequestId(v)
      PROVE  admitted'[q] + Cardinality(Pending(q)') =<
               (IF markedUntil'[q] # 0 THEN 1 ELSE 0) + openMarks'[q]
  <2>1. check[v].pc = "mark" /\ check[v].msg \in Signed /\ check[v].since \in Nat
    BY <1>2, CheckFields DEF MarkRequestId
  <2>2. CASE markedUntil[check[v].msg] > instant
    <3>1. check' = [check EXCEPT ![v] = IdleCheck] /\ UNCHANGED <<markedUntil, admitted, openMarks>>
      BY <1>2, <2>2 DEF MarkRequestId
    <3>0. check'[v].pc # "rate" /\ \A w \in Checks : w # v => check'[w] = check[w]
      BY <3>1 DEF IdleCheck, ReplayTypeOK
    <3>2. Pending(q)' = Pending(q)
      BY <2>1, <3>0, PendingSame
    <3> QED BY <1>0, <3>1, <3>2
  <2>3. CASE ~(markedUntil[check[v].msg] > instant)
    <3>1. /\ check' = [check EXCEPT ![v].pc = "rate"] /\ UNCHANGED <<admitted, openMarks>>
          /\ markedUntil' = [markedUntil EXCEPT ![check[v].msg] = instant + ReplayTtl]
      BY <1>2, <2>3 DEF MarkRequestId
    <3>2. Cardinality(Pending(q)') = Cardinality(Pending(q)) + (IF q = check[v].msg THEN 1 ELSE 0)
      BY <2>1, <3>1, PendingJoins
    <3>3. q = check[v].msg => markedUntil[q] = 0
      BY <1>0, <2>1, <2>3 DEF MarkCovers, Marked, ReplayTypeOK
    <3>4. markedUntil'[q] = IF q = check[v].msg THEN instant + ReplayTtl ELSE markedUntil[q]
      BY <3>1 DEF ReplayTypeOK
    <3>5. instant + ReplayTtl # 0
      BY <1>0
    <3> QED BY <1>0, <3>1, <3>2, <3>3, <3>4, <3>5
  <2> QED BY <2>2, <2>3
<1>3. ASSUME NEW v \in Checks, MarkFailsOpen(v)
      PROVE  admitted'[q] + Cardinality(Pending(q)') =<
               (IF markedUntil'[q] # 0 THEN 1 ELSE 0) + openMarks'[q]
  <2>1. check[v].pc = "mark" /\ check[v].msg \in Signed
    BY <1>3, CheckFields DEF MarkFailsOpen
  <2>2. Cardinality(Pending(q)') = Cardinality(Pending(q)) + (IF q = check[v].msg THEN 1 ELSE 0)
    BY <1>3, <2>1, PendingJoins DEF MarkFailsOpen
  <2>3. openMarks'[q] = openMarks[q] + (IF q = check[v].msg THEN 1 ELSE 0)
    BY <1>3, <2>1, <1>0 DEF MarkFailsOpen, ReplayTypeOK
  <2> QED BY <1>0, <1>3, <2>2, <2>3 DEF MarkFailsOpen
<1>4. ASSUME NEW v \in Checks, IncrementRateLimit(v) \/ RateFailsOpen(v)
      PROVE  admitted'[q] + Cardinality(Pending(q)') =<
               (IF markedUntil'[q] # 0 THEN 1 ELSE 0) + openMarks'[q]
  <2>1. check[v].pc = "rate" /\ check[v].msg \in Signed
    BY <1>4, CheckFields DEF IncrementRateLimit, RateFailsOpen
  <2>2. Cardinality(Pending(q)') = Cardinality(Pending(q)) - (IF q = check[v].msg THEN 1 ELSE 0)
    BY <1>4, <2>1, PendingLeaves DEF IncrementRateLimit, RateFailsOpen
  <2>3. admitted'[q] =< admitted[q] + (IF q = check[v].msg THEN 1 ELSE 0) /\ admitted'[q] \in Nat
    BY <1>4, <2>1, <1>0 DEF IncrementRateLimit, RateFailsOpen, ReplayTypeOK
  <2>4. UNCHANGED <<markedUntil, openMarks>>
    BY <1>4 DEF IncrementRateLimit, RateFailsOpen
  <2> QED BY <1>0, <2>2, <2>3, <2>4
<1>5. CASE NowTicks \/ UNCHANGED replayVars
  <2>1. UNCHANGED <<check, admitted, openMarks, markedUntil>>
    BY <1>5 DEF NowTicks, replayVars
  <2>2. Pending(q)' = Pending(q)
    BY <2>1 DEF Pending
  <2> QED BY <1>0, <2>1, <2>2
<1> QED BY <1>1, <1>2, <1>3, <1>4, <1>5 DEF ReplayNext

\* A minute's grants follow its counter.
LEMMA RateStep ==
  ASSUME ReplayTypeOK, RateInv, [ReplayNext]_replayVars
  PROVE  RateInv'
<1> USE ReplayAssumption DEF RateInv, ReplayTypeOK
<1>1. ASSUME NEW v \in Checks, NEW q \in Signed, AuthenticateRequest(v, q) PROVE RateInv'
  BY <1>1 DEF AuthenticateRequest
<1>2. ASSUME NEW v \in Checks, MarkRequestId(v) \/ MarkFailsOpen(v) \/ RateFailsOpen(v) PROVE RateInv'
  BY <1>2 DEF MarkRequestId, MarkFailsOpen, RateFailsOpen
<1>3. ASSUME NEW v \in Checks, IncrementRateLimit(v) PROVE RateInv'
  BY <1>3 DEF IncrementRateLimit, overLimit
<1>4. CASE NowTicks
  BY <1>4 DEF NowTicks
<1>5. CASE UNCHANGED replayVars
  BY <1>5 DEF replayVars
<1> QED BY <1>1, <1>2, <1>3, <1>4, <1>5 DEF ReplayNext

\* A signed message is accepted at most once, but for the deliveries whose mark
\* Redis lost, and a minute grants at most the limit of the key: for all
\* messages, timestamps and numbers of validations at once (validateApiKey and
\* HubAuth, provided the mark outlives the window by the longest validation).
THEOREM AdmissionCorrect == ReplaySpec => []RequestsAdmitted
<1>1. ReplayInit => ReplayInv
  <2> SUFFICES ASSUME ReplayInit PROVE ReplayInv
    OBVIOUS
  <2> USE ReplayAssumption DEF ReplayInit
  <2>1. ReplayTypeOK
    BY DEF ReplayTypeOK, CheckRecord
  <2>2. MarkCovers
    BY DEF MarkCovers, Marked, IdleCheck
  <2>3. \A q \in Signed : Pending(q) = {}
    BY DEF Pending, IdleCheck
  <2>4. AcceptedByMark
    <3>1. \A q \in Signed : Cardinality(Pending(q)) = 0
      BY <2>3, FS_EmptySet
    <3>2. \A q \in Signed : admitted[q] = 0 /\ openMarks[q] = 0 /\ markedUntil[q] = 0
      OBVIOUS
    <3> QED BY <3>1, <3>2 DEF AcceptedByMark, Marked
  <2> QED BY <2>1, <2>2, <2>4 DEF ReplayInv, RateInv
<1>2. ReplayInv /\ [ReplayNext]_replayVars => ReplayInv'
  BY TypeStep, CoverStep, AcceptStep, RateStep DEF ReplayInv
<1>3. ReplayInv => RequestsAdmitted
  <2> SUFFICES ASSUME ReplayInv PROVE RequestsAdmitted
    OBVIOUS
  <2>1. \A q \in Signed : Cardinality(Pending(q)) \in Nat
    BY PendingFinite
  <2>2. AcceptedOnce
    BY <2>1 DEF ReplayInv, AcceptedByMark, AcceptedOnce, ReplayTypeOK
  <2> QED BY <2>2 DEF ReplayInv, RateInv, RateRespected, RequestsAdmitted
<1> QED BY <1>1, <1>2, <1>3, PTL DEF ReplaySpec

=============================================================================
