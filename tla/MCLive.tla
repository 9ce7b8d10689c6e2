------------------------------- MODULE MCLive -------------------------------
(***************************************************************************)
(* What must eventually happen, for TLC: the end of a grace period         *)
(* (Billing), the draining of usage counters (UsageFlush), the settling of *)
(* SDK calls (SdkClient) and of the calls of a browser's tabs              *)
(* (WebSession).  They share no state, so a behaviour exercises one of     *)
(* them, which focus names; the fairness of the others is void, since      *)
(* their steps are not taken.                                              *)
(***************************************************************************)
EXTENDS Billing, UsageFlush, SdkClient, WebSession

CONSTANTS a1, s1

VARIABLE focus

MCAccountOf == [s \in {s1} |-> a1]

Init ==
  /\ focus \in {"billing", "usage", "sdk", "web"}
  /\ BillingInit /\ (focus # "billing" => stripe[s1].status = "none")
  /\ UsageInit /\ SdkInit /\ WebInit

Next ==
  /\ UNCHANGED focus
  /\ IF focus = "billing" THEN BillingNext ELSE UNCHANGED billingVars
  /\ IF focus = "usage" THEN UsageNext ELSE UNCHANGED usageVars
  /\ IF focus = "sdk" THEN SdkNext ELSE UNCHANGED sdkVars
  /\ IF focus = "web" THEN WebNext ELSE UNCHANGED webVars

vars == <<focus, billingVars, usageVars, sdkVars, webVars>>

\* The fairness of each component, over the behaviours about it.
Fairness ==
  /\ WF_billingVars(focus = "billing" /\ WorkerNext)
  /\ WF_billingVars(focus = "billing" /\ ClockTicks)
  /\ WF_usageVars(focus = "usage" /\ FlushAccumulator)
  /\ \A w \in Flushers : WF_usageVars(focus = "usage" /\ FlushStep(w))
  /\ \A c \in Calls : WF_sdkVars(focus = "sdk" /\ TimeoutFires(c))
  /\ \A t \in Tabs :
       /\ WF_webVars(focus = "web" /\ bootstrapSession(t))
       /\ SF_webVars(focus = "web" /\ bootstrapSends(t))
       /\ WF_webVars(focus = "web" /\ bootstrapEnds(t))
       /\ WF_webVars(focus = "web" /\ AuthGuard(t))
       /\ SF_webVars(focus = "web" /\ interceptorSends(t))
       /\ WF_webVars(focus = "web" /\ (refreshOk(t) \/ refreshFails(t)))
  /\ \A r \in Requests : WF_webVars(focus = "web" /\ RequestEnds(r))

Spec == Init /\ [][Next]_vars /\ Fairness
=============================================================================
