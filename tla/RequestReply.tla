---------------------------- MODULE RequestReply ----------------------------
(***************************************************************************)
(* What the hub promises the callers of a tunnel: a request it has taken   *)
(* up is answered exactly once, whatever becomes of the agent it was sent  *)
(* to.  The hub (module Hub) implements this specification.                *)
(***************************************************************************)
CONSTANT Request

VARIABLE phase   \* request -> "new", "open" or "answered"

Init == phase = [r \in Request |-> "new"]

\* A request is taken up, or is answered as it comes in.
Take(r) ==
  /\ phase[r] = "new"
  /\ \E p \in {"open", "answered"} : phase' = [phase EXCEPT ![r] = p]

\* Requests are answered.  One event may answer several: when an agent is
\* lost, every request that was waiting for it is rejected.
Answer(R) ==
  /\ R # {}
  /\ \A r \in R : phase[r] = "open"
  /\ phase' = [r \in Request |-> IF r \in R THEN "answered" ELSE phase[r]]

Next == (\E r \in Request : Take(r)) \/ (\E R \in SUBSET Request : Answer(R))

\* A request that has been taken up is not left waiting.
Answered(r) == phase[r] = "open" ~> phase[r] = "answered"

Spec == Init /\ [][Next]_phase /\ \A r \in Request : Answered(r)
=============================================================================
