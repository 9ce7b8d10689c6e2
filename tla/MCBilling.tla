----------------------------- MODULE MCBilling -----------------------------
(***************************************************************************)
(* One subscription of one account, for TLC.                               *)
(***************************************************************************)
EXTENDS Billing, TLC

CONSTANTS a1, s1, d1, d2

MCAccountOf == [s \in {s1} |-> a1]

\* Two deliveries that may be handled at once are interchangeable.
Symmetry == Permutations({d1, d2})
=============================================================================
