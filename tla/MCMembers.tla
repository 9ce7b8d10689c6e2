----------------------------- MODULE MCMembers ------------------------------
(***************************************************************************)
(* One organization and three people, for TLC.                             *)
(***************************************************************************)
EXTENDS Members, TLC

Symmetry == Permutations(Users) \cup Permutations(Invites) \cup Permutations(OrgJobs)
=============================================================================
