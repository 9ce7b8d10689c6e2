----------------------------- MODULE MCIdentity -----------------------------
(***************************************************************************)
(* Who may act, for TLC: API keys, the admission of the requests signed    *)
(* with them, the sessions of a user and the accounts of the admin         *)
(* console.  None of them writes the rows of another, so a behaviour       *)
(* exercises one of them, which focus names.                               *)
(***************************************************************************)
EXTENDS ApiKeys, ReplayWindow, Sessions, AdminAccess, TLC

CONSTANTS u1, u2, j1, j2

VARIABLE focus

\* An admin and a member; one key, of one scope.
MCRoleOf == [u \in {u1, u2} |-> IF u = u1 THEN ADMIN ELSE MEMBER]
MCLimits ==
  [maxApiKeys |-> 1, prodKeysAllowed |-> FALSE, maxScopesPerKey |-> 1, rotationAllowed |-> TRUE]
MCScopeChoices == {{"tunnel:connect"}}

\* Two messages, signed at 1 and at 3.
MCTsOf == [q \in {"q1", "q2"} |-> IF q = "q1" THEN 1 ELSE 3]

\* The requests in progress, which every component has two of.
Symmetry == Permutations({j1, j2})

Init ==
  /\ focus \in {"keys", "admission", "sessions", "admins"}
  /\ KeysInit /\ ReplayInit /\ SessionsInit /\ AdminInit
  /\ focus = "sessions" \/ user = NoUser

Next ==
  /\ UNCHANGED focus
  /\ \/ focus = "keys" /\ KeysNext /\ UNCHANGED <<replayVars, sessionVars, adminVars>>
     \/ focus = "admission" /\ ReplayNext /\ UNCHANGED <<keyVars, sessionVars, adminVars>>
     \/ focus = "sessions" /\ SessionsNext /\ UNCHANGED <<keyVars, replayVars, adminVars>>
     \/ focus = "admins" /\ AdminNext /\ UNCHANGED <<keyVars, replayVars, sessionVars>>

Spec == Init /\ [][Next]_<<focus, keyVars, replayVars, sessionVars, adminVars>>
=============================================================================
