--------------------------- MODULE MCAgentClient ---------------------------
(* Sizes of messages for model checking AgentClient. *)
EXTENDS AgentClient, TLC

CONSTANT Large   \* requests whose answer is larger than a batch may be

\* Two small answers do not fit in a batch of 3 bytes, three pongs do; a small
\* and a large one do not fit in the 5 bytes that may be held.
MCBytes == [m \in Message |-> IF m = Pong THEN 1 ELSE IF m \in Large THEN 4 ELSE 2]

Symmetry == Permutations(Request \ Large)
=============================================================================
