------------------------------- MODULE MCHub -------------------------------
(***************************************************************************)
(* Small instances of the hub for TLC.                                     *)
(***************************************************************************)
EXTENDS Hub, TLC

\* Connections are interchangeable, and so are requests and browsers.
Symmetry == Permutations(Socket) \cup Permutations(Request) \cup Permutations(Conn)

\* A state constraint: the sweep's ticks are followed only while a request is
\* being handled or waits for its answer.  What a tick does to an agent before
\* that, to be taken out of the registry, the heartbeat does as well.
SweepWhileBusy ==
  sweepPc # "idle" =>
    \E r \in Request : rq[r].st \in {"limiting", "reading", "enqueued"} \/ pending[r] # None
=============================================================================
