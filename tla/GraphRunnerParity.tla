------------------------- MODULE GraphRunnerParity -------------------------
(***************************************************************************)
(* "explore.py and graph_runner.py are the same loop" (README of the       *)
(* orchestrator).  A superstep of the LangGraph version is a step of the   *)
(* plain one or a stutter: scan and act are where the plain loop moves,    *)
(* reason completes a scan that already counted, and the routing that ends *)
(* a run stutters before Finish.                                           *)
(***************************************************************************)
EXTENDS GraphRunner

\* The plain loop audits inside scan: an audit that reason still owes is done.
Owed == IF pc = "reason" /\ first_visit THEN <<current_bundle>> ELSE <<>>
OwedViolations == IF Owed # <<>> THEN Found ELSE <<>>
Flying == pc = "observe" /\ acted

SeenStates == {seen[i] : i \in DOMAIN seen}

\* `queued` never forgets a pair; here it is waiting, in flight or settled.
Queued == PairsOf(frontier) \cup PairsOf(edges) \cup PairsOf(skipped) \cup InFlight

\* The arguments of scan.
Scanning ==
    IF pc = "scan"
    THEN [bundle |-> current_bundle, depth |-> depth, path |-> current_path]
    ELSE [bundle |-> NoPage, depth |-> 0, path |-> <<>>]

\* Where the plain loop is.
Place ==
    IF pc \in {"start", "scan", "done"} THEN pc
    ELSE IF Flying THEN "edge" ELSE "loop"

Plain == INSTANCE Explore WITH
    pairs <- visited_pairs,
    seen <- SeenStates,
    queued <- Queued,
    scanning <- Scanning,
    candidate <- IF Flying THEN pending ELSE NoAction,
    landed <- IF Flying THEN next_bundle ELSE NoPage,
    audited <- audited \o Owed,
    violations <- violations \o OwedViolations,
    persisted <- persisted \o OwedViolations,
    pc <- Place

\* Parity: whatever the ports do, the LangGraph loop makes the calls, keeps the
\* lists and counters and reports the result of the plain loop, step for step.
SameLoop == Plain!FairSpec
=============================================================================
