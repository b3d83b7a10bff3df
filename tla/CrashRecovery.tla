--------------------------- MODULE CrashRecovery ---------------------------
(***************************************************************************)
(* The process of graph_runner.py dies inside a node, after some of the    *)
(* node's port calls, and is started again.  The application, the graph    *)
(* store and the checkpointer survive; the browser does not, and neither   *)
(* does the update the node would have returned.                           *)
(*                                                                         *)
(* LangGraph checkpoints ExplorationState after every superstep, which is  *)
(* every step of GraphRunner: the checkpoint is the state before the node. *)
(* There are two ways to go on:                                            *)
(*   "restart"  explore is called again, over the store that is there      *)
(*   "resume"   the graph is invoked without input, and LangGraph repeats  *)
(*              the node that was cut short                                *)
(***************************************************************************)
EXTENDS GraphRunner

CONSTANTS
    Recoveries,     \* the ways to go on after a crash
    MaxCrashes      \* bound: crashes in a behaviour

ASSUME CrashAssumption ==
    Recoveries \subseteq {"restart", "resume"} /\ MaxCrashes \in Nat

VARIABLES recovery, crashes

recoveryVars == <<vars, recovery, crashes>>

RecoveryInit == Init /\ recovery \in Recoveries /\ crashes = 0

\* A new process: its browser has no page, and LangGraph counts from zero.
Revive ==
    /\ crashes < MaxCrashes
    /\ crashes' = crashes + 1
    /\ page' = NoPage
    /\ supersteps' = 0
    /\ UNCHANGED <<recovery, closed, termination_reason>>

\* initial_state, for the next call of explore.
Restart ==
    /\ recovery = "restart"
    /\ pc' = "start"
    /\ current_bundle' = NoPage /\ current_state_id' = NoPage
    /\ current_path' = <<>> /\ depth' = 0 /\ first_visit' = FALSE
    /\ pending' = NoAction /\ next_bundle' = NoPage /\ acted' = FALSE
    /\ frontier' = <<>> /\ seen' = <<>> /\ order' = <<>>
    /\ violations' = <<>> /\ skipped' = <<>>
    /\ edge_count' = 0 /\ visited_pairs' = 0 /\ replays' = 0 /\ replay_steps' = 0

\* Mutant of Resume: the checkpoint is newer than the node that is repeated.
ResumeLate ==
    /\ recovery = "resume"
    /\ frontier' = IF pc = "act" THEN Tail(frontier) ELSE frontier
    /\ pc' = IF pc = "act" /\ Len(frontier) = 1 THEN "end" ELSE pc
    /\ UNCHANGED <<current, flight, seen, order, violations, skipped, counts>>

\* The last checkpoint, and the node that follows it.
Resume ==
    /\ recovery = "resume"
    /\ UNCHANGED <<pc, current, flight, queues, counts>>

Recover == Revive /\ (Restart \/ Resume)

-----------------------------------------------------------------------------
(* Where a node may be cut short.                                          *)

CrashInScan ==
    /\ pc = "scan"
    /\ nodes' \in IF Scanned(current_bundle) THEN {nodes}
                  ELSE {nodes, PersistState(nodes, current_bundle, depth)}
    /\ UNCHANGED <<app, fired, visited, edges, persisted, audited>>
    /\ Recover

CrashInReason ==
    /\ pc = "reason"
    /\ \/ UNCHANGED <<audited, persisted>>
       \/ /\ first_visit
          /\ audited' = Append(audited, current_bundle)
          /\ persisted' \in {persisted, persisted \o Found}
    /\ UNCHANGED <<app, fired, nodes, visited, edges>>
    /\ Recover

\* On the way back, the browser has done some steps of the replay.
CrashInReplay ==
    /\ pc = "act"
    /\ \/ fired' = fired
       \/ /\ ~InPlace /\ Replayable(Candidate.path)
          /\ \E n \in DOMAIN Candidate.path :
               /\ \A i \in 0..n : Replay[i] # NoPage
               /\ fired' = fired \o Replayed(n)
    /\ UNCHANGED <<app, store, audited>>
    /\ Recover

\* Mutant of CrashInAct: the pair is claimed after the action was executed.
CrashBeforeClaim ==
    /\ pc = "act"
    /\ InPlace \/ (/\ Replayable(Candidate.path)
                   /\ \A i \in 0..Len(Candidate.path) : Replay[i] # NoPage
                   /\ Landed = Candidate.from)
    /\ Target # NoPage
    /\ fired' = Append(FiredBefore, Fires)
    /\ app' \in After(app, Candidate.action)
    /\ UNCHANGED <<store, audited>>
    /\ Recover

\* The pair is claimed, and the action executed or not.
CrashInAct ==
    /\ pc = "act"
    /\ InPlace \/ (/\ Replayable(Candidate.path)
                   /\ \A i \in 0..Len(Candidate.path) : Replay[i] # NoPage
                   /\ Landed = Candidate.from)
    /\ visited' = visited \cup {PairOf(Candidate)}
    /\ \/ fired' = FiredBefore /\ app' = app
       \/ /\ Target # NoPage
          /\ fired' = Append(FiredBefore, Fires)
          /\ app' \in After(app, Candidate.action)
    /\ UNCHANGED <<nodes, edges, persisted, audited>>
    /\ Recover

CrashInObserve ==
    /\ pc = "observe"
    /\ \/ edges' = edges
       \/ /\ acted
          /\ edges' = Append(edges, [from |-> pending.from, to |-> next_bundle,
                                     action |-> pending.action,
                                     back |-> Scanned(next_bundle)])
    /\ UNCHANGED <<app, fired, nodes, visited, persisted, audited>>
    /\ Recover

Crash == CrashInScan \/ CrashInReason \/ CrashInReplay \/ CrashInAct \/ CrashInObserve

Run == Next /\ UNCHANGED <<recovery, crashes>>
RecoveryNext == Run \/ Crash

\* The loop goes on whenever it can; a crash need not happen.
RecoverySpec ==
    /\ RecoveryInit /\ [][RecoveryNext]_recoveryVars
    /\ WF_recoveryVars(Run)
-----------------------------------------------------------------------------
\* "Claim before executing ... so a crash cannot re-fire something the
\* application under test is not idempotent about" (README of the
\* orchestrator).  With a restart it cannot: claims survive, and scan tests
\* them.  (A resume can: act repeats its node and never tests the claim.)
RestartCannotRefire == recovery = "restart" => UnsafeOnce

\* The price of claiming first (ADR-001, decision 3): a crash loses the record
\* of at most one action that was executed, and nothing records one twice.
OneGapPerCrash ==
    recovery = "restart" =>
      /\ Cardinality(PairsOf(fired) \ (PairsOf(edges) \cup InFlight)) <= crashes
      /\ Cardinality(PairsOf(edges)) = Len(edges)

\* An edge whose target was never persisted is the trace of a crash between
\* observe and scan, and a crash leaves at most one.
DanglingPerCrash ==
    pc = "done" =>
      Cardinality({edges[i].to : i \in DOMAIN edges} \ DOMAIN nodes) <= crashes

\* The pair that act claims again when it was cut short after the claim.
Again == IF pc = "act" THEN {PairOf(Candidate)} ELSE {}

\* A resumed run has dropped nothing: each control of an expanded state is
\* waiting, in flight, or has an outcome.  And it counts outcomes once,
\* although the node that was cut short ran twice.
ResumeExact ==
    recovery = "resume" =>
      /\ LET expanded == {s \in DOMAIN nodes : Scanned(s) /\ nodes[s] < DepthLimit}
             offered == UNION {{<<s, a>> : a \in Offers(app, s)} : s \in expanded}
         IN  offered \subseteq OldVisited \cup PairsOf(frontier) \cup InFlight
                               \cup PairsOf(edges) \cup PairsOf(skipped)
      /\ visited_pairs = Cardinality((visited \ OldVisited) \ Again)
      /\ edge_count = Cardinality(PairsOf(edges) \ InFlight)
      /\ \A i, j \in DOMAIN seen : seen[i] = seen[j] => i = j

\* However often it crashes, a run ends.
RecoveryTerminates == <>(pc = "done")
=============================================================================
