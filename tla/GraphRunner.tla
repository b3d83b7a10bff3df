---------------------------- MODULE GraphRunner ----------------------------
(***************************************************************************)
(* apps/agent/orchestrator/graph_runner.py: the Scan -> Reason -> Act ->   *)
(* Observe loop as it runs under LangGraph.  One action per node outcome,  *)
(* `pc` is the node LangGraph runs next, and the routing functions are the *)
(* value a node gives to pc'.                                              *)
(*                                                                         *)
(* The ports are the crawler (Crawler.tla), the graph store (FakeGraph)    *)
(* and perception, whose audit is a function of the page.                  *)
(***************************************************************************)
EXTENDS Exploration

VARIABLES
    \* the application and the browser (FakeCrawler)
    app,                \* the version of the application
    page,               \* the page the browser shows
    fired,              \* FakeCrawler.acted: what the browser did, and where
    closed,             \* FakeCrawler.closed
    \* the graph store (FakeGraph)
    nodes,              \* states: state id -> depth
    visited,            \* the claimed (state, action) pairs
    edges,
    persisted,          \* violations, each by its state
    \* ExplorationState, the fields LangGraph checkpoints
    current_bundle, current_state_id, current_path, depth, first_visit,
    pending, next_bundle, acted,
    frontier, seen, order, violations, skipped,
    edge_count, visited_pairs, replays, replay_steps,
    \* FakePerception.audited, LangGraph's position and the result
    audited, pc, supersteps, termination_reason

browser == <<app, page, fired, closed>>
store   == <<nodes, visited, edges, persisted>>
current == <<current_bundle, current_state_id, current_path, depth, first_visit>>
flight  == <<pending, next_bundle, acted>>
queues  == <<frontier, seen, order, violations, skipped>>
counts  == <<edge_count, visited_pairs, replays, replay_steps>>
vars    == <<browser, store, current, flight, queues, counts,
             audited, pc, supersteps, termination_reason>>

Nodes == {"scan", "reason", "act", "observe"}

\* Mutant of RecursionLimit: LangGraph's default.
DefaultRecursionLimit == 25

\* recursion_limit: supersteps LangGraph grants one invoke.
RecursionLimit ==
    IF 100 >= 40 * MaxStates + 100 THEN 100 ELSE 40 * MaxStates + 100

\* Mutant of NextAct: the frontier alone decides.
NextActUncapped == IF frontier = <<>> THEN "end" ELSE "act"

\* route and route_after_act; "clean" and "violated" lead to the same node.
NextAct ==
    IF TerminalReason(frontier, Len(seen)) = "none" THEN "act" ELSE "end"

-----------------------------------------------------------------------------
Init ==
    /\ app \in Apps
    /\ page = NoPage /\ fired = <<>> /\ closed = FALSE
    /\ nodes = OldNodes /\ visited = OldVisited
    /\ edges = <<>> /\ persisted = <<>>
    /\ current_bundle = NoPage /\ current_state_id = NoPage
    /\ current_path = <<>> /\ depth = 0 /\ first_visit = FALSE
    /\ pending = NoAction /\ next_bundle = NoPage /\ acted = FALSE
    /\ frontier = <<>> /\ seen = <<>> /\ order = <<>>
    /\ violations = <<>> /\ skipped = <<>>
    /\ edge_count = 0 /\ visited_pairs = 0 /\ replays = 0 /\ replay_steps = 0
    /\ audited = <<>> /\ supersteps = 0
    /\ pc = "start" /\ termination_reason = "none"

-----------------------------------------------------------------------------
(* explore: open the seed, or give up.                                     *)

OpenSeed ==
    /\ pc = "start"
    /\ Open(app, Seed) # NoPage
    /\ page' = Seed /\ current_bundle' = Seed
    /\ pc' = "scan"
    /\ UNCHANGED <<app, fired, closed, store, current_state_id, current_path,
                   depth, first_visit, flight, queues, counts, audited,
                   supersteps, termination_reason>>

OpenSeedFails ==
    /\ pc = "start"
    /\ \E moved \in BOOLEAN :
         /\ Raises("open", Open(app, Seed), moved)
         /\ page' = IF moved THEN Seed ELSE page
    /\ closed' = TRUE
    /\ pc' = "done" /\ termination_reason' = "error"
    /\ UNCHANGED <<app, fired, store, current, flight, queues, counts, audited,
                   supersteps>>

\* LangGraph runs node n as one superstep, while the limit allows one more.
Superstep(n) ==
    /\ pc = n
    /\ supersteps < RecursionLimit
    /\ supersteps' = supersteps + 1

-----------------------------------------------------------------------------
(* scan                                                                    *)

ScanVisit ==
    /\ Superstep("scan")
    /\ current_state_id' = current_bundle
    /\ order' = Append(order, current_bundle)
    /\ pc' = "reason"
    /\ UNCHANGED <<browser, visited, edges, persisted, current_bundle,
                   current_path, depth, flight, violations, skipped, counts,
                   audited, termination_reason>>

\* Mutant of Scanned: only the last state is remembered.
ScannedLast(sid) == seen # <<>> /\ seen[Len(seen)] = sid

Scanned(sid) == \E i \in DOMAIN seen : seen[i] = sid

ScanAgain ==
    /\ ScanVisit
    /\ Scanned(current_bundle)
    /\ first_visit' = FALSE
    /\ UNCHANGED <<nodes, frontier, seen>>

ScanFirst ==
    /\ ScanVisit
    /\ ~Scanned(current_bundle)
    /\ first_visit' = TRUE
    /\ nodes' = PersistState(nodes, current_bundle, depth)
    /\ seen' = Append(seen, current_bundle)
    /\ frontier' =
         IF depth < DepthLimit
         THEN Enqueue(frontier, visited, current_bundle,
                      Enumerate(app, current_bundle), depth + 1, current_path)
         ELSE frontier

-----------------------------------------------------------------------------
(* reason: analyze and audit, once per state.                              *)

ReasonVisit ==
    /\ Superstep("reason")
    /\ pc' = NextAct
    /\ UNCHANGED <<browser, nodes, visited, edges, current, flight, frontier,
                   seen, order, skipped, counts, termination_reason>>

ReasonAgain ==
    /\ ReasonVisit
    /\ ~first_visit
    /\ UNCHANGED <<persisted, violations, audited>>

Found == IF current_bundle \in Bad THEN <<current_bundle>> ELSE <<>>

ReasonAudit ==
    /\ ReasonVisit
    /\ first_visit
    /\ audited' = Append(audited, current_bundle)
    /\ persisted' = persisted \o Found
    /\ violations' = violations \o Found

-----------------------------------------------------------------------------
(* act: return to the candidate's state, claim the pair, execute.          *)

Candidate == Head(frontier)
InPlace == current_state_id = Candidate.from
Replay == Walk(app, Seed, Candidate.path)
Landed == Replay[Len(Candidate.path)]

\* What the browser does in the first n steps of the replay.
Replayed(n) ==
    [i \in 1..n |-> [from |-> Replay[i - 1], action |-> Candidate.path[i],
                     to |-> Replay[i]]]

\* The update every return of act makes (`base`).
ActStep ==
    /\ Superstep("act")
    /\ frontier' = Tail(frontier)
    /\ pending' = Candidate
    /\ pc' = "observe"
    /\ UNCHANGED <<closed, nodes, edges, persisted, current_bundle, depth,
                   first_visit, seen, order, violations, edge_count, audited,
                   termination_reason>>

\* Mutant of Skip: a silent drop.
SkipSilently(reason) ==
    /\ acted' = FALSE
    /\ UNCHANGED <<skipped, next_bundle>>

Skip(reason) ==
    /\ acted' = FALSE
    /\ skipped' = Append(skipped, [from |-> Candidate.from,
                                   action |-> Candidate.action,
                                   reason |-> reason])
    /\ UNCHANGED next_bundle

SkipUnreplayable ==
    /\ ActStep
    /\ ~InPlace
    /\ ~Replayable(Candidate.path)
    /\ Skip("unreplayable")
    /\ UNCHANGED <<app, page, fired, visited, current_state_id, current_path,
                   visited_pairs, replays, replay_steps>>

\* Call k of the replay raises; call 0 is the open.
SkipReplayFailed ==
    /\ ActStep
    /\ ~InPlace
    /\ Replayable(Candidate.path)
    /\ \E k \in 0..Len(Candidate.path), moved \in BOOLEAN :
         /\ \A i \in 0..(k - 1) : Replay[i] # NoPage
         /\ Raises(IF k = 0 THEN "open" ELSE "act", Replay[k], moved)
         /\ page' = IF moved THEN Replay[k] ELSE IF k = 0 THEN page ELSE Replay[k - 1]
         /\ fired' = fired \o Replayed(IF moved THEN k ELSE k - 1)
         /\ replay_steps' = replay_steps + (IF k = 0 THEN 0 ELSE k - 1)
    /\ Skip("replay failed")
    /\ UNCHANGED <<app, visited, current_state_id, current_path, visited_pairs,
                   replays>>

\* The replay ran to its end: the browser shows the page it landed on.
ReplayCompletes ==
    /\ Replayable(Candidate.path)
    /\ \A i \in 0..Len(Candidate.path) : Replay[i] # NoPage
    /\ replays' = replays + 1
    /\ replay_steps' = replay_steps + Len(Candidate.path)
    /\ current_state_id' = Landed

SkipReplayDiverged ==
    /\ ActStep
    /\ ~InPlace
    /\ ReplayCompletes
    /\ Landed # Candidate.from
    /\ page' = Landed
    /\ fired' = fired \o Replayed(Len(Candidate.path))
    /\ current_path' = Candidate.path
    /\ Skip("replay diverged")
    /\ UNCHANGED <<app, visited, visited_pairs>>

\* Mutant of Arrived: where the replay landed is not compared.
ArrivedAnywhere ==
    \/ InPlace /\ UNCHANGED <<current_state_id, replays, replay_steps>>
    \/ ~InPlace /\ ReplayCompletes

\* On the candidate's state, as far as act knows.
Arrived ==
    \/ /\ InPlace
       /\ UNCHANGED <<current_state_id, replays, replay_steps>>
    \/ /\ ~InPlace
       /\ ReplayCompletes
       /\ Landed = Candidate.from

Here == IF InPlace THEN page ELSE Landed
FiredBefore == IF InPlace THEN fired ELSE fired \o Replayed(Len(Candidate.path))
Target == Dest(app, Here, Candidate.action)
Fires == [from |-> Here, action |-> Candidate.action, to |-> Target]

\* mark_visited, before the action is executed.
Claim ==
    /\ visited' = visited \cup {PairOf(Candidate)}
    /\ visited_pairs' = visited_pairs + 1

\* Mutant of Execute: an action that led nowhere counts as executed.
ExecuteUnchecked ==
    /\ ActStep /\ Arrived /\ Claim
    /\ page' = Target
    /\ fired' = Append(FiredBefore, Fires)
    /\ next_bundle' = Target
    /\ acted' = TRUE
    /\ UNCHANGED <<app, current_path, skipped>>

Execute ==
    /\ ActStep
    /\ Arrived
    /\ Claim
    /\ Target # NoPage
    /\ page' = Target
    /\ fired' = Append(FiredBefore, Fires)
    /\ app' \in After(app, Candidate.action)
    /\ next_bundle' = Target
    /\ acted' = TRUE
    /\ current_path' = IF InPlace THEN current_path ELSE Candidate.path
    /\ UNCHANGED skipped

SkipActFailed ==
    /\ ActStep
    /\ Arrived
    /\ Claim
    /\ \E moved \in BOOLEAN :
         /\ Raises("act", Target, moved)
         /\ page' = IF moved THEN Target ELSE Here
         /\ fired' = IF moved THEN Append(FiredBefore, Fires) ELSE FiredBefore
         /\ app' \in IF moved THEN After(app, Candidate.action) ELSE {app}
    /\ Skip("act failed")
    /\ UNCHANGED current_path

-----------------------------------------------------------------------------
(* observe: record the edge and advance.                                   *)

ObserveSkip ==
    /\ Superstep("observe")
    /\ ~acted
    /\ next_bundle' = NoPage
    /\ pc' = NextAct
    /\ UNCHANGED <<browser, store, current, pending, acted, queues, counts,
                   audited, termination_reason>>

ObserveEdge ==
    /\ Superstep("observe")
    /\ acted
    /\ edges' = Append(edges, [from |-> pending.from, to |-> next_bundle,
                               action |-> pending.action,
                               back |-> Scanned(next_bundle)])
    /\ edge_count' = edge_count + 1
    /\ current_bundle' = next_bundle
    /\ next_bundle' = NoPage
    /\ depth' = pending.depth
    /\ current_path' = Append(pending.path, pending.action)
    /\ pc' = "scan"
    /\ UNCHANGED <<browser, nodes, visited, persisted, current_state_id,
                   first_visit, pending, acted, queues, visited_pairs, replays,
                   replay_steps, audited, termination_reason>>

-----------------------------------------------------------------------------
(* The ends of a run.                                                      *)

\* explore after invoke returned.
Finish ==
    /\ pc = "end"
    /\ closed' = TRUE
    /\ pc' = "done"
    /\ LET reason == TerminalReason(frontier, Len(seen))
       IN  termination_reason' = IF reason = "none" THEN "frontier_exhausted" ELSE reason
    /\ UNCHANGED <<app, page, fired, store, current, flight, queues, counts,
                   audited, supersteps>>

\* An exception leaves invoke: the node's update is lost, and explore has no
\* handler for it, so the crawler stays open.
Raise ==
    /\ pc' = "raised"
    /\ UNCHANGED <<app, closed, current, flight, queues, counts,
                   termination_reason>>

\* GraphRecursionError.
OutOfSteps ==
    /\ pc \in Nodes
    /\ supersteps = RecursionLimit
    /\ Raise
    /\ UNCHANGED <<page, fired, store, audited, supersteps>>

\* persist_state raises, or it returns and is_visited raises.
ScanRaises ==
    /\ Superstep("scan")
    /\ "store" \in Flaky
    /\ ~Scanned(current_bundle)
    /\ nodes' \in {nodes, PersistState(nodes, current_bundle, depth)}
    /\ Raise
    /\ UNCHANGED <<page, fired, visited, edges, persisted, audited>>

\* analyze, audit or persist_violation raises.
ReasonRaises ==
    /\ Superstep("reason")
    /\ first_visit
    /\ \/ "perception" \in Flaky /\ UNCHANGED audited
       \/ /\ "store" \in Flaky /\ Found # <<>>
          /\ audited' = Append(audited, current_bundle)
    /\ Raise
    /\ UNCHANGED <<page, fired, store>>

\* mark_visited raises: the browser is back, nothing else remembers it.
ActRaises ==
    /\ Superstep("act")
    /\ "store" \in Flaky
    /\ InPlace \/ (/\ Replayable(Candidate.path)
                   /\ \A i \in 0..Len(Candidate.path) : Replay[i] # NoPage
                   /\ Landed = Candidate.from)
    /\ page' = Here /\ fired' = FiredBefore
    /\ Raise
    /\ UNCHANGED <<store, audited>>

\* persist_edge raises.
ObserveRaises ==
    /\ Superstep("observe")
    /\ acted /\ "store" \in Flaky
    /\ Raise
    /\ UNCHANGED <<page, fired, store, audited>>

Stopped ==
    /\ pc \in {"done", "raised"}
    /\ UNCHANGED vars

Act == SkipUnreplayable \/ SkipReplayFailed \/ SkipReplayDiverged
       \/ SkipActFailed \/ Execute
Failure == OutOfSteps \/ ScanRaises \/ ReasonRaises \/ ActRaises \/ ObserveRaises

Next ==
    \/ OpenSeed \/ OpenSeedFails
    \/ ScanFirst \/ ScanAgain
    \/ ReasonAudit \/ ReasonAgain
    \/ Act
    \/ ObserveEdge \/ ObserveSkip
    \/ Finish \/ Failure
    \/ Stopped

Spec == Init /\ [][Next]_vars

\* One process runs the loop to its end: a step that can happen does.
FairSpec == Spec /\ WF_vars(Next)
-----------------------------------------------------------------------------
(* Types.                                                                  *)

BrowserType ==
    /\ app \in Apps /\ page \in Pages \cup {NoPage}
    /\ fired \in Seq(Firing) /\ closed \in BOOLEAN
StoreType ==
    /\ nodes \in [DOMAIN nodes -> Nat] /\ DOMAIN nodes \subseteq Pages
    /\ visited \subseteq Pairs /\ edges \in Seq(Edge) /\ persisted \in Seq(Pages)
CurrentType ==
    /\ current_bundle \in Pages \cup {NoPage}
    /\ current_state_id \in Pages \cup {NoPage}
    /\ current_path \in Seq(Actions) /\ depth \in Nat /\ first_visit \in BOOLEAN
FlightType ==
    /\ pending \in Pending \cup {NoAction}
    /\ next_bundle \in Pages \cup {NoPage} /\ acted \in BOOLEAN
QueueType ==
    /\ frontier \in Seq(Pending) /\ seen \in Seq(Pages) /\ order \in Seq(Pages)
    /\ violations \in Seq(Pages) /\ skipped \in Seq(Skipped)
    /\ audited \in Seq(Pages)
CountType ==
    /\ edge_count \in Nat /\ visited_pairs \in Nat
    /\ replays \in Nat /\ replay_steps \in Nat
    /\ supersteps \in 0..RecursionLimit
PlaceType ==
    /\ pc \in Nodes \cup {"start", "end", "done", "raised"}
    /\ termination_reason \in
         {"none", "error", "frontier_exhausted", "max_states"}

TypeOK ==
    /\ BrowserType /\ StoreType /\ CurrentType /\ FlightType
    /\ QueueType /\ CountType /\ PlaceType

-----------------------------------------------------------------------------
(* Safety.                                                                 *)

\* FR-10: the run never records more states than max_states.  scan does not
\* test the cap; the routing after the previous superstep has to have done it.
StateCap == Len(seen) <= MaxStates

\* NFR-05: no pair waits twice in the frontier, and none that is claimed waits
\* at all.  `queued` is rebuilt per scan from the frontier alone, so pairs
\* already dequeued are kept out by the visited set only.
PairsOnce ==
    /\ \A i, j \in DOMAIN frontier :
         PairOf(frontier[i]) = PairOf(frontier[j]) => i = j
    /\ PairsOf(frontier) \cap visited = {}

\* The result's visited_pairs counts the pairs this run claimed, each once: a
\* pair claimed twice, or one an earlier run claimed, would break the equation.
ClaimedOnce == visited_pairs = Cardinality(visited \ OldVisited)

InFlight == IF pc = "observe" /\ acted THEN {PairOf(pending)} ELSE {}

\* "No silent drops" (README of the orchestrator): a pair has one outcome, an
\* edge or a skip, and every control of an expanded state is waiting, in
\* flight, settled, or was claimed before the run.
NoSilentDrops ==
    LET settled == PairsOf(edges) \cup PairsOf(skipped)
        expanded == {s \in DOMAIN nodes : Scanned(s) /\ nodes[s] < DepthLimit}
        offered == UNION {{<<s, a>> : a \in Offers(app, s)} : s \in expanded}
    IN  pc # "raised" =>
          /\ Cardinality(settled) = Len(edges) + Len(skipped)
          /\ settled \cap (PairsOf(frontier) \cup InFlight) = {}
          /\ offered \subseteq OldVisited \cup PairsOf(frontier) \cup InFlight \cup settled

\* `order` is the walk the edges describe, with no phantom entry for a skip,
\* and an edge is marked as closing a cycle exactly when its target had been
\* scanned before ("order is how a cycle is evidenced").
OrderFollowsEdges ==
    /\ Len(order) \in {Len(edges), Len(edges) + 1}
    /\ pc \in {"reason", "act", "observe", "end"} => Len(order) = Len(edges) + 1
    /\ order # <<>> => order[1] = Seed
    /\ \A i \in DOMAIN edges :
         /\ i + 1 \in DOMAIN order => order[i + 1] = edges[i].to
         /\ edges[i].back <=> \E j \in 1..i : order[j] = edges[i].to

\* No edge dangles: its source is a persisted state, and so is its target, but
\* for the last edge between observe and the scan of what it led to.
EdgeEndpoints ==
    \A i \in DOMAIN edges :
      /\ edges[i].from \in DOMAIN nodes
      /\ \/ edges[i].to \in DOMAIN nodes
         \/ /\ i = Len(edges) /\ edges[i].to = current_bundle
            /\ pc \in {"scan", "raised"}

\* Every state is audited, once, in the order of discovery, before the loop
\* acts again ("once per state, not once per visit").
AuditOncePerState ==
    /\ \A i, j \in DOMAIN seen : seen[i] = seen[j] => i = j
    /\ \/ audited = seen
       \/ /\ pc \in {"reason", "raised"} /\ first_visit
          /\ seen = Append(audited, current_bundle)

\* Breadth first: depths in the frontier never decrease and span two levels,
\* so the depth a state is recorded with is the least it is ever reached at.
BreadthFirst ==
    /\ \A i, j \in DOMAIN frontier :
         i <= j => /\ frontier[i].depth <= frontier[j].depth
                   /\ frontier[j].depth <= frontier[i].depth + 1
    /\ \A i \in DOMAIN frontier : frontier[i].depth <= DepthLimit
    /\ pc = "scan" => \A i \in DOMAIN seen : nodes[seen[i]] <= depth

\* The browser's position is lost when a replay fails half-way, and when an
\* action raises after it moved the browser: current_state_id is not updated.
Located ==
    \A i \in DOMAIN skipped :
      /\ skipped[i].reason # "replay failed"
      /\ "late" \in Flaky => skipped[i].reason # "act failed"

\* Every edge tells what the browser did: the action was executed on the page
\* the edge starts from and led where it says ("Acting here would attribute
\* the edge to the wrong state").
EdgesTruthful ==
    \A i \in DOMAIN edges : \E j \in DOMAIN fired :
      /\ fired[j].from = edges[i].from /\ fired[j].to = edges[i].to
      /\ fired[j].action = edges[i].action

\* At most once: no control with a side effect is activated twice, whether by
\* a replay, a second claim or on the wrong page.
UnsafeOnce ==
    \A i, j \in DOMAIN fired :
      fired[i].action \in Unsafe /\ fired[i].action = fired[j].action
        /\ fired[i].from = fired[j].from => i = j

\* While no replay has failed, edges are truthful and side effects happen once.
TruthfulWhileLocated == Located => EdgesTruthful /\ UnsafeOnce

-----------------------------------------------------------------------------
(* What a complete run has found.                                          *)

\* The states at most n actions from the seed.
Within ==
    LET w[n \in 0..DepthLimit] ==
            IF n = 0 THEN {Open(app, Seed)}
            ELSE LET closer == w[n - 1]
                 IN  closer \cup ({Dest(app, s, a) : s \in closer, a \in Actions} \ {NoPage})
    IN  w

\* TerminationReason (contracts.py): frontier_exhausted "is the only one that
\* means `complete`".  It is complete up to depth_limit: a fault-free run over
\* an application without side effects that reports it has every state within
\* depth_limit, each at its distance from the seed, and every edge between them
\* that a user could follow.
ExhaustedIsComplete ==
    LET all == Within[DepthLimit]
        safe == \A s \in all, a \in Unsafe : Dest(app, s, a) = NoPage
    IN  termination_reason = "frontier_exhausted" /\ safe =>
          /\ DOMAIN nodes = all
          /\ \A n \in 0..DepthLimit : \A s \in all :
               nodes[s] <= n <=> s \in Within[n]
          /\ \A s \in all, a \in Actions :
               nodes[s] < DepthLimit /\ Dest(app, s, a) # NoPage =>
                 \E i \in DOMAIN edges : edges[i].from = s
                    /\ edges[i].action = a /\ edges[i].to = Dest(app, s, a)

-----------------------------------------------------------------------------
(* The end of a run.                                                       *)

\* The comment above recursion_limit: the limit "is a backstop that should
\* never fire", whatever the application.
BackstopNeverFires == supersteps < RecursionLimit

\* What the limit does allow: while no page offers more than ten controls, the
\* four supersteps per candidate and the cap on states keep the run below it.
SmallFanOut ==
    \A v \in (IF Mutable THEN Apps ELSE {app}) :
      \A p \in DOMAIN v : Len(v[p]) <= 10
BackstopNeedsFanOut == SmallFanOut => BackstopNeverFires

\* A run ends, and by its own argument rather than by an exception.
Terminates == SmallFanOut ~> pc = "done"
=============================================================================
