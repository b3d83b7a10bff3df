-------------------------------- MODULE Poc --------------------------------
(***************************************************************************)
(* apps/agent/orchestrator/poc.py: the scaffold the LangGraph loop grew    *)
(* from.  It walks depth-first from wherever the browser is and never goes *)
(* back, so it needs no replay; it writes the edge in the scan that        *)
(* follows, audits every visit, and ends by counting scans.                *)
(***************************************************************************)
EXTENDS Exploration, SequencesExt

CONSTANT IterationLimits    \* what max_iterations may be

ASSUME PocAssumption == IterationLimits \subseteq Nat

VARIABLES
    app, page, fired,               \* the application and the browser
    nodes, visited, edges, persisted,   \* the graph store
    \* PocState; `trail` is its field visited, `bundle` current_bundle
    bundle, current_state_id, last_action, next_bundle, frontier, trail,
    violations, skipped, depth, iterations, max_iterations,
    pc

browser == <<app, page, fired>>
store == <<nodes, visited, edges, persisted>>
PocState == <<bundle, current_state_id, last_action, next_bundle, frontier,
              trail, violations, skipped, depth, iterations>>
vars == <<browser, store, PocState, max_iterations, pc>>

Init ==
    /\ app \in Apps /\ page = NoPage /\ fired = <<>>
    /\ nodes = OldNodes /\ visited = OldVisited
    /\ edges = <<>> /\ persisted = <<>>
    /\ bundle = NoPage /\ current_state_id = NoPage /\ next_bundle = NoPage
    /\ last_action = NoAction
    /\ frontier = <<>> /\ trail = <<>> /\ violations = <<>> /\ skipped = <<>>
    /\ depth = 0 /\ iterations = 0
    /\ max_iterations \in IterationLimits
    /\ pc = "scan"

\* An exception leaves invoke and the node's update is lost.
Raise == pc' = "raised" /\ UNCHANGED <<PocState, max_iterations>>

-----------------------------------------------------------------------------
(* scan                                                                    *)

\* The page this scan is about: the capture in hand, or else the seed.
Scanned == IF bundle # NoPage THEN bundle ELSE Open(app, Seed)

\* The edge that led here, if an action did; previous_state_id is last_action's.
Edges ==
    IF last_action = NoAction THEN <<>>
    ELSE <<[from |-> last_action.from, to |-> Scanned, action |-> last_action.action,
            back |-> \E i \in DOMAIN trail : trail[i] = Scanned]>>

\* Mutant of Fresh: only what waits is passed over, not what is claimed.
FreshOfQueue(sid, action) == <<sid, action>> \notin PairsOf(frontier)

\* Neither waiting when the scan began nor claimed.
Fresh(sid, action) == <<sid, action>> \notin PairsOf(frontier) \cup visited

\* The enumerate loop.  `queued` is not updated in it: two controls with one id
\* both get an entry.
Enqueued(sid) ==
    LET ids == Enumerate(app, sid)
        entry(i) == [from |-> sid, action |-> ids[i], depth |-> depth + 1, path |-> <<>>]
    IN  frontier \o FlattenSeq([i \in DOMAIN ids |->
                                  IF Fresh(sid, ids[i]) THEN <<entry(i)>> ELSE <<>>])

Scan ==
    /\ pc = "scan"
    /\ Scanned # NoPage
    /\ page' = IF bundle = NoPage THEN Seed ELSE page
    /\ nodes' = PersistState(nodes, Scanned, depth)
    /\ edges' = edges \o Edges
    /\ frontier' = IF depth < DepthLimit THEN Enqueued(Scanned) ELSE frontier
    /\ bundle' = Scanned /\ current_state_id' = Scanned
    /\ trail' = Append(trail, Scanned)
    /\ iterations' = iterations + 1
    /\ last_action' = NoAction
    /\ pc' = "reason"
    /\ UNCHANGED <<app, fired, visited, persisted, next_bundle, violations,
                   skipped, depth, max_iterations>>

\* The seed cannot be opened: NavigationError.
OpenRaises ==
    /\ pc = "scan" /\ bundle = NoPage
    /\ \E moved \in BOOLEAN :
         /\ Raises("open", Open(app, Seed), moved)
         /\ page' = IF moved THEN Seed ELSE page
    /\ Raise
    /\ UNCHANGED <<app, fired, store>>

\* GraphError from persist_state, from persist_edge, or from is_visited.
ScanRaises ==
    /\ pc = "scan" /\ "store" \in Flaky
    /\ Scanned # NoPage
    /\ page' = IF bundle = NoPage THEN Seed ELSE page
    /\ \/ UNCHANGED <<nodes, edges>>
       \/ nodes' = PersistState(nodes, Scanned, depth) /\ edges' \in {edges, edges \o Edges}
    /\ Raise
    /\ UNCHANGED <<app, fired, visited, persisted>>

-----------------------------------------------------------------------------
(* reason and its route                                                    *)

Found == IF bundle \in Bad THEN <<bundle>> ELSE <<>>

\* The entries _next_index looks for.
Mine == {i \in DOMAIN frontier : frontier[i].from = current_state_id}

\* Mutant of NextNode: the limit is tested one scan too late.
NextNodeLate == IF iterations > max_iterations \/ Mine = {} THEN "end" ELSE "act"

\* route; "clean" and "violated" lead to the same node.
NextNode == IF iterations >= max_iterations \/ Mine = {} THEN "end" ELSE "act"

Reason ==
    /\ pc = "reason"
    /\ violations' = violations \o Found
    /\ persisted' = persisted \o Found
    /\ pc' = NextNode
    /\ UNCHANGED <<browser, nodes, visited, edges, bundle, current_state_id,
                   last_action, next_bundle, frontier, trail, skipped, depth,
                   iterations, max_iterations>>

\* PerceptionError, or GraphError from persist_violation.
ReasonRaises ==
    /\ pc = "reason"
    /\ "perception" \in Flaky \/ ("store" \in Flaky /\ Found # <<>>)
    /\ Raise
    /\ UNCHANGED <<browser, store>>

-----------------------------------------------------------------------------
(* act                                                                     *)

\* _next_index: the most recent entry of the current state.
Next_index == CHOOSE i \in Mine : \A j \in Mine : j <= i
Item == frontier[Next_index]
Target == Dest(app, page, Item.action)
Fires == [from |-> page, action |-> Item.action, to |-> Target]

\* The claim is made before the crawler is called.
ActStep ==
    /\ pc = "act"
    /\ visited' = visited \cup {PairOf(Item)}
    /\ UNCHANGED <<nodes, edges, persisted, max_iterations>>

\* The browser after a call that raised.
Failed ==
    \E moved \in BOOLEAN :
      /\ Raises("act", Target, moved)
      /\ page' = IF moved THEN Target ELSE page
      /\ fired' = IF moved THEN Append(fired, Fires) ELSE fired
      /\ app' \in IF moved THEN After(app, Item.action) ELSE {app}

ActReturns ==
    /\ frontier' = RemoveAt(frontier, Next_index)
    /\ pc' = "observe"
    /\ UNCHANGED <<bundle, current_state_id, trail, violations, iterations>>

\* Mutant of Execute: the step is counted again.
ExecuteDeeper ==
    /\ ActStep /\ ActReturns
    /\ Target # NoPage
    /\ page' = Target /\ fired' = Append(fired, Fires)
    /\ app' \in After(app, Item.action)
    /\ next_bundle' = Target
    /\ last_action' = Item
    /\ depth' = Item.depth + 1
    /\ UNCHANGED skipped

Execute ==
    /\ ActStep
    /\ ActReturns
    /\ Target # NoPage
    /\ page' = Target /\ fired' = Append(fired, Fires)
    /\ app' \in After(app, Item.action)
    /\ next_bundle' = Target
    /\ last_action' = Item
    /\ depth' = Item.depth
    /\ UNCHANGED skipped

\* Mutant of SkipFailed: the edge is owed although the action failed.
SkipFailedOwing ==
    /\ ActStep /\ ActReturns /\ Failed
    /\ ~(Item.action \in Offers(app, page) /\ Target = NoPage)
    /\ skipped' = Append(skipped, PairOf(Item))
    /\ next_bundle' = bundle
    /\ last_action' = Item
    /\ UNCHANGED depth

\* ActionError: the skip is recorded, and the capture in hand scanned again.
SkipFailed ==
    /\ ActStep
    /\ ActReturns
    /\ Failed
    /\ ~(Item.action \in Offers(app, page) /\ Target = NoPage)
    /\ skipped' = Append(skipped, PairOf(Item))
    /\ next_bundle' = bundle
    /\ UNCHANGED <<last_action, depth>>

\* NavigationError is no ActionError, and a dead link raises it.
ActRaises ==
    /\ ActStep
    /\ Failed
    /\ Item.action \in Offers(app, page)
    /\ Raise

\* GraphError from mark_visited.
ClaimRaises ==
    /\ pc = "act" /\ "store" \in Flaky
    /\ Raise
    /\ UNCHANGED <<browser, store>>

-----------------------------------------------------------------------------
Observe ==
    /\ pc = "observe"
    /\ bundle' = next_bundle /\ next_bundle' = NoPage
    /\ pc' = "scan"
    /\ UNCHANGED <<browser, store, current_state_id, last_action, frontier, trail,
                   violations, skipped, depth, iterations, max_iterations>>

Stopped == pc \in {"end", "raised"} /\ UNCHANGED vars

Next ==
    \/ Scan \/ OpenRaises \/ ScanRaises
    \/ Reason \/ ReasonRaises
    \/ Execute \/ SkipFailed \/ ActRaises \/ ClaimRaises
    \/ Observe
    \/ Stopped

Spec == Init /\ [][Next]_vars

-----------------------------------------------------------------------------
TypeOK ==
    /\ app \in Apps /\ page \in Pages \cup {NoPage} /\ fired \in Seq(Firing)
    /\ nodes \in [DOMAIN nodes -> Nat] /\ DOMAIN nodes \subseteq Pages
    /\ \A s \in DOMAIN nodes \ DOMAIN OldNodes : nodes[s] <= DepthLimit
    /\ visited \subseteq Pairs /\ edges \in Seq(Edge) /\ persisted \in Seq(Bad)
    /\ {bundle, current_state_id, next_bundle} \subseteq Pages \cup {NoPage}
    /\ last_action \in Pending \cup {NoAction}
    /\ frontier \in Seq(Pending) /\ trail \in Seq(Pages) /\ violations \in Seq(Bad)
    /\ skipped \in Seq(Pairs) /\ depth \in 0..DepthLimit /\ iterations \in Nat
    /\ max_iterations \in IterationLimits
    /\ pc \in {"scan", "reason", "act", "observe", "end", "raised"}

\* "At-most-once" (act), as far as it goes: the browser performs an action of a
\* page at most as often as the page shows controls with its id, whatever is
\* revisited.  Two controls with one id are performed twice.
ActsBounded ==
    \A p \in DOMAIN app, x \in Actions :
      Cardinality({i \in DOMAIN fired : fired[i].from = p /\ fired[i].action = x})
        <= Cardinality({i \in DOMAIN app[p] : app[p][i].action = x})

\* An edge is written one node after the action it records.  Nonetheless the
\* edges are what the browser did, in order, and at most the last is owing;
\* a skip in between leaves no edge.
EdgesAreFirings ==
    /\ Len(fired) <= Len(edges) + 1
    /\ \A i \in DOMAIN edges :
         /\ i \in DOMAIN fired
         /\ [from |-> edges[i].from, action |-> edges[i].action, to |-> edges[i].to]
              = fired[i]
    /\ pc \in {"reason", "act", "end"} => Len(fired) = Len(edges)

Controls == UNION {{p} \X DOMAIN app[p] : p \in DOMAIN app}

\* "max_iterations=3 yields exactly three scanned states" (scan): a run that
\* ended did so at the limit, or had no entry of the current state left.  It
\* ends by itself: it scans no more often than once and once for each control.
IterationsExact ==
    /\ iterations <= 1 + Cardinality(Controls)
    /\ pc = "end" => /\ Len(trail) = iterations
                     /\ iterations <= max_iterations \/ iterations = 1
                     /\ iterations >= max_iterations \/ Mine = {}
=============================================================================
