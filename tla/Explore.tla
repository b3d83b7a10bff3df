------------------------------ MODULE Explore ------------------------------
(***************************************************************************)
(* apps/agent/orchestrator/explore.py: the plain-Python loop kept as the   *)
(* parity oracle of graph_runner.py.  `pc` is the place in the function:   *)
(* the calls of scan, the head of the while loop, and the edge that        *)
(* follows a successful action.                                            *)
(*                                                                         *)
(* It is the abstract specification GraphRunner implements while no port   *)
(* fails in a way neither loop handles ("perception" and "store", whose    *)
(* exceptions leave both functions; GraphRunner has those steps).          *)
(***************************************************************************)
EXTENDS Exploration

VARIABLES
    app, page, fired, closed,               \* the application and the browser
    nodes, visited, edges, persisted,       \* the graph store
    \* _Run
    frontier, queued, seen, order, violations, skipped,
    edge_count, pairs, replays, replay_steps, current_state_id,
    \* locals: the arguments of scan; the candidate and the bundle it landed on
    scanning, candidate, landed,
    audited, pc, termination_reason

browser == <<app, page, fired, closed>>
store   == <<nodes, visited, edges, persisted>>
lists   == <<frontier, queued, seen, order, violations, skipped>>
counts  == <<edge_count, pairs, replays, replay_steps>>
locals  == <<scanning, candidate, landed>>
vars    == <<browser, store, lists, counts, current_state_id, locals, audited,
             pc, termination_reason>>

NoScan == [bundle |-> NoPage, depth |-> 0, path |-> <<>>]

Init ==
    /\ app \in Apps
    /\ page = NoPage /\ fired = <<>> /\ closed = FALSE
    /\ nodes = OldNodes /\ visited = OldVisited
    /\ edges = <<>> /\ persisted = <<>>
    /\ frontier = <<>> /\ queued = {} /\ seen = {} /\ order = <<>>
    /\ violations = <<>> /\ skipped = <<>>
    /\ edge_count = 0 /\ pairs = 0 /\ replays = 0 /\ replay_steps = 0
    /\ current_state_id = NoPage
    /\ scanning = NoScan /\ candidate = NoAction /\ landed = NoPage
    /\ audited = <<>> /\ pc = "start" /\ termination_reason = "none"

OpenSeed ==
    /\ pc = "start"
    /\ \/ /\ Open(app, Seed) # NoPage
          /\ page' = Seed
          /\ scanning' = [bundle |-> Seed, depth |-> 0, path |-> <<>>]
          /\ pc' = "scan"
          /\ UNCHANGED <<closed, termination_reason>>
       \/ /\ \E moved \in BOOLEAN :
               /\ Raises("open", Open(app, Seed), moved)
               /\ page' = IF moved THEN Seed ELSE page
          /\ closed' = TRUE /\ pc' = "done" /\ termination_reason' = "error"
          /\ UNCHANGED scanning
    /\ UNCHANGED <<app, fired, store, lists, counts, current_state_id,
                   candidate, landed, audited>>

\* scan, all five stages of it; on a revisit only the order grows.
Scan ==
    LET sid == scanning.bundle
        found == IF sid \in Bad THEN <<sid>> ELSE <<>>
        first == sid \notin seen
    IN  /\ pc = "scan"
        /\ order' = Append(order, sid)
        /\ current_state_id' = sid
        /\ seen' = seen \cup {sid}
        /\ nodes' = IF first THEN PersistState(nodes, sid, scanning.depth) ELSE nodes
        /\ audited' = IF first THEN Append(audited, sid) ELSE audited
        /\ violations' = IF first THEN violations \o found ELSE violations
        /\ persisted' = IF first THEN persisted \o found ELSE persisted
        /\ IF first /\ scanning.depth < DepthLimit
           THEN /\ frontier' = Enqueue(frontier, queued \cup visited, sid,
                                       Enumerate(app, sid), scanning.depth + 1,
                                       scanning.path)
                /\ queued' = queued \cup PairsOf(frontier')
           ELSE UNCHANGED <<frontier, queued>>
        /\ scanning' = NoScan
        /\ pc' = "loop"
        /\ UNCHANGED <<browser, visited, edges, skipped, counts, candidate,
                       landed, termination_reason>>

\* The while loop ends: no candidate, or the cap.
Finish ==
    /\ pc = "loop"
    /\ TerminalReason(frontier, Cardinality(seen)) # "none"
    /\ termination_reason' = TerminalReason(frontier, Cardinality(seen))
    /\ closed' = TRUE /\ pc' = "done"
    /\ UNCHANGED <<app, page, fired, store, lists, counts, current_state_id,
                   locals, audited>>

-----------------------------------------------------------------------------
(* One candidate.  reach and crawler.act either skip it or land somewhere. *)

Pop ==
    /\ pc = "loop"
    /\ TerminalReason(frontier, Cardinality(seen)) = "none"
    /\ frontier' = Tail(frontier)
    /\ UNCHANGED <<closed, nodes, edges, persisted, queued, seen, order,
                   violations, edge_count, scanning, audited, termination_reason>>

Skip(reason) ==
    /\ skipped' = Append(skipped, [from |-> Head(frontier).from,
                                   action |-> Head(frontier).action,
                                   reason |-> reason])
    /\ pc' = "loop"
    /\ UNCHANGED <<candidate, landed>>

\* reach: calls 0..n of the replay return, where call 0 is open(seed_url).
Calls == Walk(app, Seed, Head(frontier).path)
Returned(n) == \A i \in 0..n : Calls[i] # NoPage
Did(n) == [i \in 1..n |-> [from |-> Calls[i - 1], to |-> Calls[i],
                           action |-> Head(frontier).path[i]]]

ReachFails ==
    /\ Pop
    /\ current_state_id # Head(frontier).from
    /\ LET path == Head(frontier).path
           n == Len(path)
       IN  \/ /\ ~Replayable(path)
              /\ Skip("unreplayable")
              /\ UNCHANGED <<page, fired, replays, replay_steps, current_state_id>>
           \/ /\ Replayable(path)
              /\ \E i \in 0..n, moved \in BOOLEAN :
                   /\ Returned(i - 1)
                   /\ Raises(IF i = 0 THEN "open" ELSE "act", Calls[i], moved)
                   /\ page' = IF moved THEN Calls[i]
                              ELSE IF i = 0 THEN page ELSE Calls[i - 1]
                   /\ fired' = fired \o Did(IF moved THEN i ELSE i - 1)
                   /\ replay_steps' = replay_steps + (IF i = 0 THEN 0 ELSE i - 1)
              /\ Skip("replay failed")
              /\ UNCHANGED <<replays, current_state_id>>
           \/ /\ Replayable(path) /\ Returned(n)
              /\ Calls[n] # Head(frontier).from
              /\ page' = Calls[n] /\ fired' = fired \o Did(n)
              /\ replays' = replays + 1 /\ replay_steps' = replay_steps + n
              /\ current_state_id' = Calls[n]
              /\ Skip("replay diverged")
    /\ UNCHANGED <<app, visited, pairs>>

\* reach succeeds with the browser on `here`, having done `log` on the way; the
\* pair is claimed and the action executed.
ReachAndAct ==
    LET c == Head(frontier)
        n == Len(c.path)
        inPlace == current_state_id = c.from
        here == IF inPlace THEN page ELSE Calls[n]
        log == IF inPlace THEN fired ELSE fired \o Did(n)
        target == Dest(app, here, c.action)
        firing == [from |-> here, action |-> c.action, to |-> target]
    IN  /\ Pop
        /\ inPlace \/ (Replayable(c.path) /\ Returned(n) /\ here = c.from)
        /\ current_state_id' = c.from
        /\ replays' = replays + (IF inPlace THEN 0 ELSE 1)
        /\ replay_steps' = replay_steps + (IF inPlace THEN 0 ELSE n)
        /\ visited' = visited \cup {PairOf(c)}
        /\ pairs' = pairs + 1
        /\ \/ /\ target # NoPage
              /\ page' = target /\ fired' = Append(log, firing)
              /\ app' \in After(app, c.action)
              /\ candidate' = c /\ landed' = target
              /\ pc' = "edge"
              /\ UNCHANGED skipped
           \/ /\ \E moved \in BOOLEAN :
                   /\ Raises("act", target, moved)
                   /\ page' = IF moved THEN target ELSE here
                   /\ fired' = IF moved THEN Append(log, firing) ELSE log
                   /\ app' \in IF moved THEN After(app, c.action) ELSE {app}
              /\ Skip("act failed")

RecordEdge ==
    /\ pc = "edge"
    /\ edges' = Append(edges, [from |-> candidate.from, to |-> landed,
                               action |-> candidate.action,
                               back |-> landed \in seen])
    /\ edge_count' = edge_count + 1
    /\ scanning' = [bundle |-> landed, depth |-> candidate.depth,
                    path |-> Append(candidate.path, candidate.action)]
    /\ candidate' = NoAction /\ landed' = NoPage
    /\ pc' = "scan"
    /\ UNCHANGED <<browser, nodes, visited, persisted, lists, pairs, replays,
                   replay_steps, current_state_id, audited, termination_reason>>

Stopped ==
    /\ pc = "done"
    /\ UNCHANGED vars

Next ==
    \/ OpenSeed \/ Scan \/ Finish
    \/ ReachFails \/ ReachAndAct \/ RecordEdge
    \/ Stopped

Spec == Init /\ [][Next]_vars
FairSpec == Spec /\ WF_vars(Next)
=============================================================================
