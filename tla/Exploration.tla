---------------------------- MODULE Exploration ----------------------------
(***************************************************************************)
(* What the two implementations of the loop share: the configuration       *)
(* (config.py), the frontier entries (state.py), the graph store's first-  *)
(* write-wins node table (FakeGraph), and which port calls may fail.       *)
(*                                                                         *)
(* A port call fails when the application makes it fail, and may also fail *)
(* by itself when Flaky names its kind:                                    *)
(*   "open"        NavigationError, the browser has not moved              *)
(*   "act"         CrawlerError, the browser has not moved                 *)
(*   "late"        an open or act that raises after the browser has moved  *)
(*   "perception"  PerceptionError from analyze or audit                   *)
(*   "store"       GraphError from a call that writes to the graph store   *)
(***************************************************************************)
EXTENDS Crawler, FiniteSets

CONSTANTS
    Seed,           \* seed_url
    Apps,           \* the versions the application under test may be in
    Mutable,        \* an unsafe action may change the version
    Flaky,          \* the kinds of port failure, see above
    Bad,            \* the pages whose audit finds a violation
    OldNodes,       \* the graph store when the run starts: its nodes' depths
    OldVisited,     \* ... and its claimed pairs
    DepthLimit,     \* OrchestratorConfig.depth_limit
    MaxStates       \* OrchestratorConfig.max_states

Pairs == Pages \X Actions

ASSUME ExplorationAssumption ==
    /\ Seed \in Pages
    /\ \A v \in Apps : IsApp(v)
    /\ Mutable \in BOOLEAN
    /\ Flaky \subseteq {"open", "act", "late", "perception", "store"}
    /\ Bad \subseteq Pages
    /\ DOMAIN OldNodes \subseteq Pages
    /\ OldNodes \in [DOMAIN OldNodes -> Nat]
    /\ OldVisited \subseteq Pairs
    /\ DepthLimit \in Nat
    /\ MaxStates \in Nat \ {0}

\* A call of this kind raises: before the browser moved to its target, or late.
Raises(kind, target, moved) ==
    IF moved THEN "late" \in Flaky /\ target # NoPage
             ELSE kind \in Flaky \/ target = NoPage

\* The versions a side effect of `action` may leave the application in.
After(app, action) ==
    IF Mutable /\ action \in Unsafe
    THEN {v \in Apps : DOMAIN v = DOMAIN app} ELSE {app}

\* PendingAction, and the (state, action) pairs a list of records names.
Pending == [from : Pages, action : Actions, depth : Nat, path : Seq(Actions)]
NoAction == [from |-> NoPage, action |-> NoPage, depth |-> 0, path |-> <<>>]
PairOf(entry) == <<entry.from, entry.action>>
PairsOf(list) == {PairOf(list[i]) : i \in DOMAIN list}

\* PendingAction.replayable: no step of the path has a side effect.
Replayable(path) == \A i \in DOMAIN path : path[i] \notin Unsafe

\* Mutants of Enqueue: nothing is passed over; the new entries go first.
EnqueueAll(queue, known, sid, actions, d, path) ==
    queue \o [i \in DOMAIN actions |->
                [from |-> sid, action |-> actions[i], depth |-> d, path |-> path]]
EnqueueFirst(queue, known, sid, actions, d, path) ==
    EnqueueAll(<<>>, known, sid, actions, d, path) \o queue

\* The loop over enumerate_actions: action i is passed over when its pair is in
\* `known` (claimed, or queued once), is waiting already or came up before i.
Enqueue(queue, known, sid, actions, d, path) ==
    LET fresh(i) == /\ <<sid, actions[i]>> \notin PairsOf(queue) \cup known
                    /\ \A j \in 1..(i - 1) : actions[j] # actions[i]
        new(i) == [from |-> sid, action |-> actions[i], depth |-> d, path |-> path]
        q[i \in 0..Len(actions)] ==
            IF i = 0 THEN queue
            ELSE q[i - 1] \o (IF fresh(i) THEN <<new(i)>> ELSE <<>>)
    IN  q[Len(actions)]

\* Mutant of PersistState: a state that is not expanded gets no node.
PersistExpanded(nodes, sid, d) ==
    IF d >= DepthLimit THEN nodes
    ELSE [s \in DOMAIN nodes \cup {sid} |-> IF s = sid THEN d ELSE nodes[s]]

\* FakeGraph.persist_state: the first write wins.
PersistState(nodes, sid, d) ==
    IF sid \in DOMAIN nodes THEN nodes
    ELSE [s \in DOMAIN nodes \cup {sid} |-> IF s = sid THEN d ELSE nodes[s]]

\* Mutant of TerminalReason: the cap is tested one state too late.
TerminalReasonLate(frontier, scanned) ==
    IF frontier = <<>> THEN "frontier_exhausted"
    ELSE IF scanned > MaxStates THEN "max_states" ELSE "none"

\* _terminal_reason, the head of the loop, when `scanned` states are known: an
\* empty frontier counts before the cap does.
TerminalReason(frontier, scanned) ==
    IF frontier = <<>> THEN "frontier_exhausted"
    ELSE IF scanned >= MaxStates THEN "max_states" ELSE "none"

\* Records that the two implementations keep alike.
Firing == [from : Pages, action : Actions, to : Pages]
Edge == [from : Pages, to : Pages, action : Actions, back : BOOLEAN]
Skipped == [from : Pages, action : Actions,
            reason : {"unreplayable", "replay failed", "replay diverged",
                      "act failed"}]
=============================================================================
