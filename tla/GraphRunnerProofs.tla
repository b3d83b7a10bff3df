------------------------- MODULE GraphRunnerProofs -------------------------
(***************************************************************************)
(* What the LangGraph loop guarantees for every application, port failure  *)
(* and configuration.  In this order:                                      *)
(*   types and control   Typed, TypeCorrect, StatesCapped                  *)
(*   the books           PairsWaitOnce, ClaimsCounted, AuditedOnce,        *)
(*                       EdgesHaveEnds, OrderIsAWalk, LevelByLevel,        *)
(*                       NothingDropped                                    *)
(*   supersteps          LimitOutOfReach                                   *)
(*   the browser         LocatedIsTruthful                                 *)
(*   the plain loop      ImplementsPlain                                   *)
(*   crashes             DanglingIsBounded, RestartsDoNotRefire,           *)
(*                       RestartsLoseOneEach, ResumesAreExact              *)
(*   a complete run      ExhaustedMeansComplete                            *)
(***************************************************************************)
EXTENDS GraphRunnerParity, CrashRecovery, ExplorationProofs, FiniteSetTheorems

(***************************************************************************)
(* Types and control.                                                      *)
(***************************************************************************)

\* What each node may assume because of the node, and the routing, before it:
\* there is a bundle to scan, a candidate to act on, and room for one state.
Control ==
    /\ pc \in {"scan", "reason"} => current_bundle \in Pages
    /\ pc = "act" => frontier # <<>>
    /\ pc \in {"start", "scan", "act", "observe"} => Len(seen) < MaxStates
    /\ pc = "observe" /\ acted => pending \in Pending /\ next_bundle \in Pages

Types == TypeOK /\ Control /\ StateCap

\* A sequence over S with one more element of S.
LEMMA AppendType ==
    ASSUME NEW S, NEW s \in Seq(S), NEW e \in S
    PROVE  Append(s, e) \in Seq(S)
  OBVIOUS

\* LangGraph is granted at least one superstep.
LEMMA LimitType == RecursionLimit \in Nat /\ RecursionLimit > 0
  BY ExplorationAssumption DEF RecursionLimit

\* The initial state, before the seed is opened.
LEMMA InitTypes == Init => Types
  <1> SUFFICES ASSUME Init PROVE Types
    OBVIOUS
  <1>1. BrowserType
    <2>1. app \in Apps /\ page = NoPage /\ fired = <<>> /\ closed = FALSE
      BY DEF Init
    <2>2. fired \in Seq(Firing)
      BY <2>1
    <2> QED  BY <2>1, <2>2, Zenon DEF BrowserType
  <1>8. StoreType
    <2>1. nodes = OldNodes /\ visited = OldVisited /\ edges = <<>> /\ persisted = <<>>
      BY DEF Init
    <2> QED  BY <2>1, ExplorationAssumption DEF StoreType
  <1>2. CurrentType
    <2>1. current_path = <<>> /\ depth = 0 /\ first_visit = FALSE
          /\ current_bundle = NoPage /\ current_state_id = NoPage
      BY DEF Init
    <2>2. first_visit \in BOOLEAN
      BY <2>1
    <2>3. current_path \in Seq(Actions) /\ depth \in Nat
      BY <2>1
    <2> QED  BY <2>1, <2>2, <2>3, Zenon DEF CurrentType
  <1>5. FlightType
    <2>1. pending = NoAction /\ next_bundle = NoPage /\ acted = FALSE
      BY DEF Init
    <2> QED  BY <2>1 DEF FlightType
  <1>3. QueueType
    <2>1. frontier = <<>> /\ seen = <<>> /\ order = <<>>
    /\ violations = <<>> /\ skipped = <<>> /\ audited = <<>>
      BY DEF Init
    <2> QED  BY <2>1 DEF QueueType
  <1>6. CountType
    <2>1. edge_count = 0 /\ visited_pairs = 0 /\ replays = 0 /\ replay_steps = 0 /\ supersteps = 0
      BY DEF Init
    <2> QED  BY <2>1, LimitType DEF CountType
  <1>7. PlaceType
    BY DEF Init, PlaceType
  <1>4. Control /\ StateCap
    BY ExplorationAssumption DEF Init, Control, StateCap
  <1> QED  BY <1>1, <1>2, <1>3, <1>4, <1>5, <1>6, <1>7, <1>8 DEF Types, TypeOK

-----------------------------------------------------------------------------
(* One step.                                                               *)

\* explore opens the seed, or gives up.
LEMMA OpenSeedTypes ==
    ASSUME Types, OpenSeed \/ OpenSeedFails
    PROVE  Types'
  <1> USE DEF Types, TypeOK
  <1>1. CASE OpenSeed
    <2>1. BrowserType' /\ StoreType'
      BY <1>1, ExplorationAssumption DEF OpenSeed, BrowserType, StoreType, store
    <2>2. CurrentType' /\ FlightType'
      BY <1>1, ExplorationAssumption DEF OpenSeed, CurrentType, FlightType, flight
    <2>3. QueueType' /\ CountType' /\ PlaceType'
      BY <1>1 DEF OpenSeed, QueueType, CountType, PlaceType, queues, counts, Nodes
    <2>4. Control' /\ StateCap'
      BY <1>1, ExplorationAssumption DEF OpenSeed, Control, StateCap, queues
    <2> QED  BY <2>1, <2>2, <2>3, <2>4
  <1>2. CASE OpenSeedFails
    <2>1. BrowserType' /\ StoreType'
      BY <1>2, ExplorationAssumption DEF OpenSeedFails, BrowserType, StoreType, store
    <2>2. CurrentType' /\ FlightType'
      BY <1>2 DEF OpenSeedFails, CurrentType, FlightType, current, flight
    <2>3. QueueType' /\ CountType' /\ PlaceType'
      BY <1>2 DEF OpenSeedFails, QueueType, CountType, PlaceType, queues, counts
    <2>4. Control' /\ StateCap'
      BY <1>2 DEF OpenSeedFails, Control, StateCap, queues
    <2> QED  BY <2>1, <2>2, <2>3, <2>4
  <1> QED  BY <1>1, <1>2

\* The application keeps being one.
LEMMA AppType ==
    ASSUME Types
    PROVE  IsApp(app) /\ DOMAIN app \subseteq Pages /\ app \in Apps
  BY ExplorationAssumption DEF Types, TypeOK, BrowserType, IsApp

\* The limit is tested before every node.
LEMMA SuperstepType ==
    ASSUME Types, NEW n, Superstep(n)
    PROVE  supersteps' \in 0..RecursionLimit
  BY LimitType DEF Types, TypeOK, CountType, Superstep

\* The routing sends the loop to act only with a candidate and below the cap.
LEMMA NextActType ==
    /\ NextAct \in {"act", "end"}
    /\ NextAct = "act" => frontier # <<>> /\ ~(Len(seen) >= MaxStates)
  BY DEF NextAct, TerminalReason

\* What a first scan makes of the frontier.
LEMMA ScanFrontier ==
    ASSUME Types, ScanFirst
    PROVE  /\ current_bundle \in Pages
           /\ \/ frontier' = frontier
              \/ Grown(frontier, visited, current_bundle, Enumerate(app, current_bundle),
                       depth + 1, current_path, Len(Enumerate(app, current_bundle)),
                       frontier')
           /\ frontier' \in Seq(Pending)
  <1>1. /\ current_bundle \in Pages /\ frontier \in Seq(Pending) /\ depth \in Nat
        /\ current_path \in Seq(Actions)
    BY DEF Types, TypeOK, Control, QueueType, CurrentType, ScanFirst, ScanVisit, Superstep
  <1>2. Enumerate(app, current_bundle) \in Seq(Actions)
    BY AppType, EnumerateType
  <1>3. CASE depth < DepthLimit
    <2>1. frontier' = Enqueue(frontier, visited, current_bundle,
                              Enumerate(app, current_bundle), depth + 1, current_path)
      BY <1>3 DEF ScanFirst
    <2>2. depth + 1 \in Nat
      BY <1>1
    <2>3. Grown(frontier, visited, current_bundle, Enumerate(app, current_bundle),
                depth + 1, current_path, Len(Enumerate(app, current_bundle)), frontier')
      BY <1>1, <1>2, <2>1, <2>2, EnqueueGrown
    <2>4. frontier' \in Seq(Pending)
      BY <2>3 DEF Grown
    <2> QED  BY <1>1, <2>3, <2>4
  <1>4. CASE ~(depth < DepthLimit)
    BY <1>4, <1>1 DEF ScanFirst
  <1> QED  BY <1>3, <1>4

\* scan, of a new state or of a known one.
LEMMA ScanTypes ==
    ASSUME Types, ScanFirst \/ ScanAgain
    PROVE  Types'
  <1> USE DEF Types, TypeOK
  <1>1. /\ pc = "scan" /\ pc' = "reason" /\ current_bundle \in Pages
        /\ Len(seen) < MaxStates /\ ScanVisit /\ Superstep("scan")
    BY DEF ScanFirst, ScanAgain, ScanVisit, Superstep, Control
  <1>2. BrowserType'
    BY <1>1 DEF ScanVisit, BrowserType, browser
  <1>3. CurrentType'
    <2>1. first_visit' \in BOOLEAN
      BY DEF ScanFirst, ScanAgain
    <2>2. /\ current_bundle' = current_bundle /\ current_state_id' = current_bundle
          /\ current_path' = current_path /\ depth' = depth
      BY <1>1 DEF ScanVisit
    <2> QED  BY <1>1, <2>1, <2>2, Zenon DEF CurrentType
  <1>4. FlightType' /\ PlaceType'
    BY <1>1 DEF ScanVisit, FlightType, PlaceType, Nodes, flight
  <1>5. CountType'
    BY <1>1, SuperstepType DEF ScanVisit, CountType, counts
  <1>6. order' \in Seq(Pages) /\ violations' \in Seq(Pages)
        /\ skipped' \in Seq(Skipped) /\ audited' \in Seq(Pages)
    BY <1>1 DEF ScanVisit, QueueType
  <1>7. visited' \subseteq Pairs /\ edges' \in Seq(Edge) /\ persisted' \in Seq(Pages)
    BY <1>1 DEF ScanVisit, StoreType
  <1>8. CASE ScanFirst
    <2>1. /\ seen' = Append(seen, current_bundle)
          /\ nodes' = PersistState(nodes, current_bundle, depth)
      BY <1>8 DEF ScanFirst
    <2>2. seen \in Seq(Pages) /\ nodes \in [DOMAIN nodes -> Nat] /\ depth \in Nat
          /\ DOMAIN nodes \subseteq Pages
      BY DEF QueueType, StoreType, CurrentType
    <2>3. /\ DOMAIN nodes' = DOMAIN nodes \cup {current_bundle}
          /\ nodes' \in [DOMAIN nodes' -> Nat]
      BY <2>1, <2>2, PersistStateType
    <2>4. StoreType'
      BY <1>1, <1>7, <2>2, <2>3 DEF StoreType
    <2>5. QueueType'
      BY <1>1, <1>6, <1>8, <2>1, <2>2, ScanFrontier DEF QueueType
    <2>6. Control' /\ StateCap'
      <3>1. Len(seen') = Len(seen) + 1 /\ Len(seen) \in Nat
        BY <2>1, <2>2, <1>1
      <3>2. StateCap'
        BY <3>1, <1>1, ExplorationAssumption DEF StateCap
      <3>3. Control'
        BY <1>1 DEF Control, ScanVisit, browser
      <3> QED  BY <3>2, <3>3
    <2> QED  BY <1>2, <1>3, <1>4, <1>5, <2>4, <2>5, <2>6
  <1>9. CASE ScanAgain
    <2>1. StoreType'
      BY <1>7, <1>9 DEF StoreType, ScanAgain
    <2>2. QueueType'
      BY <1>6, <1>9 DEF QueueType, ScanAgain
    <2>3. Control' /\ StateCap'
      BY <1>1, <1>9 DEF Control, StateCap, ScanAgain, ScanVisit, browser
    <2> QED  BY <1>2, <1>3, <1>4, <1>5, <2>1, <2>2, <2>3
  <1> QED  BY <1>8, <1>9

\* reason, with the routing after it.
LEMMA ReasonTypes ==
    ASSUME Types, ReasonAudit \/ ReasonAgain
    PROVE  Types'
  <1> USE DEF Types, TypeOK
  <1>1. ReasonVisit /\ pc = "reason" /\ current_bundle \in Pages
    BY DEF ReasonAudit, ReasonAgain, ReasonVisit, Superstep, Control
  <1>2. BrowserType' /\ FlightType'
    BY <1>1 DEF ReasonVisit, BrowserType, FlightType, browser, flight
  <1>3. CurrentType'
    BY <1>1 DEF ReasonVisit, CurrentType, current
  <1>4. CountType'
    BY <1>1, SuperstepType DEF ReasonVisit, CountType, counts
  <1>5. Found \in Seq(Pages)
    BY <1>1 DEF Found
  <1>6. persisted' \in Seq(Pages) /\ violations' \in Seq(Pages) /\ audited' \in Seq(Pages)
    <2>1. persisted \in Seq(Pages) /\ violations \in Seq(Pages) /\ audited \in Seq(Pages)
      BY DEF StoreType, QueueType
    <2>2. CASE ReasonAudit
      <3>1. /\ audited' = Append(audited, current_bundle)
            /\ persisted' = persisted \o Found /\ violations' = violations \o Found
        BY <2>2 DEF ReasonAudit
      <3>2. persisted \o Found \in Seq(Pages) /\ violations \o Found \in Seq(Pages)
        BY <1>5, <2>1
      <3>3. Append(audited, current_bundle) \in Seq(Pages)
        BY <1>1, <2>1
      <3> QED  BY <3>1, <3>2, <3>3
    <2>3. CASE ReasonAgain
      BY <2>1, <2>3 DEF ReasonAgain
    <2> QED  BY <2>2, <2>3
  <1>7. StoreType' /\ QueueType'
    BY <1>1, <1>6 DEF ReasonVisit, StoreType, QueueType
  <1>8. PlaceType'
    BY <1>1, NextActType DEF ReasonVisit, PlaceType, Nodes
  <1>9. Control' /\ StateCap'
    <2>1. Len(seen) \in Nat /\ MaxStates \in Nat
      BY ExplorationAssumption DEF QueueType
    <2>2. seen' = seen /\ frontier' = frontier /\ page' = page /\ pc' = NextAct
      BY <1>1 DEF ReasonVisit, browser
    <2>3. StateCap'
      BY <2>2 DEF StateCap
    <2>4. CASE NextAct = "act"
      BY <1>1, <2>1, <2>2, <2>3, <2>4, NextActType DEF Control
    <2>5. CASE NextAct = "end"
      BY <1>1, <2>2, <2>3, <2>5 DEF Control
    <2> QED  BY <2>4, <2>5, NextActType
  <1> QED  BY <1>2, <1>3, <1>4, <1>7, <1>8, <1>9

\* In act there is a candidate, and it is one PendingAction.
LEMMA CandidateNow ==
    ASSUME Types, pc = "act"
    PROVE  /\ Candidate \in Pending /\ Candidate.from \in Pages
           /\ Candidate.action \in Actions /\ Candidate.depth \in Nat
           /\ Candidate.path \in Seq(Actions)
           /\ frontier \in Seq(Pending) /\ frontier # <<>>
           /\ frontier[1] = Candidate /\ page \in Pages \cup {NoPage}
  <1>1. frontier \in Seq(Pending) /\ frontier # <<>> /\ page \in Pages \cup {NoPage}
    BY DEF Types, TypeOK, BrowserType, QueueType, Control
  <1>2. Candidate \in Pending /\ frontier[1] = Candidate
    BY <1>1 DEF Candidate
  <1> QED  BY <1>1, <1>2 DEF Pending

\* ... which act takes off the frontier.
LEMMA CandidateType ==
    ASSUME Types, ActStep
    PROVE  /\ Candidate \in Pending /\ Candidate.from \in Pages
           /\ Candidate.action \in Actions /\ Candidate.depth \in Nat
           /\ Candidate.path \in Seq(Actions)
           /\ frontier \in Seq(Pending) /\ Len(frontier) > 0
           /\ frontier' = Tail(frontier) /\ frontier' \in Seq(Pending)
           /\ frontier[1] = Candidate
           /\ Len(frontier') = Len(frontier) - 1
           /\ \A i \in 1..Len(frontier') : frontier'[i] = frontier[i + 1]
           /\ pc = "act" /\ pc' = "observe" /\ pending' = Candidate
           /\ page \in Pages \cup {NoPage} /\ seen' = seen /\ Len(seen) < MaxStates
  <1>1. pc = "act" /\ frontier' = Tail(frontier) /\ pending' = Candidate
        /\ pc' = "observe" /\ seen' = seen
    BY DEF ActStep, Superstep
  <1>2. /\ Candidate \in Pending /\ Candidate.from \in Pages
        /\ Candidate.action \in Actions /\ Candidate.depth \in Nat
        /\ Candidate.path \in Seq(Actions)
        /\ frontier \in Seq(Pending) /\ frontier # <<>>
        /\ frontier[1] = Candidate /\ page \in Pages \cup {NoPage}
    BY <1>1, CandidateNow
  <1>3. Len(seen) < MaxStates
    BY <1>1 DEF Types, Control
  <1>4. /\ Len(frontier) > 0 /\ frontier' \in Seq(Pending)
        /\ Len(frontier') = Len(frontier) - 1
        /\ \A i \in 1..Len(frontier') : frontier'[i] = frontier[i + 1]
    BY <1>1, <1>2
  <1> QED  BY <1>1, <1>2, <1>3, <1>4

\* A call of the replay that returned is on a page.
LEMMA ReplayType ==
    ASSUME Types, pc = "act", NEW i \in 0..Len(Candidate.path), Replay[i] # NoPage
    PROVE  Replay[i] \in Pages
  <1>1. Candidate.path \in Seq(Actions)
    BY CandidateNow
  <1>2. Replay[i] \in DOMAIN app \cup {NoPage}
    BY <1>1, AppType, WalkType DEF Replay
  <1> QED  BY <1>2, AppType

\* What the browser did in a replay is a list of executed actions.
LEMMA ReplayedType ==
    ASSUME Types, pc = "act", NEW n \in Nat, n <= Len(Candidate.path),
           \A i \in 0..n : Replay[i] # NoPage
    PROVE  Replayed(n) \in Seq(Firing)
  <1>1. Candidate.path \in Seq(Actions) /\ Len(Candidate.path) \in Nat
    BY CandidateNow
  <1>2. ASSUME NEW i \in 1..n
        PROVE  [from |-> Replay[i - 1], action |-> Candidate.path[i],
                to |-> Replay[i]] \in Firing
    <2>1. i - 1 \in 0..n /\ i \in 0..n /\ i - 1 \in 0..Len(Candidate.path)
          /\ i \in 0..Len(Candidate.path) /\ i \in 1..Len(Candidate.path)
      BY <1>1
    <2>2. Replay[i - 1] \in Pages /\ Replay[i] \in Pages
      BY <2>1, ReplayType
    <2>3. Candidate.path[i] \in Actions
      BY <2>1, <1>1
    <2> QED  BY <2>2, <2>3 DEF Firing
  <1>3. Replayed(n) \in [1..n -> Firing]
    BY <1>2 DEF Replayed
  <1> QED  BY <1>3

\* An action that succeeds leads to a page.
LEMMA TargetType ==
    ASSUME Types, Target # NoPage
    PROVE  Target \in Pages
  BY AppType, DestType DEF Target

\* A side effect leaves one of the versions of the application.
LEMMA AfterType ==
    ASSUME Types, NEW v \in After(app, Candidate.action)
    PROVE  v \in Apps
  BY AppType DEF After

\* The skip, and the rest of what every way through act leaves alone.
LEMMA ActTypes ==
    ASSUME Types, ActStep,
           acted' \in BOOLEAN, acted' => next_bundle' \in Pages,
           next_bundle' \in Pages \cup {NoPage},
           app' \in Apps, page' \in Pages \cup {NoPage}, fired' \in Seq(Firing),
           visited' \subseteq Pairs, skipped' \in Seq(Skipped),
           current_state_id' \in Pages \cup {NoPage}, current_path' \in Seq(Actions),
           visited_pairs' \in Nat, replays' \in Nat, replay_steps' \in Nat
    PROVE  Types'
  <1> USE DEF Types, TypeOK
  <1>1. BrowserType'
    <2>1. closed' \in BOOLEAN
      BY DEF ActStep, BrowserType
    <2> QED  BY <2>1, Zenon DEF BrowserType
  <1>2. StoreType'
    BY DEF ActStep, StoreType
  <1>3. CurrentType'
    <2>1. first_visit' = first_visit /\ current_bundle' = current_bundle /\ depth' = depth
      BY DEF ActStep
    <2> QED  BY <2>1, Zenon DEF CurrentType
  <1>4. FlightType'
    BY CandidateType, Zenon DEF FlightType
  <1>5. QueueType'
    BY CandidateType DEF ActStep, QueueType
  <1>6. CountType'
    BY SuperstepType DEF ActStep, CountType
  <1>7. PlaceType'
    BY DEF ActStep, PlaceType, Nodes
  <1>8. Control' /\ StateCap'
    BY CandidateType DEF Control, StateCap
  <1> QED  BY <1>1, <1>2, <1>3, <1>4, <1>5, <1>6, <1>7, <1>8

\* A skip leaves its reason and no bundle to observe.
LEMMA SkipTypes ==
    ASSUME Types, ActStep,
           NEW reason \in {"unreplayable", "replay failed", "replay diverged", "act failed"},
           Skip(reason)
    PROVE  /\ acted' = FALSE /\ acted' \in BOOLEAN /\ skipped' \in Seq(Skipped)
           /\ next_bundle' \in Pages \cup {NoPage}
  <1> DEFINE drop == [from |-> Candidate.from, action |-> Candidate.action,
                      reason |-> reason]
  <1>1. drop \in Skipped
    BY CandidateType DEF Skipped
  <1>2. skipped \in Seq(Skipped) /\ next_bundle \in Pages \cup {NoPage}
    BY DEF Types, TypeOK, QueueType, FlightType
  <1>3. acted' = FALSE /\ next_bundle' = next_bundle
        /\ skipped' = Append(skipped, drop)
    BY DEF Skip
  <1>4. acted' \in BOOLEAN
    BY <1>3
  <1> HIDE DEF drop
  <1>5. skipped' \in Seq(Skipped)
    <2>1. Append(skipped, drop) \in Seq(Skipped)
      BY <1>1, <1>2, AppendType
    <2> QED  BY <1>3, <2>1, Zenon
  <1>6. next_bundle' \in Pages \cup {NoPage}
    BY <1>2, <1>3
  <1> QED  BY <1>3, <1>4, <1>5, <1>6, Zenon

\* The browser is on the candidate's state, at once or after a replay.
LEMMA BackType ==
    ASSUME Types, pc = "act",
           InPlace \/ \A i \in 0..Len(Candidate.path) : Replay[i] # NoPage
    PROVE  Here \in Pages \cup {NoPage} /\ FiredBefore \in Seq(Firing)
  <1>1. fired \in Seq(Firing) /\ page \in Pages \cup {NoPage}
    BY CandidateNow DEF Types, TypeOK, BrowserType
  <1>2. CASE InPlace
    BY <1>1, <1>2 DEF Here, FiredBefore
  <1>3. CASE ~InPlace
    <2>1. Len(Candidate.path) \in Nat
      <3>1. Candidate.path \in Seq(Actions)
        BY CandidateNow
      <3> QED  BY <3>1
    <2>2. Len(Candidate.path) \in 0..Len(Candidate.path)
          /\ Len(Candidate.path) <= Len(Candidate.path)
      BY <2>1
    <2>3. Replayed(Len(Candidate.path)) \in Seq(Firing)
      BY <1>3, <2>1, <2>2, ReplayedType
    <2>4. Landed \in Pages
      BY <1>3, <2>2, ReplayType DEF Landed
    <2>5. fired \o Replayed(Len(Candidate.path)) \in Seq(Firing)
      BY <1>1, <2>3
    <2> QED  BY <1>3, <2>4, <2>5 DEF Here, FiredBefore
  <1> QED  BY <1>2, <1>3

\* ... as far as the loop gets before it claims the pair.
LEMMA HereType ==
    ASSUME Types, ActStep, Arrived
    PROVE  /\ Here \in Pages \cup {NoPage} /\ FiredBefore \in Seq(Firing)
           /\ current_state_id' \in Pages \cup {NoPage}
           /\ replays' \in Nat /\ replay_steps' \in Nat
  <1>1. /\ current_state_id \in Pages \cup {NoPage}
        /\ replays \in Nat /\ replay_steps \in Nat
    BY DEF Types, TypeOK, CurrentType, CountType
  <1>2. pc = "act" /\ Candidate.from \in Pages /\ Candidate.path \in Seq(Actions)
    BY CandidateType
  <1>3. CASE InPlace
    <2>1. UNCHANGED <<current_state_id, replays, replay_steps>>
      BY <1>3 DEF Arrived
    <2> QED  BY <1>1, <1>2, <1>3, <2>1, BackType
  <1>4. CASE ~InPlace
    <2>1. /\ \A i \in 0..Len(Candidate.path) : Replay[i] # NoPage
          /\ replays' = replays + 1
          /\ replay_steps' = replay_steps + Len(Candidate.path)
          /\ current_state_id' = Landed /\ Landed = Candidate.from
      BY <1>4 DEF Arrived, ReplayCompletes
    <2>2. replays + 1 \in Nat /\ replay_steps + Len(Candidate.path) \in Nat
      BY <1>1, <1>2
    <2> QED  BY <1>2, <2>1, <2>2, BackType
  <1> QED  BY <1>3, <1>4

\* act, when the way back has a side effect.
LEMMA SkipUnreplayableTypes ==
    ASSUME Types, SkipUnreplayable
    PROVE  Types'
  <1>1. ActStep /\ Skip("unreplayable")
        /\ UNCHANGED <<app, page, fired, visited, current_state_id, current_path,
                       visited_pairs, replays, replay_steps>>
    BY DEF SkipUnreplayable
  <1>2. /\ app \in Apps /\ page \in Pages \cup {NoPage} /\ fired \in Seq(Firing)
        /\ visited \subseteq Pairs /\ current_state_id \in Pages \cup {NoPage}
        /\ current_path \in Seq(Actions) /\ visited_pairs \in Nat
        /\ replays \in Nat /\ replay_steps \in Nat
    BY <1>1, CandidateType
    DEF Types, TypeOK, BrowserType, StoreType, CurrentType, CountType
  <1> QED  BY <1>1, <1>2, SkipTypes, ActTypes

\* act, when a call of the replay raises.
LEMMA SkipReplayFailedTypes ==
    ASSUME Types, SkipReplayFailed
    PROVE  Types'
  <1> DEFINE n == Len(Candidate.path)
  <1>1. ActStep /\ Skip("replay failed")
        /\ UNCHANGED <<app, visited, current_state_id, current_path,
                       visited_pairs, replays>>
    BY DEF SkipReplayFailed
  <1>2. /\ app \in Apps /\ page \in Pages \cup {NoPage} /\ fired \in Seq(Firing)
        /\ visited \subseteq Pairs /\ current_state_id \in Pages \cup {NoPage}
        /\ current_path \in Seq(Actions) /\ visited_pairs \in Nat
        /\ replays \in Nat /\ replay_steps \in Nat
    BY <1>1, CandidateType
    DEF Types, TypeOK, BrowserType, StoreType, CurrentType, CountType
  <1>0. n \in Nat
    <2>1. ActStep
      BY <1>1
    <2>2. Candidate.path \in Seq(Actions)
      BY <2>1, CandidateType
    <2> QED  BY <2>2
  <1>3. PICK k \in 0..n, moved \in BOOLEAN :
          /\ \A i \in 0..(k - 1) : Replay[i] # NoPage
          /\ Raises(IF k = 0 THEN "open" ELSE "act", Replay[k], moved)
          /\ page' = IF moved THEN Replay[k] ELSE IF k = 0 THEN page ELSE Replay[k - 1]
          /\ fired' = fired \o Replayed(IF moved THEN k ELSE k - 1)
          /\ replay_steps' = replay_steps + (IF k = 0 THEN 0 ELSE k - 1)
    BY DEF SkipReplayFailed
  <1>4. k \in Nat /\ k \in 0..n /\ k <= n /\ replay_steps' \in Nat
    BY <1>2, <1>0, <1>3
  <1>6. pc = "act"
    BY <1>1 DEF ActStep, Superstep
  <1>5. page' \in Pages \cup {NoPage} /\ fired' \in Seq(Firing)
    <2>1. CASE moved
      <3>1. Replay[k] # NoPage
        BY <1>3, <2>1 DEF Raises
      <3>2. \A i \in 0..k : Replay[i] # NoPage
        BY <1>3, <1>4, <3>1
      <3>3. Replay[k] \in Pages /\ Replayed(k) \in Seq(Firing)
        BY <1>6, <1>4, <3>1, <3>2, ReplayType, ReplayedType
      <3>4. page' = Replay[k] /\ fired' = fired \o Replayed(k)
        BY <1>3, <2>1
      <3> QED  BY <1>2, <3>3, <3>4
    <2>2. CASE ~moved /\ k = 0
      <3>1. page' = page /\ fired' = fired \o Replayed(0 - 1)
        BY <1>3, <2>2
      <3>2. Replayed(0 - 1) \in [1..0 -> Firing]
        <4>1. 1..(0 - 1) = {} /\ 1..0 = {}
          OBVIOUS
        <4> QED  BY <4>1 DEF Replayed
      <3>3. Replayed(0 - 1) \in Seq(Firing)
        BY <3>2
      <3> QED  BY <1>2, <3>1, <3>3
    <2>3. CASE ~moved /\ k # 0
      <3>1. k - 1 \in 0..n /\ k - 1 \in Nat /\ k - 1 <= n
        BY <1>0, <1>4, <2>3
      <3>4. \A i \in 0..(k - 1) : Replay[i] # NoPage
        BY <1>3
      <3>5. k - 1 \in 0..(k - 1)
        BY <3>1
      <3>2. Replay[k - 1] \in Pages /\ Replayed(k - 1) \in Seq(Firing)
        BY <1>6, <3>1, <3>4, <3>5, ReplayType, ReplayedType
      <3>3. page' = Replay[k - 1] /\ fired' = fired \o Replayed(k - 1)
        BY <1>3, <2>3
      <3> QED  BY <1>2, <3>2, <3>3
    <2> QED  BY <2>1, <2>2, <2>3
  <1> HIDE DEF n
  <1> QED  BY <1>1, <1>2, <1>4, <1>5, SkipTypes, ActTypes

\* act, when the replay ends elsewhere.
LEMMA SkipReplayDivergedTypes ==
    ASSUME Types, SkipReplayDiverged
    PROVE  Types'
  <1> DEFINE n == Len(Candidate.path)
  <1>1. /\ ActStep /\ Skip("replay diverged") /\ ReplayCompletes
        /\ page' = Landed /\ fired' = fired \o Replayed(n)
        /\ current_path' = Candidate.path
        /\ UNCHANGED <<app, visited, visited_pairs>>
    BY DEF SkipReplayDiverged
  <1>2. /\ app \in Apps /\ fired \in Seq(Firing)
        /\ visited \subseteq Pairs /\ visited_pairs \in Nat
        /\ replays \in Nat /\ replay_steps \in Nat
    BY <1>1 DEF Types, TypeOK, BrowserType, StoreType, CountType
  <1>0. n \in Nat /\ current_path' \in Seq(Actions)
    <2>1. ActStep /\ current_path' = Candidate.path
      BY <1>1
    <2>2. Candidate.path \in Seq(Actions)
      BY <2>1, CandidateType
    <2>3. n \in Nat
      BY <2>2
    <2> QED  BY <2>1, <2>2, <2>3
  <1>3. /\ \A i \in 0..n : Replay[i] # NoPage
        /\ replays' = replays + 1 /\ replay_steps' = replay_steps + n
        /\ current_state_id' = Landed
    BY <1>1 DEF ReplayCompletes
  <1>4. n \in 0..n /\ n <= n
    BY <1>0
  <1>9. pc = "act"
    BY <1>1 DEF ActStep, Superstep
  <1>5. Landed \in Pages
    BY <1>9, <1>3, <1>4, ReplayType DEF Landed
  <1>6. Replayed(n) \in Seq(Firing)
    BY <1>9, <1>0, <1>3, <1>4, ReplayedType
  <1> HIDE DEF n
  <1>7. page' \in Pages \cup {NoPage} /\ replays' \in Nat
        /\ replay_steps' \in Nat /\ current_state_id' \in Pages \cup {NoPage}
    <2>1. replays + 1 \in Nat /\ replay_steps + n \in Nat
      BY <1>0, <1>2
    <2> QED  BY <1>1, <1>3, <1>5, <2>1
  <1>8. fired' \in Seq(Firing)
    <2>1. fired \o Replayed(n) \in Seq(Firing)
      BY <1>2, <1>6
    <2> QED  BY <1>1, <2>1
  <1> QED  BY <1>1, <1>2, <1>0, <1>7, <1>8, SkipTypes, ActTypes

\* mark_visited claims a pair.
LEMMA ClaimType ==
    ASSUME Types, ActStep, Claim
    PROVE  visited' \subseteq Pairs /\ visited_pairs' \in Nat
  <1>1. visited \subseteq Pairs /\ visited_pairs \in Nat
    BY DEF Types, TypeOK, StoreType, CountType
  <1>2. PairOf(Candidate) \in Pairs
    BY CandidateType DEF PairOf, Pairs
  <1> QED  BY <1>1, <1>2 DEF Claim

\* The action, executed where the browser is.
LEMMA BackFires ==
    ASSUME Types, pc = "act",
           InPlace \/ \A i \in 0..Len(Candidate.path) : Replay[i] # NoPage,
           Target # NoPage
    PROVE  /\ FiredBefore \in Seq(Firing) /\ Fires \in Firing
           /\ Append(FiredBefore, Fires) \in Seq(Firing)
  <1>1. Here \in Pages
    BY AppType, DestType DEF Target
  <1>2. Fires \in Firing
    BY <1>1, TargetType, CandidateNow DEF Fires, Firing
  <1>3. FiredBefore \in Seq(Firing)
    BY BackType
  <1> QED  BY <1>2, <1>3

LEMMA FiresType ==
    ASSUME Types, ActStep, Arrived, Target # NoPage
    PROVE  /\ FiredBefore \in Seq(Firing) /\ Fires \in Firing
           /\ Append(FiredBefore, Fires) \in Seq(Firing)
  <1>1. pc = "act" /\ (InPlace \/ \A i \in 0..Len(Candidate.path) : Replay[i] # NoPage)
    BY DEF ActStep, Superstep, Arrived, ReplayCompletes
  <1> QED  BY <1>1, BackFires

\* act, when the action succeeds.
LEMMA ExecuteTypes ==
    ASSUME Types, Execute
    PROVE  Types'
  <1>1. /\ ActStep /\ Arrived /\ Claim /\ Target # NoPage
        /\ page' = Target /\ fired' = Append(FiredBefore, Fires)
        /\ app' \in After(app, Candidate.action)
        /\ next_bundle' = Target /\ acted' = TRUE
        /\ current_path' = IF InPlace THEN current_path ELSE Candidate.path
        /\ skipped' = skipped
    BY DEF Execute
  <1>2. skipped \in Seq(Skipped) /\ current_path \in Seq(Actions)
    BY DEF Types, TypeOK, QueueType, CurrentType
  <1>3. current_path' \in Seq(Actions) /\ acted' \in BOOLEAN /\ skipped' \in Seq(Skipped)
    BY <1>1, <1>2, CandidateType
  <1>4. app' \in Apps /\ page' \in Pages \cup {NoPage} /\ next_bundle' \in Pages
        /\ fired' \in Seq(Firing)
    BY <1>1, AfterType, TargetType, FiresType
  <1> QED  BY <1>1, <1>3, <1>4, HereType, ClaimType, ActTypes

\* act, when the action raises.
LEMMA SkipActFailedTypes ==
    ASSUME Types, SkipActFailed
    PROVE  Types'
  <1>1. ActStep /\ Arrived /\ Claim /\ Skip("act failed") /\ current_path' = current_path
    BY DEF SkipActFailed
  <1>2. PICK moved \in BOOLEAN :
          /\ Raises("act", Target, moved)
          /\ page' = IF moved THEN Target ELSE Here
          /\ fired' = IF moved THEN Append(FiredBefore, Fires) ELSE FiredBefore
          /\ app' \in IF moved THEN After(app, Candidate.action) ELSE {app}
    BY DEF SkipActFailed
  <1>3. app \in Apps /\ current_path' \in Seq(Actions)
    BY <1>1 DEF Types, TypeOK, BrowserType, CurrentType
  <1>4. page' \in Pages \cup {NoPage} /\ fired' \in Seq(Firing) /\ app' \in Apps
    <2>1. CASE moved
      <3>1. Target # NoPage
        BY <1>2, <2>1 DEF Raises
      <3>2. /\ page' = Target /\ fired' = Append(FiredBefore, Fires)
            /\ app' \in After(app, Candidate.action)
        BY <1>2, <2>1
      <3> QED  BY <1>1, <3>1, <3>2, AfterType, TargetType, FiresType
    <2>2. CASE ~moved
      <3>1. page' = Here /\ fired' = FiredBefore /\ app' = app
        BY <1>2, <2>2
      <3> QED  BY <1>1, <1>3, <3>1, HereType
    <2> QED  BY <2>1, <2>2
  <1> QED  BY <1>1, <1>3, <1>4, HereType, ClaimType, SkipTypes, ActTypes

\* observe after a skip, with the routing after it.
LEMMA ObserveSkipTypes ==
    ASSUME Types, ObserveSkip
    PROVE  Types'
  <1> USE DEF Types, TypeOK
  <1>1. /\ Superstep("observe") /\ pc = "observe" /\ pc' = NextAct
        /\ next_bundle' = NoPage
        /\ UNCHANGED <<browser, store, current, pending, acted, queues, counts,
                       audited, termination_reason>>
    BY DEF ObserveSkip, Superstep
  <1>2. BrowserType' /\ StoreType'
    BY <1>1 DEF BrowserType, StoreType, browser, store
  <1>3. CurrentType' /\ FlightType'
    BY <1>1 DEF CurrentType, FlightType, current
  <1>4. QueueType' /\ CountType'
    BY <1>1, SuperstepType DEF QueueType, CountType, queues, counts
  <1>5. PlaceType'
    BY <1>1, NextActType DEF PlaceType, Nodes
  <1>6. seen' = seen /\ frontier' = frontier /\ page' = page
        /\ Len(seen) < MaxStates
    BY <1>1 DEF queues, browser, Control
  <1>7. StateCap'
    BY <1>6 DEF StateCap
  <1>8. Control'
    <2>1. CASE NextAct = "act"
      BY <1>1, <1>6, <2>1, NextActType DEF Control
    <2>2. CASE NextAct = "end"
      BY <1>1, <1>6, <2>2 DEF Control
    <2> QED  BY <2>1, <2>2, NextActType
  <1> QED  BY <1>2, <1>3, <1>4, <1>5, <1>7, <1>8

\* observe after an action: the edge, and on to its target.
LEMMA ObserveEdgeTypes ==
    ASSUME Types, ObserveEdge
    PROVE  Types'
  <1> USE DEF Types, TypeOK
  <1>1. /\ Superstep("observe") /\ pc = "observe" /\ pc' = "scan" /\ acted
        /\ next_bundle' = NoPage /\ current_bundle' = next_bundle
        /\ depth' = pending.depth
        /\ current_path' = Append(pending.path, pending.action)
        /\ UNCHANGED <<browser, nodes, visited, persisted, current_state_id,
                       first_visit, pending, acted, queues, visited_pairs, replays,
                       replay_steps, audited, termination_reason>>
    BY DEF ObserveEdge, Superstep
  <1>2. /\ pending \in Pending /\ next_bundle \in Pages
        /\ Len(seen) < MaxStates
    BY <1>1 DEF Control
  <1>3. /\ pending.from \in Pages /\ pending.action \in Actions
        /\ pending.depth \in Nat /\ pending.path \in Seq(Actions)
    BY <1>2 DEF Pending
  <1>4. BrowserType'
    BY <1>1 DEF BrowserType, browser
  <1>5. StoreType'
    <2> DEFINE e == [from |-> pending.from, to |-> next_bundle,
                     action |-> pending.action, back |-> Scanned(next_bundle)]
    <2>1. e \in Edge
      <3>1. Scanned(next_bundle) \in BOOLEAN
        BY DEF Scanned
      <3> QED  BY <1>2, <1>3, <3>1, Zenon DEF Edge
    <2>2. edges \in Seq(Edge)
      BY DEF StoreType
    <2>3. edges' = Append(edges, e)
      BY DEF ObserveEdge
    <2> HIDE DEF e
    <2>4. Append(edges, e) \in Seq(Edge)
      BY <2>1, <2>2
    <2> QED  BY <1>1, <2>3, <2>4 DEF StoreType
  <1>6. CurrentType'
    <2>1. Append(pending.path, pending.action) \in Seq(Actions)
      BY <1>3
    <2>2. first_visit' \in BOOLEAN
      BY <1>1 DEF CurrentType
    <2>3. current_state_id' \in Pages \cup {NoPage}
      BY <1>1 DEF CurrentType
    <2> QED  BY <1>1, <1>2, <1>3, <2>1, <2>2, <2>3, Zenon DEF CurrentType
  <1>7. FlightType'
    BY <1>1 DEF FlightType
  <1>8. QueueType'
    BY <1>1 DEF QueueType, queues
  <1>9. CountType'
    <2>1. edge_count \in Nat /\ edge_count' = edge_count + 1
      BY DEF CountType, ObserveEdge
    <2>2. edge_count' \in Nat
      BY <2>1
    <2> QED  BY <1>1, <2>2, SuperstepType DEF CountType
  <1>10. PlaceType'
    BY <1>1 DEF PlaceType, Nodes
  <1>11. Control' /\ StateCap'
    BY <1>1, <1>2 DEF Control, StateCap, queues, browser
  <1> QED  BY <1>4, <1>5, <1>6, <1>7, <1>8, <1>9, <1>10, <1>11

\* explore after invoke.
LEMMA FinishTypes ==
    ASSUME Types, Finish
    PROVE  Types'
  <1> USE DEF Types, TypeOK
  <1>1. /\ pc' = "done" /\ closed' = TRUE
        /\ UNCHANGED <<app, page, fired, store, current, flight, queues, counts,
                       audited, supersteps>>
    BY DEF Finish
  <1>2. BrowserType' /\ StoreType'
    BY <1>1 DEF BrowserType, StoreType, store
  <1>3. CurrentType' /\ FlightType'
    BY <1>1 DEF CurrentType, FlightType, current, flight
  <1>4. QueueType' /\ CountType'
    BY <1>1 DEF QueueType, CountType, queues, counts
  <1>5. PlaceType'
    BY DEF Finish, PlaceType, TerminalReason
  <1>6. Control' /\ StateCap'
    BY <1>1 DEF Control, StateCap, queues
  <1> QED  BY <1>2, <1>3, <1>4, <1>5, <1>6

\* A raise in act leaves the browser on the candidate's state.
LEMMA ActRaisesPlace ==
    ASSUME Types, ActRaises
    PROVE  page' \in Pages \cup {NoPage} /\ fired' \in Seq(Firing) /\ UNCHANGED <<store, audited>>
  <1>1. UNCHANGED <<store, audited>>
    BY DEF ActRaises
  <1>2. page' = Here /\ fired' = FiredBefore
    BY DEF ActRaises
  <1>3. /\ pc = "act"
        /\ InPlace \/ \A i \in 0..Len(Candidate.path) : Replay[i] # NoPage
    BY DEF ActRaises, Superstep
  <1>4. Here \in Pages \cup {NoPage} /\ FiredBefore \in Seq(Firing)
    BY <1>3, BackType
  <1> QED  BY <1>1, <1>2, <1>4

\* Every exception that leaves the loop.
LEMMA FailureTypes ==
    ASSUME Types, Failure
    PROVE  Types'
  <1> USE DEF Types, TypeOK
  <1>1. Raise
    BY DEF Failure, OutOfSteps, ScanRaises, ReasonRaises, ActRaises, ObserveRaises
  <1>2. /\ pc' = "raised"
        /\ UNCHANGED <<app, closed, current, flight, queues, counts, termination_reason>>
    BY <1>1 DEF Raise
  <1>3. CurrentType' /\ FlightType' /\ PlaceType' /\ Control' /\ StateCap'
    BY <1>2 DEF CurrentType, FlightType, PlaceType, Control, StateCap,
                current, flight, queues
  <1>4. supersteps' \in 0..RecursionLimit
    BY SuperstepType DEF Failure, OutOfSteps, ScanRaises, ReasonRaises, ActRaises,
                         ObserveRaises, CountType
  <1>5. CountType'
    BY <1>2, <1>4 DEF CountType, counts
  <1>6. CASE OutOfSteps \/ ObserveRaises
    <2>1. UNCHANGED <<page, fired, store, audited>>
      BY <1>6 DEF OutOfSteps, ObserveRaises
    <2> QED  BY <1>2, <1>3, <1>5, <2>1 DEF BrowserType, StoreType, QueueType, store, queues
  <1>7. CASE ScanRaises
    <2>1. /\ current_bundle \in Pages
          /\ nodes' \in {nodes, PersistState(nodes, current_bundle, depth)}
          /\ UNCHANGED <<page, fired, visited, edges, persisted, audited>>
      BY <1>7 DEF ScanRaises, Control, Superstep
    <2>2. nodes' \in [DOMAIN nodes' -> Nat] /\ DOMAIN nodes' \subseteq Pages
      <3>1. nodes \in [DOMAIN nodes -> Nat] /\ DOMAIN nodes \subseteq Pages /\ depth \in Nat
        BY DEF StoreType, CurrentType
      <3>2. CASE nodes' = nodes
        BY <3>1, <3>2
      <3>3. CASE nodes' = PersistState(nodes, current_bundle, depth)
        <4> DEFINE t == PersistState(nodes, current_bundle, depth)
        <4>1. DOMAIN t = DOMAIN nodes \cup {current_bundle} /\ t \in [DOMAIN t -> Nat]
          BY <3>1, PersistStateType
        <4>2. DOMAIN t \subseteq Pages
          BY <2>1, <3>1, <4>1
        <4> HIDE DEF t
        <4>3. nodes' = t
          BY <3>3 DEF t
        <4> QED  BY <4>1, <4>2, <4>3
      <3> QED  BY <2>1, <3>2, <3>3
    <2>3. StoreType'
      BY <2>1, <2>2 DEF StoreType
    <2> QED  BY <1>2, <1>3, <1>5, <2>1, <2>3 DEF BrowserType, QueueType, queues
  <1>8. CASE ReasonRaises
    <2>1. /\ UNCHANGED <<page, fired, store>> /\ current_bundle \in Pages
          /\ \/ audited' = audited
             \/ audited' = Append(audited, current_bundle)
      BY <1>8 DEF ReasonRaises, Control, Superstep
    <2>2. audited \in Seq(Pages) /\ Append(audited, current_bundle) \in Seq(Pages)
      BY <2>1 DEF QueueType
    <2>3. audited' \in Seq(Pages)
      BY <2>1, <2>2
    <2> QED  BY <1>2, <1>3, <1>5, <2>1, <2>3
             DEF BrowserType, StoreType, QueueType, store, queues
  <1>9. CASE ActRaises
    <2>1. BrowserType' /\ UNCHANGED <<store, audited>>
      BY <1>2, <1>9, ActRaisesPlace DEF BrowserType
    <2> QED  BY <1>2, <1>3, <1>5, <2>1 DEF StoreType, QueueType, store, queues
  <1> QED  BY <1>6, <1>7, <1>8, <1>9 DEF Failure

\* Every step of the loop.
LEMMA StepTypes ==
    ASSUME Types, [Next]_vars
    PROVE  Types'
  <1>1. CASE OpenSeed \/ OpenSeedFails
    BY <1>1, OpenSeedTypes
  <1>2. CASE ScanFirst \/ ScanAgain
    BY <1>2, ScanTypes
  <1>3. CASE ReasonAudit \/ ReasonAgain
    BY <1>3, ReasonTypes
  <1>4. CASE Act
    BY <1>4, SkipUnreplayableTypes, SkipReplayFailedTypes, SkipReplayDivergedTypes,
       SkipActFailedTypes, ExecuteTypes DEF Act
  <1>5. CASE ObserveEdge
    BY <1>5, ObserveEdgeTypes
  <1>6. CASE ObserveSkip
    BY <1>6, ObserveSkipTypes
  <1>7. CASE Finish
    BY <1>7, FinishTypes
  <1>8. CASE Failure
    BY <1>8, FailureTypes
  <1>9. CASE UNCHANGED vars
    BY <1>9 DEF vars, browser, store, current, flight, queues, counts, Types, TypeOK,
       BrowserType, StoreType, CurrentType, FlightType, QueueType, CountType, PlaceType,
       Control, StateCap
  <1> QED  BY <1>1, <1>2, <1>3, <1>4, <1>5, <1>6, <1>7, <1>8, <1>9 DEF Next, Stopped

\* The inductive invariant: types, what each node may assume, and the cap.
THEOREM Typed == Spec => []Types
  <1>1. Init => Types
    BY InitTypes
  <1>2. Types /\ [Next]_vars => Types'
    BY StepTypes
  <1> QED  BY <1>1, <1>2, PTL DEF Spec

\* The type invariant holds for every application, fault and configuration.
THEOREM TypeCorrect == Spec => []TypeOK
  <1>1. Types => TypeOK
    BY DEF Types
  <1> QED  BY <1>1, Typed, PTL

\* FR-10 for every configuration: no run records more than max_states states.
THEOREM StatesCapped == Spec => []StateCap
  <1>1. Types => StateCap
    BY DEF Types
  <1> QED  BY <1>1, Typed, PTL

(***************************************************************************)
(* The books: the frontier and the claims, the audits, the edges, the walk.*)
(***************************************************************************)

-----------------------------------------------------------------------------
(* The frontier and the claims.                                            *)

\* What a step does to the frontier and to the claimed pairs: nothing, a first
\* scan, or a candidate taken off the frontier and perhaps claimed.
LEMMA FrontierStep ==
    ASSUME Types, [Next]_vars
    PROVE  \/ UNCHANGED <<frontier, visited, visited_pairs>>
           \/ /\ frontier' \in Seq(Pending)
              /\ Grown(frontier, visited, current_bundle, Enumerate(app, current_bundle),
                       depth + 1, current_path, Len(Enumerate(app, current_bundle)),
                       frontier')
              /\ UNCHANGED <<visited, visited_pairs>>
           \/ /\ ActStep
              /\ UNCHANGED <<visited, visited_pairs>> \/ Claim
  <1>1. CASE OpenSeed \/ OpenSeedFails
    BY <1>1 DEF OpenSeed, OpenSeedFails, store, queues, counts
  <1>2. CASE ScanFirst
    <2>1. UNCHANGED <<visited, visited_pairs>>
      BY <1>2 DEF ScanFirst, ScanVisit, counts
    <2> QED  BY <1>2, <2>1, ScanFrontier
  <1>3. CASE ScanAgain
    BY <1>3 DEF ScanAgain, ScanVisit, counts
  <1>4. CASE ReasonAudit \/ ReasonAgain
    BY <1>4 DEF ReasonAudit, ReasonAgain, ReasonVisit, counts
  <1>5. CASE Act
    <2>1. ActStep
      BY <1>5 DEF Act, SkipUnreplayable, SkipReplayFailed, SkipReplayDiverged,
                  SkipActFailed, Execute
    <2>2. UNCHANGED <<visited, visited_pairs>> \/ Claim
      BY <1>5 DEF Act, SkipUnreplayable, SkipReplayFailed, SkipReplayDiverged,
                  SkipActFailed, Execute
    <2> QED  BY <2>1, <2>2
  <1>6. CASE ObserveSkip \/ ObserveEdge
    BY <1>6 DEF ObserveSkip, ObserveEdge, store, queues, counts
  <1>7. CASE Finish
    BY <1>7 DEF Finish, store, queues, counts
  <1>8. CASE Failure
    BY <1>8 DEF Failure, OutOfSteps, ScanRaises, ReasonRaises, ActRaises, ObserveRaises,
                Raise, store, queues, counts
  <1>9. CASE UNCHANGED vars
    BY <1>9 DEF vars, store, queues, counts
  <1> QED  BY <1>1, <1>2, <1>3, <1>4, <1>5, <1>6, <1>7, <1>8, <1>9 DEF Next, Stopped

\* PairsOnce of a frontier and a set of claimed pairs.
Disjoint(queue, claimed) ==
    /\ \A i, j \in DOMAIN queue : PairOf(queue[i]) = PairOf(queue[j]) => i = j
    /\ PairsOf(queue) \cap claimed = {}

\* What scan enqueues waits nowhere else and is not claimed.
LEMMA EnqueueKeepsDisjoint ==
    ASSUME NEW q \in Seq(Pending), NEW c, NEW r, NEW s, NEW as, NEW d, NEW p, NEW n,
           Disjoint(q, c), Grown(q, c, s, as, d, p, n, r)
    PROVE  Disjoint(r, c)
  <1>1. /\ r \in Seq(Pending) /\ Len(q) <= Len(r)
        /\ \A k \in 1..Len(q) : r[k] = q[k]
        /\ \A k \in (Len(q) + 1)..Len(r) : PairOf(r[k]) \notin PairsOf(q) \cup c
        /\ \A k, m \in (Len(q) + 1)..Len(r) : PairOf(r[k]) = PairOf(r[m]) => k = m
    BY DEF Grown
  <1>2. /\ DOMAIN q = 1..Len(q) /\ DOMAIN r = 1..Len(r)
        /\ Len(q) \in Nat /\ Len(r) \in Nat
    BY <1>1
  <1>3. \A k \in 1..Len(r) : k \in 1..Len(q) \/ k \in (Len(q) + 1)..Len(r)
    BY <1>2
  <1>4. \A k \in 1..Len(q) : PairOf(r[k]) \in PairsOf(q) /\ PairOf(r[k]) = PairOf(q[k])
    BY <1>1, <1>2 DEF PairsOf
  <1>5. \A k \in 1..Len(q) : PairOf(q[k]) \notin c
    BY <1>2 DEF Disjoint, PairsOf
  <1>6. \A i, j \in 1..Len(q) : PairOf(q[i]) = PairOf(q[j]) => i = j
    BY <1>2 DEF Disjoint
  <1>7. \A i, j \in 1..Len(r) : PairOf(r[i]) = PairOf(r[j]) => i = j
    BY <1>1, <1>3, <1>4, <1>6
  <1>8. \A k \in 1..Len(r) : PairOf(r[k]) \notin c
    BY <1>1, <1>3, <1>4, <1>5
  <1> QED  BY <1>2, <1>7, <1>8 DEF Disjoint, PairsOf

\* The candidate leaves the frontier, and only it may be claimed.
LEMMA TailKeepsDisjoint ==
    ASSUME NEW q \in Seq(Pending), q # <<>>, NEW c, NEW e,
           e \subseteq c \cup {PairOf(Head(q))}, Disjoint(q, c)
    PROVE  Disjoint(Tail(q), e) /\ PairOf(Head(q)) \notin c
  <1> DEFINE r == Tail(q)
  <1>1. /\ DOMAIN q = 1..Len(q) /\ DOMAIN r = 1..Len(r) /\ Head(q) = q[1]
        /\ Len(q) \in Nat /\ Len(r) \in Nat /\ Len(r) = Len(q) - 1 /\ 1 \in 1..Len(q)
        /\ \A k \in 1..Len(r) : r[k] = q[k + 1]
    OBVIOUS
  <1> HIDE DEF r
  <1>2. \A k \in 1..Len(r) : k + 1 \in 1..Len(q) /\ k + 1 # 1
    BY <1>1
  <1>3. \A i, j \in 1..Len(q) : PairOf(q[i]) = PairOf(q[j]) => i = j
    BY <1>1 DEF Disjoint
  <1>4. \A i \in 1..Len(q) : PairOf(q[i]) \notin c
    BY <1>1 DEF Disjoint, PairsOf
  <1>5. \A k \in 1..Len(r) : PairOf(r[k]) \notin c /\ PairOf(r[k]) # PairOf(q[1])
    BY <1>1, <1>2, <1>3, <1>4
  <1>6. \A i, j \in 1..Len(r) : PairOf(r[i]) = PairOf(r[j]) => i = j
    <2> SUFFICES ASSUME NEW i \in 1..Len(r), NEW j \in 1..Len(r), PairOf(r[i]) = PairOf(r[j])
                 PROVE  i = j
      OBVIOUS
    <2>1. i + 1 = j + 1
      BY <1>1, <1>2, <1>3
    <2> QED  BY <2>1
  <1>7. Disjoint(r, e)
    BY <1>1, <1>5, <1>6 DEF Disjoint, PairsOf
  <1> QED  BY <1>1, <1>4, <1>7 DEF r

\* Every step keeps PairsOnce, and act takes an unclaimed candidate.
LEMMA PairsOnceStep ==
    ASSUME Types, PairsOnce, [Next]_vars
    PROVE  PairsOnce' /\ (ActStep => PairOf(Candidate) \notin visited)
  <1>1. Disjoint(frontier, visited) /\ frontier \in Seq(Pending)
    BY DEF PairsOnce, Disjoint, Types, TypeOK, QueueType
  <1>2. CASE ActStep
    <2>1. pc = "act" /\ frontier' = Tail(frontier)
      BY <1>2 DEF ActStep, Superstep
    <2>2. frontier # <<>> /\ Candidate = Head(frontier)
      BY <2>1, CandidateNow DEF Candidate
    <2>3. visited' \subseteq visited \cup {PairOf(Head(frontier))}
      <3>1. visited' = visited \/ visited' = visited \cup {PairOf(Candidate)}
        BY <1>2, FrontierStep DEF Claim
      <3> QED  BY <2>2, <3>1
    <2>4. Disjoint(Tail(frontier), visited') /\ PairOf(Head(frontier)) \notin visited
      BY <1>1, <2>2, <2>3, TailKeepsDisjoint
    <2>5. Disjoint(frontier', visited')
      BY <2>1, <2>4
    <2> QED  BY <2>2, <2>4, <2>5 DEF PairsOnce, Disjoint
  <1>3. CASE UNCHANGED <<frontier, visited, visited_pairs>>
    <2>1. Disjoint(frontier', visited')
      BY <1>1, <1>3
    <2> QED  BY <1>2, <2>1 DEF PairsOnce, Disjoint
  <1>4. CASE ~ActStep /\ UNCHANGED <<visited, visited_pairs>>
             /\ Grown(frontier, visited, current_bundle, Enumerate(app, current_bundle),
                      depth + 1, current_path, Len(Enumerate(app, current_bundle)),
                      frontier')
    <2>1. Disjoint(frontier', visited)
      BY <1>1, <1>4, EnqueueKeepsDisjoint
    <2>2. Disjoint(frontier', visited')
      BY <1>4, <2>1
    <2> QED  BY <1>4, <2>2 DEF PairsOnce, Disjoint
  <1> QED  BY <1>2, <1>3, <1>4, FrontierStep

\* NFR-05 for every application, fault and configuration: no pair waits twice
\* and none that is claimed waits at all.
THEOREM PairsWaitOnce == Spec => []PairsOnce
  <1>1. Init => PairsOnce
    BY DEF Init, PairsOnce, PairsOf
  <1>2. Types /\ PairsOnce /\ [Next]_vars => PairsOnce'
    BY PairsOnceStep
  <1> QED  BY <1>1, <1>2, Typed, PTL DEF Spec

-----------------------------------------------------------------------------
(* The count of claimed pairs.                                             *)

\* This run's claims are a finite set, added to what the store had.
Claims ==
    /\ OldVisited \subseteq visited
    /\ IsFiniteSet(visited \ OldVisited)
    /\ ClaimedOnce

\* A step claims one new pair and counts it, or claims none.
LEMMA ClaimsStep ==
    ASSUME Types, PairsOnce, Claims, [Next]_vars
    PROVE  Claims'
  <1>1. CASE UNCHANGED <<visited, visited_pairs>>
    BY <1>1 DEF Claims, ClaimedOnce
  <1>2. CASE ActStep /\ Claim
    <2> DEFINE p == PairOf(Candidate)
               S == visited \ OldVisited
    <2>1. p \notin visited /\ visited' = visited \cup {p}
          /\ visited_pairs' = visited_pairs + 1
      BY <1>2, PairsOnceStep DEF Claim
    <2>2. visited' \ OldVisited = S \cup {p} /\ p \notin S
      BY <2>1 DEF Claims
    <2>3. IsFiniteSet(S) /\ visited_pairs = Cardinality(S)
      BY DEF Claims, ClaimedOnce
    <2> HIDE DEF p, S
    <2>4. IsFiniteSet(S \cup {p}) /\ Cardinality(S \cup {p}) = Cardinality(S) + 1
      BY <2>2, <2>3, FS_AddElement
    <2> QED  BY <2>1, <2>2, <2>3, <2>4 DEF Claims, ClaimedOnce
  <1> QED  BY <1>1, <1>2, FrontierStep

\* The count of claimed pairs counts each of them once.
THEOREM ClaimsCounted == Spec => []ClaimedOnce
  <1>1. Init => Claims
    <2> SUFFICES ASSUME Init PROVE Claims
      OBVIOUS
    <2>1. visited = OldVisited /\ visited_pairs = 0 /\ visited \ OldVisited = {}
      BY DEF Init
    <2> QED  BY <2>1, FS_EmptySet DEF Claims, ClaimedOnce
  <1>2. Types /\ PairsOnce /\ Claims /\ [Next]_vars => Claims'
    BY ClaimsStep
  <1>3. Claims => ClaimedOnce
    BY DEF Claims
  <1> QED  BY <1>1, <1>2, <1>3, Typed, PairsWaitOnce, PTL DEF Spec

-----------------------------------------------------------------------------
(* Audits.                                                                 *)

\* reason has not yet audited the last state that scan recorded.
Owing == first_visit /\ seen = Append(audited, current_bundle)

\* AuditOncePerState, with the place in the loop where an audit is owed.
Audits ==
    /\ \A i, j \in DOMAIN seen : seen[i] = seen[j] => i = j
    /\ pc = "reason" /\ first_visit => Owing
    /\ pc = "reason" /\ ~first_visit => audited = seen
    /\ pc = "raised" => audited = seen \/ Owing
    /\ pc \notin {"reason", "raised"} => audited = seen

\* A first scan adds a state that was not known.
LEMMA SeenGrows ==
    ASSUME NEW T, NEW s \in Seq(T), NEW e \in T, \A i \in DOMAIN s : s[i] # e,
           \A i, j \in DOMAIN s : s[i] = s[j] => i = j
    PROVE  \A i, j \in DOMAIN Append(s, e) : Append(s, e)[i] = Append(s, e)[j] => i = j
  OBVIOUS

\* Every step keeps the audits.
LEMMA AuditsStep ==
    ASSUME Types, Audits, [Next]_vars
    PROVE  Audits'
  <1>0. seen \in Seq(Pages) /\ audited \in Seq(Pages)
    BY DEF Types, TypeOK, QueueType
  <1>1. CASE ScanFirst
    <2>1. /\ pc = "scan" /\ pc' = "reason" /\ current_bundle' = current_bundle
          /\ audited' = audited /\ seen' = Append(seen, current_bundle)
          /\ current_bundle \in Pages /\ \A i \in DOMAIN seen : seen[i] # current_bundle
      BY <1>1, ScanFrontier DEF ScanFirst, ScanVisit, Superstep, Scanned
    <2>2. first_visit'
      BY <1>1 DEF ScanFirst
    <2>3. audited = seen /\ \A i, j \in DOMAIN seen : seen[i] = seen[j] => i = j
      BY <2>1 DEF Audits
    <2>4. \A i, j \in DOMAIN seen' : seen'[i] = seen'[j] => i = j
      BY <1>0, <2>1, <2>3, SeenGrows
    <2>5. Owing'
      BY <2>1, <2>2, <2>3, Zenon DEF Owing
    <2> QED  BY <2>1, <2>2, <2>4, <2>5 DEF Audits
  <1>2. CASE ScanAgain
    <2>1. /\ pc = "scan" /\ pc' = "reason" /\ audited' = audited /\ seen' = seen
      BY <1>2 DEF ScanAgain, ScanVisit, Superstep
    <2>2. ~first_visit'
      BY <1>2 DEF ScanAgain
    <2> QED  BY <2>1, <2>2 DEF Audits
  <1>3. CASE ReasonAudit
    <2>1. /\ pc = "reason" /\ pc' \in {"act", "end"} /\ seen' = seen
          /\ audited' = Append(audited, current_bundle)
      BY <1>3, NextActType DEF ReasonAudit, ReasonVisit, Superstep
    <2>2. seen = Append(audited, current_bundle)
      BY <1>3, <2>1 DEF ReasonAudit, Audits, Owing
    <2> QED  BY <2>1, <2>2 DEF Audits
  <1>4. CASE ReasonAgain
    <2>1. /\ pc = "reason" /\ pc' \in {"act", "end"} /\ seen' = seen
          /\ audited' = audited
      BY <1>4, NextActType DEF ReasonAgain, ReasonVisit, Superstep
    <2> QED  BY <1>4, <2>1 DEF Audits, ReasonAgain
  <1>5. CASE OpenSeed \/ OpenSeedFails \/ Act \/ ObserveSkip \/ ObserveEdge \/ Finish
    <2>1. /\ pc \notin {"reason", "raised"} /\ pc' \notin {"reason", "raised"}
          /\ seen' = seen /\ audited' = audited
      BY <1>5, NextActType DEF OpenSeed, OpenSeedFails, Act, SkipUnreplayable, SkipReplayFailed,
         SkipReplayDiverged, SkipActFailed, Execute, ActStep, ObserveSkip, ObserveEdge,
         Finish, Superstep, queues
    <2> QED  BY <2>1 DEF Audits
  <1>6. CASE OutOfSteps \/ ScanRaises \/ ActRaises \/ ObserveRaises
    <2>1. /\ pc' = "raised" /\ pc # "raised" /\ seen' = seen /\ audited' = audited
          /\ current_bundle' = current_bundle
      BY <1>6 DEF OutOfSteps, ScanRaises, ActRaises, ObserveRaises, Raise, Superstep,
                  Nodes, queues, current
    <2>2. first_visit' = first_visit
      BY <1>6 DEF OutOfSteps, ScanRaises, ActRaises, ObserveRaises, Raise, current
    <2>3. audited = seen \/ Owing
      BY <2>1 DEF Audits
    <2>4. audited' = seen' \/ Owing'
      BY <2>1, <2>2, <2>3, Zenon DEF Owing
    <2> QED  BY <2>1, <2>4 DEF Audits
  <1>7. CASE ReasonRaises
    <2>1. /\ pc' = "raised" /\ pc = "reason" /\ seen' = seen
          /\ current_bundle' = current_bundle
          /\ audited' \in {audited, Append(audited, current_bundle)}
      BY <1>7 DEF ReasonRaises, Raise, Superstep, queues, current
    <2>2. first_visit /\ first_visit' = first_visit
      BY <1>7 DEF ReasonRaises, Raise, current
    <2>3. Owing
      BY <2>1, <2>2 DEF Audits
    <2>4. CASE audited' = audited
      <3>1. Owing'
        BY <2>1, <2>2, <2>3, <2>4, Zenon DEF Owing
      <3> QED  BY <2>1, <3>1 DEF Audits
    <2>5. CASE audited' = Append(audited, current_bundle)
      <3>1. audited' = seen'
        BY <2>1, <2>3, <2>5 DEF Owing
      <3> QED  BY <2>1, <3>1 DEF Audits
    <2> QED  BY <2>1, <2>4, <2>5
  <1>8. CASE UNCHANGED vars
    BY <1>8 DEF vars, queues, current, Audits, Owing
  <1> QED  BY <1>1, <1>2, <1>3, <1>4, <1>5, <1>6, <1>7, <1>8 DEF Next, Stopped, Failure

\* Every state is audited once, in the order of discovery, whatever fails.
THEOREM AuditedOnce == Spec => []AuditOncePerState
  <1>1. Init => Audits
    BY DEF Init, Audits
  <1>2. Types /\ Audits /\ [Next]_vars => Audits'
    BY AuditsStep
  <1>3. Types /\ Audits => AuditOncePerState
    BY DEF Audits, AuditOncePerState, Owing
  <1> QED  BY <1>1, <1>2, <1>3, Typed, PTL DEF Spec

-----------------------------------------------------------------------------
(* The ends of the edges.                                                  *)

\* The edges of a list start and end in a set of states ...
Ends(list, states) ==
    \A i \in DOMAIN list : list[i].from \in states /\ list[i].to \in states

\* ... but for the end of the last one, which is about to be scanned.
EndsBut(list, states, last) ==
    \A i \in DOMAIN list :
      /\ list[i].from \in states
      /\ list[i].to \in states \/ (i = Len(list) /\ list[i].to = last)

\* EdgeEndpoints, and where the ends of an edge come from.
Endpoints ==
    /\ \A i \in DOMAIN seen : seen[i] \in DOMAIN nodes
    /\ \A i \in DOMAIN frontier : frontier[i].from \in DOMAIN nodes
    /\ pc = "observe" => pending.from \in DOMAIN nodes
    /\ pc \notin {"scan", "raised"} => Ends(edges, DOMAIN nodes)
    /\ EndsBut(edges, DOMAIN nodes, current_bundle)

\* The node table only grows.
LEMMA NodesGrow ==
    ASSUME Types, [Next]_vars
    PROVE  DOMAIN nodes \subseteq DOMAIN nodes'
  <1>1. nodes \in [DOMAIN nodes -> Nat] /\ depth \in Nat
    BY DEF Types, TypeOK, StoreType, CurrentType
  <1>2. DOMAIN PersistState(nodes, current_bundle, depth) = DOMAIN nodes \cup {current_bundle}
    BY <1>1, PersistStateType
  <1>3. CASE ScanFirst
    <2>1. nodes' = PersistState(nodes, current_bundle, depth)
      BY <1>3 DEF ScanFirst
    <2> QED  BY <1>2, <2>1
  <1>4. CASE ScanRaises
    <2>1. nodes' \in {nodes, PersistState(nodes, current_bundle, depth)}
      BY <1>4 DEF ScanRaises
    <2> QED  BY <1>2, <2>1
  <1>5. CASE nodes' = nodes
    BY <1>5
  <1>6. ScanFirst \/ ScanRaises \/ nodes' = nodes
    BY DEF Next, Stopped, vars, store, OpenSeed, OpenSeedFails, ScanAgain, ReasonAudit,
           ReasonAgain, ReasonVisit, Act, SkipUnreplayable, SkipReplayFailed,
           SkipReplayDiverged, SkipActFailed, Execute, ActStep, ObserveSkip, ObserveEdge,
           Finish, Failure, OutOfSteps, ReasonRaises, ActRaises, ObserveRaises
  <1> QED  BY <1>3, <1>4, <1>5, <1>6

\* Closed ends stay closed among more states, and once the last end is among
\* the states they are closed again.
LEMMA EndsGrow ==
    ASSUME NEW list, NEW S, NEW T, S \subseteq T, NEW last
    PROVE  /\ Ends(list, S) => Ends(list, T)
           /\ Ends(list, S) => EndsBut(list, T, last)
           /\ EndsBut(list, S, last) => EndsBut(list, T, last)
           /\ EndsBut(list, S, last) /\ last \in T => Ends(list, T)
  BY DEF Ends, EndsBut

\* An edge from a known state, to be scanned next.
LEMMA EndsAppend ==
    ASSUME NEW E, NEW list \in Seq(E), NEW S, NEW e \in E,
           Ends(list, S), e.from \in S
    PROVE  EndsBut(Append(list, e), S, e.to)
  <1> DEFINE r == Append(list, e)
  <1>1. /\ DOMAIN list = 1..Len(list) /\ Len(list) \in Nat
        /\ DOMAIN r = 1..(Len(list) + 1) /\ Len(r) = Len(list) + 1
        /\ r[Len(list) + 1] = e /\ \A i \in 1..Len(list) : r[i] = list[i]
    OBVIOUS
  <1> HIDE DEF r
  <1>2. \A i \in 1..(Len(list) + 1) : i \in 1..Len(list) \/ i = Len(list) + 1
    BY <1>1
  <1>3. EndsBut(r, S, e.to)
    BY <1>1, <1>2 DEF Ends, EndsBut
  <1> QED  BY <1>3 DEF r

\* Every step keeps the ends of the edges.
LEMMA EndpointsStep ==
    ASSUME Types, Endpoints, [Next]_vars
    PROVE  Endpoints'
  <1>0. /\ seen \in Seq(Pages) /\ frontier \in Seq(Pending) /\ edges \in Seq(Edge)
        /\ nodes \in [DOMAIN nodes -> Nat] /\ depth \in Nat
    BY DEF Types, TypeOK, QueueType, StoreType, CurrentType
  <1>g. DOMAIN nodes \subseteq DOMAIN nodes'
    BY NodesGrow
  <1>1. CASE ScanFirst
    <2>1. /\ pc = "scan" /\ pc' = "reason" /\ edges' = edges
          /\ current_bundle' = current_bundle
          /\ seen' = Append(seen, current_bundle)
          /\ nodes' = PersistState(nodes, current_bundle, depth)
      BY <1>1 DEF ScanFirst, ScanVisit, Superstep
    <2>2. current_bundle \in Pages
      BY <1>1, ScanFrontier
    <2>3. DOMAIN PersistState(nodes, current_bundle, depth) = DOMAIN nodes \cup {current_bundle}
      BY <1>0, PersistStateType
    <2>4. current_bundle \in DOMAIN nodes'
      BY <2>1, <2>3
    <2>5. \A i \in DOMAIN seen' : seen'[i] \in DOMAIN nodes'
      <3>1. \A i \in DOMAIN seen' :
              \/ seen'[i] = current_bundle
              \/ /\ i \in DOMAIN seen
                 /\ seen'[i] = seen[i]
        BY <1>0, <2>1, <2>2
      <3>2. \A i \in DOMAIN seen : seen[i] \in DOMAIN nodes
        BY DEF Endpoints
      <3> QED  BY <1>g, <2>4, <3>1, <3>2
    <2>6. \A i \in DOMAIN frontier' : frontier'[i].from \in DOMAIN nodes'
      <3>0. \A i \in DOMAIN frontier : frontier[i].from \in DOMAIN nodes
        BY DEF Endpoints
      <3>1. CASE frontier' = frontier
        BY <1>g, <3>0, <3>1
      <3>2. CASE frontier' # frontier
        <4>1. frontier' \in Seq(Pending)
          BY <1>1, ScanFrontier
        <4>2. /\ \A k \in 1..Len(frontier) : frontier'[k] = frontier[k]
              /\ \A k \in (Len(frontier) + 1)..Len(frontier') :
                   frontier'[k].from = current_bundle
          BY <1>1, <3>2, ScanFrontier DEF Grown
        <4>3. \A k \in 1..Len(frontier') :
                k \in 1..Len(frontier) \/ k \in (Len(frontier) + 1)..Len(frontier')
          BY <1>0, <4>1
        <4>4. DOMAIN frontier' = 1..Len(frontier') /\ DOMAIN frontier = 1..Len(frontier)
          BY <1>0, <4>1
        <4> QED  BY <1>g, <2>4, <3>0, <4>2, <4>3, <4>4
      <3> QED  BY <3>1, <3>2
    <2>7. Ends(edges, DOMAIN nodes') /\ EndsBut(edges, DOMAIN nodes', current_bundle)
      <3>1. EndsBut(edges, DOMAIN nodes, current_bundle)
        BY DEF Endpoints
      <3> QED  BY <1>g, <2>4, <3>1, EndsGrow
    <2> QED  BY <2>1, <2>5, <2>6, <2>7 DEF Endpoints
  <1>2. CASE ScanAgain
    <2>1. /\ pc = "scan" /\ pc' = "reason" /\ edges' = edges /\ nodes' = nodes
          /\ frontier' = frontier /\ seen' = seen /\ current_bundle' = current_bundle
          /\ \E i \in DOMAIN seen : seen[i] = current_bundle
      BY <1>2 DEF ScanAgain, ScanVisit, Superstep, Scanned
    <2>2. current_bundle \in DOMAIN nodes
      BY <2>1 DEF Endpoints
    <2>3. Ends(edges, DOMAIN nodes) /\ EndsBut(edges, DOMAIN nodes, current_bundle)
      BY <2>2, EndsGrow DEF Endpoints
    <2> QED  BY <2>1, <2>3 DEF Endpoints
  <1>3. CASE Act
    <2>1. ActStep
      BY <1>3 DEF Act, SkipUnreplayable, SkipReplayFailed, SkipReplayDiverged,
                  SkipActFailed, Execute
    <2>2. /\ pc = "act" /\ pc' = "observe" /\ edges' = edges /\ nodes' = nodes
          /\ seen' = seen /\ current_bundle' = current_bundle
          /\ frontier' = Tail(frontier) /\ pending' = Candidate
      BY <2>1 DEF ActStep, Superstep
    <2>3. frontier # <<>>
      BY <2>1, CandidateType
    <2>4. pending' = frontier[1]
      BY <1>0, <2>2, <2>3 DEF Candidate
    <2>5. /\ DOMAIN frontier = 1..Len(frontier) /\ DOMAIN frontier' = 1..(Len(frontier) - 1)
          /\ Len(frontier) \in Nat /\ Len(frontier) > 0
          /\ \A i \in 1..(Len(frontier) - 1) : frontier'[i] = frontier[i + 1]
      BY <1>0, <2>2, <2>3
    <2>6. \A i \in DOMAIN frontier : frontier[i].from \in DOMAIN nodes
      BY DEF Endpoints
    <2>7. frontier[1].from \in DOMAIN nodes
      BY <2>5, <2>6
    <2>8. \A i \in DOMAIN frontier' : frontier'[i].from \in DOMAIN nodes
      BY <2>5, <2>6
    <2> QED  BY <2>2, <2>4, <2>7, <2>8 DEF Endpoints
  <1>4. CASE ObserveEdge
    <2> DEFINE e == [from |-> pending.from, to |-> next_bundle,
                     action |-> pending.action, back |-> Scanned(next_bundle)]
    <2>1. /\ pc = "observe" /\ pc' = "scan" /\ nodes' = nodes /\ seen' = seen
          /\ frontier' = frontier /\ current_bundle' = next_bundle
      BY <1>4 DEF ObserveEdge, Superstep, queues
    <2>2. edges' = Append(edges, e)
      BY <1>4 DEF ObserveEdge
    <2>3. e.from = pending.from /\ e.to = next_bundle
      OBVIOUS
    <2>4. e \in Edge
      <3>1. acted
        BY <1>4 DEF ObserveEdge
      <3>2. pending \in Pending /\ next_bundle \in Pages
        BY <2>1, <3>1 DEF Types, Control
      <3>3. Scanned(next_bundle) \in BOOLEAN
        BY DEF Scanned
      <3>4. pending.from \in Pages /\ pending.action \in Actions
        BY <3>2 DEF Pending
      <3> QED  BY <3>2, <3>3, <3>4 DEF Edge
    <2> HIDE DEF e
    <2>5. Ends(edges, DOMAIN nodes) /\ pending.from \in DOMAIN nodes
      BY <2>1 DEF Endpoints
    <2>6. e.from \in DOMAIN nodes
      BY <2>3, <2>5
    <2>7. EndsBut(Append(edges, e), DOMAIN nodes, e.to)
      BY <1>0, <2>4, <2>5, <2>6, EndsAppend
    <2>8. EndsBut(edges', DOMAIN nodes', current_bundle')
      BY <2>1, <2>2, <2>3, <2>7
    <2> QED  BY <2>1, <2>8 DEF Endpoints
  <1>5. CASE OpenSeed \/ OpenSeedFails \/ ReasonAudit \/ ReasonAgain \/ ObserveSkip \/ Finish
    <2>1. /\ pc \notin {"scan", "raised"} /\ pc' # "observe" /\ edges' = edges
          /\ nodes' = nodes /\ seen' = seen /\ frontier' = frontier
      BY <1>5, NextActType DEF OpenSeed, OpenSeedFails, ReasonAudit, ReasonAgain, ReasonVisit,
         ObserveSkip, Finish, Superstep, queues, store
    <2>2. Ends(edges, DOMAIN nodes)
      BY <2>1 DEF Endpoints
    <2>3. EndsBut(edges, DOMAIN nodes, current_bundle')
      BY <2>2, EndsGrow
    <2> QED  BY <2>1, <2>2, <2>3 DEF Endpoints
  <1>6. CASE Failure
    <2>1. /\ pc' = "raised" /\ seen' = seen /\ frontier' = frontier
          /\ current_bundle' = current_bundle /\ edges' = edges
      BY <1>6 DEF Failure, OutOfSteps, ScanRaises, ReasonRaises, ActRaises, ObserveRaises,
                  Raise, queues, current, store
    <2>2. EndsBut(edges, DOMAIN nodes', current_bundle)
      BY <1>g, EndsGrow DEF Endpoints
    <2> QED  BY <1>g, <2>1, <2>2 DEF Endpoints
  <1>7. CASE UNCHANGED vars
    BY <1>7 DEF vars, queues, current, store, flight, Endpoints
  <1> QED  BY <1>1, <1>2, <1>3, <1>4, <1>5, <1>6, <1>7 DEF Next, Stopped

\* No edge dangles, but for the last one until its target is scanned.
THEOREM EdgesHaveEnds == Spec => []EdgeEndpoints
  <1>1. Init => Endpoints
    BY DEF Init, Endpoints, Ends, EndsBut
  <1>2. Types /\ Endpoints /\ [Next]_vars => Endpoints'
    BY EndpointsStep
  <1>3. Endpoints => EdgeEndpoints
    BY DEF Endpoints, Ends, EndsBut, EdgeEndpoints
  <1> QED  BY <1>1, <1>2, <1>3, Typed, PTL DEF Spec

-----------------------------------------------------------------------------
(* The order of the walk: scans and edges alternate, and an edge says of    *)
(* its target whether it had been scanned before.                          *)

\* The last state of the walk that a list of edges describes.
Arrival(list) == IF list = <<>> THEN Seed ELSE list[Len(list)].to

\* OrderFollowsEdges of any walk and edges, but for how long they are.
Follows(walk, list) ==
    /\ walk # <<>> => walk[1] = Seed
    /\ \A i \in DOMAIN list :
         /\ i + 1 \in DOMAIN walk => walk[i + 1] = list[i].to
         /\ list[i].back <=> \E j \in 1..i : walk[j] = list[i].to

Among(walk, s) == \E j \in DOMAIN walk : walk[j] = s

\* Where the loop is in the walk: a scan comes after an edge and before one.
Position ==
    /\ pc = "start" => order = <<>> /\ edges = <<>>
    /\ pc = "scan" => Len(order) = Len(edges) /\ current_bundle = Arrival(edges)
    /\ pc \in {"reason", "act", "observe", "end"} => Len(order) = Len(edges) + 1
    /\ Len(order) \in {Len(edges), Len(edges) + 1}

\* OrderFollowsEdges, with what the next scan and the next edge need: the walk
\* arrives at the bundle in hand and goes through the scanned states only.
Walks ==
    /\ Position
    /\ Follows(order, edges)
    /\ \A s \in Pages : Scanned(s) <=> Among(order, s)

\* A scan of the last target continues the walk.
LEMMA FollowsScan ==
    ASSUME NEW walk \in Seq(Pages), NEW list \in Seq(Edge), NEW s \in Pages,
           Follows(walk, list), Len(walk) = Len(list), s = Arrival(list)
    PROVE  Follows(Append(walk, s), list)
  <1> DEFINE w == Append(walk, s)
             n == Len(walk)
  <1>1. /\ n \in Nat /\ DOMAIN list = 1..n /\ DOMAIN walk = 1..n
        /\ DOMAIN w = 1..(n + 1) /\ w[n + 1] = s /\ \A i \in 1..n : w[i] = walk[i]
    OBVIOUS
  <1>2. list = <<>> <=> n = 0
    OBVIOUS
  <1>3. walk = <<>> <=> n = 0
    OBVIOUS
  <1>4. n = Len(list)
    OBVIOUS
  <1> HIDE DEF w, n
  <1>5. w[1] = Seed
    <2>1. CASE n = 0
      BY <1>1, <1>2, <2>1 DEF Arrival
    <2>2. CASE n # 0
      BY <1>1, <1>3, <2>2 DEF Follows
    <2> QED  BY <2>1, <2>2
  <1>6. ASSUME NEW i \in 1..n
        PROVE  w[i + 1] = list[i].to
    <2>1. CASE i = n
      BY <1>1, <1>2, <1>4, <2>1 DEF Arrival
    <2>2. CASE i # n
      <3>1. i + 1 \in 1..n
        BY <1>1, <2>2
      <3> QED  BY <1>1, <3>1 DEF Follows
    <2> QED  BY <2>1, <2>2
  <1>7. ASSUME NEW i \in 1..n
        PROVE  list[i].back <=> \E j \in 1..i : w[j] = list[i].to
    <2>1. list[i].back <=> \E j \in 1..i : walk[j] = list[i].to
      BY <1>1 DEF Follows
    <2>2. \A j \in 1..i : w[j] = walk[j]
      BY <1>1
    <2> QED  BY <2>1, <2>2
  <1>8. Follows(w, list)
    BY <1>1, <1>5, <1>6, <1>7 DEF Follows
  <1> QED  BY <1>8 DEF w

\* An edge leaves the end of the walk, and marks what it knows.
LEMMA FollowsEdge ==
    ASSUME NEW walk \in Seq(Pages), NEW list \in Seq(Edge), NEW e \in Edge,
           Follows(walk, list), Len(walk) = Len(list) + 1,
           e.back <=> Among(walk, e.to)
    PROVE  Follows(walk, Append(list, e)) /\ Arrival(Append(list, e)) = e.to
  <1> DEFINE l == Append(list, e)
             n == Len(list)
  <1>1. /\ n \in Nat /\ DOMAIN list = 1..n /\ DOMAIN walk = 1..(n + 1)
        /\ DOMAIN l = 1..(n + 1) /\ Len(l) = n + 1 /\ l # <<>>
        /\ l[n + 1] = e /\ \A i \in 1..n : l[i] = list[i]
    OBVIOUS
  <1> HIDE DEF l, n
  <1>2. walk # <<>> => walk[1] = Seed
    BY DEF Follows
  <1>3. ASSUME NEW i \in 1..n
        PROVE  /\ i + 1 \in DOMAIN walk => walk[i + 1] = l[i].to
               /\ l[i].back <=> \E j \in 1..i : walk[j] = l[i].to
    <2>1. l[i] = list[i] /\ i \in DOMAIN list
      BY <1>1
    <2> QED  BY <2>1 DEF Follows
  <1>4. ASSUME NEW i \in 1..(n + 1), i = n + 1
        PROVE  /\ i + 1 \in DOMAIN walk => walk[i + 1] = l[i].to
               /\ l[i].back <=> \E j \in 1..i : walk[j] = l[i].to
    <2>1. l[i] = e /\ i + 1 \notin DOMAIN walk /\ DOMAIN walk = 1..i
      BY <1>1, <1>4
    <2> QED  BY <2>1 DEF Among
  <1>5. \A i \in 1..(n + 1) : i \in 1..n \/ i = n + 1
    BY <1>1
  <1>6. Follows(walk, l)
    BY <1>1, <1>2, <1>3, <1>4, <1>5 DEF Follows
  <1>7. Arrival(l) = e.to
    BY <1>1 DEF Arrival
  <1> QED  BY <1>6, <1>7 DEF l

\* A longer walk goes through one state more.
LEMMA AmongAppend ==
    ASSUME NEW walk \in Seq(Pages), NEW e \in Pages, NEW s \in Pages
    PROVE  Among(Append(walk, e), s) <=> Among(walk, s) \/ s = e
  BY DEF Among

\* scan takes the walk one state further.
LEMMA WalkScan ==
    ASSUME Types, Walks, ScanFirst \/ ScanAgain
    PROVE  Walks'
  <1>1. /\ pc = "scan" /\ pc' = "reason" /\ edges' = edges
        /\ order' = Append(order, current_bundle)
    BY DEF ScanFirst, ScanAgain, ScanVisit, Superstep
  <1>2. /\ order \in Seq(Pages) /\ seen \in Seq(Pages) /\ edges \in Seq(Edge)
        /\ current_bundle \in Pages
    BY <1>1 DEF Types, TypeOK, Control, QueueType, StoreType
  <1>3. Len(order) = Len(edges) /\ current_bundle = Arrival(edges)
    BY <1>1 DEF Walks, Position
  <1>4. Follows(order', edges')
    <2>1. Follows(Append(order, current_bundle), edges)
      BY <1>2, <1>3, FollowsScan DEF Walks
    <2> QED  BY <1>1, <2>1
  <1>5. Len(order') = Len(edges') + 1
    BY <1>1, <1>2, <1>3
  <1>6. ASSUME NEW s \in Pages
        PROVE  Scanned(s)' <=> Among(order, s) \/ s = current_bundle
    <2>1. Scanned(s) <=> Among(order, s)
      BY DEF Walks
    <2>2. CASE ScanFirst
      <3>1. seen' = Append(seen, current_bundle)
        BY <2>2 DEF ScanFirst
      <3>2. Scanned(s)' <=> Scanned(s) \/ s = current_bundle
        BY <1>2, <3>1 DEF Scanned
      <3> QED  BY <2>1, <3>2
    <2>3. CASE ScanAgain
      <3>1. seen' = seen /\ Scanned(current_bundle)
        BY <2>3 DEF ScanAgain
      <3>2. Scanned(s)' <=> Scanned(s)
        BY <3>1 DEF Scanned
      <3>3. s = current_bundle => Scanned(s)
        BY <3>1
      <3> QED  BY <2>1, <3>2, <3>3
    <2> QED  BY <2>2, <2>3
  <1>7. \A s \in Pages : Scanned(s)' <=> Among(order', s)
    BY <1>1, <1>2, <1>6, AmongAppend
  <1>8. Position'
    BY <1>1, <1>5 DEF Position
  <1> QED  BY <1>4, <1>7, <1>8 DEF Walks

\* observe takes the edges one further.
LEMMA WalkEdge ==
    ASSUME Types, Walks, ObserveEdge
    PROVE  Walks'
  <1> DEFINE e == [from |-> pending.from, to |-> next_bundle,
                   action |-> pending.action, back |-> Scanned(next_bundle)]
  <1>1. /\ pc = "observe" /\ pc' = "scan" /\ acted /\ current_bundle' = next_bundle
        /\ order' = order /\ seen' = seen /\ edges' = Append(edges, e)
    BY DEF ObserveEdge, Superstep, queues
  <1>2. /\ order \in Seq(Pages) /\ edges \in Seq(Edge)
        /\ pending \in Pending /\ next_bundle \in Pages
    BY <1>1 DEF Types, TypeOK, Control, QueueType, StoreType
  <1>3. e \in Edge /\ e.to = next_bundle
    <2>1. Scanned(next_bundle) \in BOOLEAN
      BY DEF Scanned
    <2>2. pending.from \in Pages /\ pending.action \in Actions
      BY <1>2 DEF Pending
    <2> QED  BY <1>2, <2>1, <2>2 DEF Edge
  <1>4. e.back <=> Among(order, e.to)
    <2>1. e.back = Scanned(next_bundle)
      OBVIOUS
    <2>2. Scanned(next_bundle) <=> Among(order, next_bundle)
      BY <1>2 DEF Walks
    <2> QED  BY <1>3, <2>1, <2>2
  <1> HIDE DEF e
  <1>5. Len(order) = Len(edges) + 1 /\ Follows(order, edges)
    BY <1>1 DEF Walks, Position
  <1>6. Follows(order, Append(edges, e)) /\ Arrival(Append(edges, e)) = e.to
    BY <1>2, <1>3, <1>4, <1>5, FollowsEdge
  <1>7. Follows(order', edges') /\ current_bundle' = Arrival(edges')
    BY <1>1, <1>3, <1>6
  <1>8. Len(edges') = Len(edges) + 1
    BY <1>1, <1>2, <1>3
  <1>9. Position'
    BY <1>1, <1>5, <1>7, <1>8 DEF Position
  <1>10. \A s \in Pages : Scanned(s)' <=> Among(order', s)
    BY <1>1 DEF Walks, Scanned
  <1> QED  BY <1>7, <1>9, <1>10 DEF Walks

\* Nothing else moves the walk.
LEMMA WalkRests ==
    ASSUME Types, Walks, UNCHANGED <<order, seen, edges>>, Position'
    PROVE  Walks'
  <1>1. \A s \in Pages : Scanned(s)' <=> Among(order', s)
    BY DEF Walks, Scanned
  <1>2. Follows(order', edges')
    BY DEF Walks
  <1> QED  BY <1>1, <1>2 DEF Walks

\* Every step keeps to the walk.
LEMMA WalkStep ==
    ASSUME Types, Walks, [Next]_vars
    PROVE  Walks'
  <1>1. CASE OpenSeed \/ OpenSeedFails
    <2>1. /\ pc = "start" /\ UNCHANGED <<order, seen, edges>>
          /\ pc' \in {"scan", "done"} /\ (pc' = "scan" => current_bundle' = Seed)
      BY <1>1 DEF OpenSeed, OpenSeedFails, queues, store
    <2>2. order = <<>> /\ edges = <<>>
      BY <2>1 DEF Walks, Position
    <2>3. Position'
      BY <2>1, <2>2 DEF Position, Arrival
    <2> QED  BY <2>1, <2>3, WalkRests
  <1>2. CASE ScanFirst \/ ScanAgain
    BY <1>2, WalkScan
  <1>3. CASE ObserveEdge
    BY <1>3, WalkEdge
  <1>4. CASE ReasonAudit \/ ReasonAgain \/ Act \/ ObserveSkip
    <2>1. /\ UNCHANGED <<order, seen, edges>>
          /\ pc \in {"reason", "act", "observe"} /\ pc' \in {"act", "observe", "end"}
      BY <1>4, NextActType DEF ReasonAudit, ReasonAgain, ReasonVisit, Act, SkipUnreplayable,
         SkipReplayFailed, SkipReplayDiverged, SkipActFailed, Execute, ActStep,
         ObserveSkip, Superstep, queues, store
    <2>2. Position'
      BY <2>1 DEF Walks, Position
    <2> QED  BY <2>1, <2>2, WalkRests
  <1>5. CASE Finish \/ Failure
    <2>1. /\ UNCHANGED <<order, seen, edges>> /\ pc' \in {"done", "raised"}
      BY <1>5 DEF Finish, Failure, OutOfSteps, ScanRaises, ReasonRaises, ActRaises,
                  ObserveRaises, Raise, queues, store
    <2>2. Position'
      BY <2>1 DEF Walks, Position
    <2> QED  BY <2>1, <2>2, WalkRests
  <1>6. CASE UNCHANGED vars
    <2>1. UNCHANGED <<order, seen, edges, pc, current_bundle>>
      BY <1>6 DEF vars, queues, current, store
    <2>2. Position'
      BY <2>1 DEF Walks, Position
    <2> QED  BY <2>1, <2>2, WalkRests
  <1> QED  BY <1>1, <1>2, <1>3, <1>4, <1>5, <1>6 DEF Next, Stopped

\* The order of the run is the walk its edges describe, cycles included, for
\* every application and fault.
THEOREM OrderIsAWalk == Spec => []OrderFollowsEdges
  <1>1. Init => Walks
    BY DEF Init, Walks, Position, Follows, Scanned, Among
  <1>2. Types /\ Walks /\ [Next]_vars => Walks'
    BY WalkStep
  <1>3. Walks => OrderFollowsEdges
    BY DEF Walks, Position, Follows, OrderFollowsEdges
  <1> QED  BY <1>1, <1>2, <1>3, Typed, PTL DEF Spec
-----------------------------------------------------------------------------
(* Depths.                                                                 *)

\* Depths in a queue never decrease and are of two levels, within the limit.
Sorted(queue, level) ==
    /\ \A i \in DOMAIN queue :
         /\ level <= queue[i].depth /\ queue[i].depth <= level + 1
         /\ queue[i].depth <= DepthLimit
    /\ \A i, j \in DOMAIN queue : i <= j => queue[i].depth <= queue[j].depth

\* BreadthFirst, with the level the loop is on: nothing recorded is deeper,
\* nothing waiting is shallower, and an action in flight leads to the level of
\* what waits behind it.
Levels ==
    /\ Sorted(frontier, depth)
    /\ pc = "observe" /\ acted => depth <= pending.depth /\ Sorted(frontier, pending.depth)
    /\ \A s \in DOMAIN nodes : nodes[s] <= depth

\* scan adds at the end, one level deeper.
LEMMA SortedGrows ==
    ASSUME NEW q \in Seq(Pending), NEW level \in Nat, Sorted(q, level), level < DepthLimit,
           NEW c, NEW s, NEW as, NEW p, NEW n, NEW r, Grown(q, c, s, as, level + 1, p, n, r)
    PROVE  Sorted(r, level)
  <1>1. /\ r \in Seq(Pending) /\ Len(q) <= Len(r)
        /\ \A k \in 1..Len(q) : r[k] = q[k]
        /\ \A k \in (Len(q) + 1)..Len(r) : r[k].depth = level + 1
    BY DEF Grown
  <1>2. /\ DOMAIN q = 1..Len(q) /\ DOMAIN r = 1..Len(r)
        /\ Len(q) \in Nat /\ Len(r) \in Nat /\ DepthLimit \in Nat
    BY <1>1, ExplorationAssumption
  <1>3. \A k \in 1..Len(r) : k \in 1..Len(q) \/ k \in (Len(q) + 1)..Len(r)
    BY <1>2
  <1>4. \A k \in 1..Len(q) :
          /\ level <= r[k].depth /\ r[k].depth <= level + 1 /\ r[k].depth <= DepthLimit
    BY <1>1, <1>2 DEF Sorted
  <1>5. level <= level + 1 /\ level + 1 <= level + 1 /\ level + 1 <= DepthLimit
    BY <1>2
  <1>6. \A k \in 1..Len(r) :
          /\ level <= r[k].depth /\ r[k].depth <= level + 1 /\ r[k].depth <= DepthLimit
    BY <1>1, <1>3, <1>4, <1>5
  <1>7. ASSUME NEW i \in 1..Len(r), NEW j \in 1..Len(r), i <= j
        PROVE  r[i].depth <= r[j].depth
    <2>1. CASE j \in 1..Len(q)
      <3>1. i \in 1..Len(q)
        BY <1>2, <1>7, <2>1
      <3> QED  BY <1>1, <1>2, <1>7, <2>1, <3>1 DEF Sorted
    <2>2. CASE j \in (Len(q) + 1)..Len(r)
      BY <1>1, <1>6, <2>2
    <2> QED  BY <1>3, <2>1, <2>2
  <1> QED  BY <1>2, <1>6, <1>7 DEF Sorted

\* What is left when the first of a queue is taken is on its level or the next.
LEMMA SortedTail ==
    ASSUME NEW q \in Seq(Pending), q # <<>>, NEW level \in Nat, Sorted(q, level)
    PROVE  /\ Sorted(Tail(q), level) /\ Sorted(Tail(q), Head(q).depth)
           /\ level <= Head(q).depth
  <1> DEFINE r == Tail(q)
             n == Len(q)
  <1>1. /\ DOMAIN q = 1..n /\ DOMAIN r = 1..(n - 1) /\ Head(q) = q[1]
        /\ n \in Nat /\ 1 \in 1..n /\ \A k \in 1..(n - 1) : r[k] = q[k + 1]
    OBVIOUS
  <1>2. \A k \in 1..n : q[k] \in Pending
    OBVIOUS
  <1>3. \A k \in 1..n : q[k].depth \in Nat
    BY <1>2 DEF Pending
  <1> HIDE DEF r, n
  <1>4. \A k \in 1..(n - 1) : k + 1 \in 1..n /\ 1 <= k + 1
    BY <1>1
  <1>5. /\ \A i \in 1..n : /\ level <= q[i].depth /\ q[i].depth <= level + 1
                           /\ q[i].depth <= DepthLimit
        /\ \A i, j \in 1..n : i <= j => q[i].depth <= q[j].depth
    BY <1>1 DEF Sorted
  <1>6. \A i, j \in 1..(n - 1) : i <= j => r[i].depth <= r[j].depth
    <2> SUFFICES ASSUME NEW i \in 1..(n - 1), NEW j \in 1..(n - 1), i <= j
                 PROVE  r[i].depth <= r[j].depth
      OBVIOUS
    <2>1. i + 1 <= j + 1
      OBVIOUS
    <2> QED  BY <1>1, <1>4, <1>5, <2>1
  <1>7. Sorted(r, level)
    BY <1>1, <1>4, <1>5, <1>6 DEF Sorted
  <1>8. ASSUME NEW i \in 1..(n - 1)
        PROVE  /\ q[1].depth <= r[i].depth /\ r[i].depth <= q[1].depth + 1
               /\ r[i].depth <= DepthLimit
    <2>1. i + 1 \in 1..n /\ 1 <= i + 1 /\ r[i] = q[i + 1]
      BY <1>1, <1>4
    <2>2. q[1].depth <= q[i + 1].depth /\ q[i + 1].depth <= level + 1 /\ level <= q[1].depth
          /\ q[i + 1].depth <= DepthLimit
      BY <1>1, <1>5, <2>1
    <2>3. q[1].depth \in Nat /\ q[i + 1].depth \in Nat
      BY <1>1, <1>3, <2>1
    <2> QED  BY <2>1, <2>2, <2>3
  <1>9. Sorted(r, q[1].depth)
    BY <1>1, <1>6, <1>8 DEF Sorted
  <1> QED  BY <1>1, <1>5, <1>7, <1>9 DEF r

\* persist_state records the level the loop is on.
LEMMA NodesOnLevel ==
    ASSUME Types, pc = "scan", \A s \in DOMAIN nodes : nodes[s] <= depth,
           nodes' \in {nodes, PersistState(nodes, current_bundle, depth)}
    PROVE  \A s \in DOMAIN nodes' : nodes'[s] <= depth
  <1>1. depth \in Nat /\ nodes \in [DOMAIN nodes -> Nat]
    BY DEF Types, TypeOK, CurrentType, StoreType
  <1>2. CASE nodes' = PersistState(nodes, current_bundle, depth)
    <2> DEFINE t == PersistState(nodes, current_bundle, depth)
    <2>1. DOMAIN t = DOMAIN nodes \cup {current_bundle}
      BY <1>1, PersistStateType
    <2>2. ASSUME NEW s \in DOMAIN nodes PROVE t[s] = nodes[s]
      BY DEF PersistState
    <2>3. current_bundle \notin DOMAIN nodes => t[current_bundle] = depth
      BY <1>1, PersistStateType
    <2> HIDE DEF t
    <2>4. \A s \in DOMAIN t : t[s] <= depth
      BY <1>1, <2>1, <2>2, <2>3
    <2> QED  BY <1>2, <2>4 DEF t
  <1> QED  BY <1>2

\* Every step keeps to the levels.
LEMMA LevelsStep ==
    ASSUME Types, Levels, [Next]_vars
    PROVE  Levels'
  <1>0. frontier \in Seq(Pending) /\ depth \in Nat /\ DepthLimit \in Nat
    BY ExplorationAssumption DEF Types, TypeOK, QueueType, CurrentType
  <1>1. CASE ScanFirst
    <2>1. /\ pc = "scan" /\ pc' = "reason" /\ depth' = depth
          /\ nodes' = PersistState(nodes, current_bundle, depth)
      BY <1>1 DEF ScanFirst, ScanVisit, Superstep
    <2>2. \A s \in DOMAIN nodes' : nodes'[s] <= depth
      BY <2>1, NodesOnLevel DEF Levels
    <2>3. Sorted(frontier', depth)
      <3>1. CASE depth < DepthLimit
        BY <1>0, <1>1, <3>1, ScanFrontier, SortedGrows DEF Levels
      <3>2. CASE ~(depth < DepthLimit)
        <4>1. frontier' = frontier
          BY <1>1, <3>2 DEF ScanFirst
        <4> QED  BY <4>1 DEF Levels
      <3> QED  BY <3>1, <3>2
    <2> QED  BY <2>1, <2>2, <2>3 DEF Levels, Sorted
  <1>2. CASE Act
    <2>1. ActStep
      BY <1>2 DEF Act, SkipUnreplayable, SkipReplayFailed, SkipReplayDiverged,
                  SkipActFailed, Execute
    <2>2. /\ depth' = depth /\ nodes' = nodes /\ pc = "act"
          /\ frontier' = Tail(frontier) /\ pending' = Head(frontier)
      BY <2>1 DEF ActStep, Superstep, Candidate
    <2>3. frontier # <<>>
      BY <2>2 DEF Types, Control
    <2>4. /\ Sorted(Tail(frontier), depth) /\ Sorted(Tail(frontier), Head(frontier).depth)
          /\ depth <= Head(frontier).depth
      BY <1>0, <2>3, SortedTail DEF Levels
    <2>5. Sorted(frontier', depth') /\ Sorted(frontier', pending'.depth) /\ depth' <= pending'.depth
      BY <2>2, <2>4
    <2> QED  BY <2>2, <2>5 DEF Levels, Sorted
  <1>3. CASE ObserveEdge
    <2>1. /\ pc = "observe" /\ pc' = "scan" /\ acted /\ depth' = pending.depth
          /\ nodes' = nodes /\ frontier' = frontier
      BY <1>3 DEF ObserveEdge, Superstep, queues
    <2>2. depth <= pending.depth /\ Sorted(frontier, pending.depth) /\ pending.depth \in Nat
      BY <2>1 DEF Levels, Types, Control, Pending
    <2>3. \A s \in DOMAIN nodes : nodes[s] \in Nat /\ nodes[s] <= depth
      BY DEF Types, TypeOK, StoreType, Levels
    <2>4. \A s \in DOMAIN nodes : nodes[s] <= pending.depth
      BY <1>0, <2>2, <2>3
    <2> QED  BY <2>1, <2>2, <2>4 DEF Levels, Sorted
  <1>4. CASE \/ OpenSeed \/ OpenSeedFails \/ ScanAgain \/ ReasonAudit \/ ReasonAgain
             \/ ObserveSkip \/ Finish
    <2>1. /\ pc' # "observe" /\ UNCHANGED <<nodes, frontier, depth>>
      BY <1>4, NextActType DEF OpenSeed, OpenSeedFails, ScanAgain, ScanVisit, ReasonAudit,
         ReasonAgain, ReasonVisit, ObserveSkip, Finish, queues, store, current
    <2> QED  BY <2>1 DEF Levels, Sorted
  <1>5. CASE Failure
    <2>1. pc' = "raised" /\ UNCHANGED <<frontier, depth>>
      BY <1>5 DEF Failure, OutOfSteps, ScanRaises, ReasonRaises, ActRaises, ObserveRaises,
                  Raise, queues, current
    <2>2. \A s \in DOMAIN nodes' : nodes'[s] <= depth
      <3>1. CASE ScanRaises
        <4>1. pc = "scan" /\ nodes' \in {nodes, PersistState(nodes, current_bundle, depth)}
          BY <3>1 DEF ScanRaises, Superstep
        <4> QED  BY <4>1, NodesOnLevel DEF Levels
      <3>2. CASE ~ScanRaises
        <4>1. nodes' = nodes
          BY <1>5, <3>2 DEF Failure, OutOfSteps, ReasonRaises, ActRaises, ObserveRaises, store
        <4> QED  BY <4>1 DEF Levels
      <3> QED  BY <3>1, <3>2
    <2> QED  BY <2>1, <2>2 DEF Levels, Sorted
  <1>6. CASE UNCHANGED vars
    BY <1>6 DEF vars, queues, current, store, flight, Levels, Sorted
  <1> QED  BY <1>1, <1>2, <1>3, <1>4, <1>5, <1>6 DEF Next, Stopped

\* The frontier is a queue of two levels, so a state is recorded at the least
\* depth it is reached at, provided the store's old nodes are seeds: a node that
\* an earlier run recorded deeper keeps its depth (scan, graph_runner.py
\* 142-187; persist_state, fakes.py 484-487).
THEOREM LevelByLevel ==
    ASSUME \A s \in DOMAIN OldNodes : OldNodes[s] = 0
    PROVE  Spec => []BreadthFirst
  <1>1. Init => Levels
    BY DEF Init, Levels, Sorted
  <1>2. Types /\ Levels /\ [Next]_vars => Levels'
    BY LevelsStep
  <1>3. Types /\ Levels /\ Endpoints => BreadthFirst
    <2> SUFFICES ASSUME Types, Levels, Endpoints PROVE BreadthFirst
      OBVIOUS
    <2>1. frontier \in Seq(Pending) /\ depth \in Nat
      BY DEF Types, TypeOK, QueueType, CurrentType
    <2>2. \A i \in DOMAIN frontier : frontier[i] \in Pending
      BY <2>1
    <2>3. \A i \in DOMAIN frontier : frontier[i].depth \in Nat
      BY <2>2 DEF Pending
    <2>4. \A i, j \in DOMAIN frontier : frontier[j].depth <= frontier[i].depth + 1
      <3> SUFFICES ASSUME NEW i \in DOMAIN frontier, NEW j \in DOMAIN frontier
                   PROVE  frontier[j].depth <= frontier[i].depth + 1
        OBVIOUS
      <3>1. frontier[j].depth <= depth + 1 /\ depth <= frontier[i].depth
        BY DEF Levels, Sorted
      <3> QED  BY <2>1, <2>3, <3>1
    <2>5. \A i \in DOMAIN seen : nodes[seen[i]] <= depth
      BY DEF Levels, Endpoints
    <2> QED  BY <2>4, <2>5 DEF BreadthFirst, Levels, Sorted
  <1>4. Init => Endpoints
    BY DEF Init, Endpoints, Ends, EndsBut
  <1>5. Types /\ Endpoints /\ [Next]_vars => Endpoints'
    BY EndpointsStep
  <1> QED  BY <1>1, <1>2, <1>3, <1>4, <1>5, Typed, PTL DEF Spec
-----------------------------------------------------------------------------
(* What becomes of every control.                                          *)

Waiting == PairsOf(frontier)
Settled == PairsOf(edges) \cup PairsOf(skipped)

\* Every pair is in one place at a time, of a scanned state, and what this run
\* has claimed is settled or in flight.
Outcomes ==
    /\ IsFiniteSet(Settled) /\ Cardinality(Settled) = Len(edges) + Len(skipped)
    /\ Settled \cap (Waiting \cup InFlight) = {} /\ InFlight \cap Waiting = {}
    /\ \A x \in Settled \cup Waiting \cup InFlight : Scanned(x[1])
    /\ visited \subseteq OldVisited \cup Settled \cup InFlight

\* Where a pair may be.
Somewhere == OldVisited \cup Waiting \cup InFlight \cup Settled

\* Every control of an expanded state is somewhere.
Accounted ==
    \A s \in DOMAIN nodes :
      Scanned(s) /\ nodes[s] < DepthLimit => \A a \in Offers(app, s) : <<s, a>> \in Somewhere

\* A node that is recorded and not scanned is the seed, of an earlier run; the
\* seed is scanned first, at depth 0.
Recorded ==
    /\ \A s \in DOMAIN nodes : Scanned(s) \/ (s = Seed /\ nodes[s] = 0)
    /\ pc = "start" => depth = 0
    /\ pc = "scan" => Scanned(Seed) \/ (current_bundle = Seed /\ depth = 0)
    /\ pc \in {"reason", "act", "observe"} => Scanned(Seed)

Complete == pc # "raised" => Outcomes /\ Accounted /\ Recorded

\* The store an earlier run over the same seed left, if any.
SeedOnly == \A s \in DOMAIN OldNodes : s = Seed /\ OldNodes[s] = 0

\* Side effects change where controls lead, not which controls there are.
SameControls ==
    Mutable => \A v, w \in Apps, p \in Pages : Offers(v, p) = Offers(w, p)

LEMMA PairsAppended ==
    ASSUME NEW T, NEW s \in Seq(T), NEW e \in T
    PROVE  PairsOf(Append(s, e)) = PairsOf(s) \cup {PairOf(e)} /\ Len(Append(s, e)) = Len(s) + 1
  <1> DEFINE u == Append(s, e)
  <1>1. /\ Len(s) \in Nat /\ DOMAIN s = 1..Len(s) /\ DOMAIN u = 1..(Len(s) + 1)
        /\ u[Len(s) + 1] = e /\ \A k \in 1..Len(s) : u[k] = s[k]
        /\ Len(u) = Len(s) + 1
    OBVIOUS
  <1> HIDE DEF u
  <1>2. \A k \in DOMAIN u : k \in DOMAIN s \/ k = Len(s) + 1
    BY <1>1
  <1>3. \A k \in DOMAIN s : k \in DOMAIN u
    BY <1>1
  <1>4. Len(s) + 1 \in DOMAIN u
    BY <1>1
  <1>5. PairsOf(u) = PairsOf(s) \cup {PairOf(e)}
    BY <1>1, <1>2, <1>3, <1>4 DEF PairsOf
  <1> QED  BY <1>1, <1>5 DEF u

\* What waits is the candidate and the rest, which are different pairs.
LEMMA PairsTail ==
    ASSUME NEW q \in Seq(Pending), q # <<>>,
           \A i, j \in DOMAIN q : PairOf(q[i]) = PairOf(q[j]) => i = j
    PROVE  /\ PairsOf(q) = PairsOf(Tail(q)) \cup {PairOf(Head(q))}
           /\ PairOf(Head(q)) \notin PairsOf(Tail(q))
  <1> DEFINE r == Tail(q)
             n == Len(q)
  <1>1. /\ DOMAIN q = 1..n /\ DOMAIN r = 1..(n - 1) /\ Head(q) = q[1]
        /\ n \in Nat /\ 1 \in 1..n /\ \A k \in 1..(n - 1) : r[k] = q[k + 1]
    OBVIOUS
  <1> HIDE DEF r, n
  <1>2. \A k \in 1..(n - 1) : k + 1 \in 1..n /\ k + 1 # 1
    BY <1>1
  <1>3. \A k \in 1..n : k = 1 \/ (k - 1 \in 1..(n - 1) /\ (k - 1) + 1 = k)
    BY <1>1
  <1>4. PairsOf(q) \subseteq PairsOf(r) \cup {PairOf(q[1])}
    <2> SUFFICES ASSUME NEW k \in 1..n PROVE PairOf(q[k]) \in PairsOf(r) \cup {PairOf(q[1])}
      BY <1>1 DEF PairsOf
    <2>1. CASE k # 1
      <3>1. k - 1 \in DOMAIN r /\ r[k - 1] = q[k]
        BY <1>1, <1>3, <2>1
      <3> QED  BY <3>1 DEF PairsOf
    <2> QED  BY <2>1
  <1>5. PairsOf(r) \cup {PairOf(q[1])} \subseteq PairsOf(q)
    BY <1>1, <1>2 DEF PairsOf
  <1>6. PairOf(q[1]) \notin PairsOf(r)
    BY <1>1, <1>2 DEF PairsOf
  <1> QED  BY <1>1, <1>4, <1>5, <1>6 DEF r

\* No step changes which controls a page has.
LEMMA ControlsStay ==
    ASSUME SameControls, Types, [Next]_vars, NEW p \in Pages
    PROVE  Offers(app', p) = Offers(app, p)
  <1>1. app \in Apps
    BY DEF Types, TypeOK, BrowserType
  <1>2. app' = app \/ app' \in After(app, Candidate.action)
    BY DEF Next, vars, browser, OpenSeed, OpenSeedFails, ScanFirst, ScanAgain, ScanVisit,
           ReasonAudit, ReasonAgain, ReasonVisit, Act, SkipUnreplayable, SkipReplayFailed,
           SkipReplayDiverged, SkipActFailed, Execute, ObserveEdge, ObserveSkip, Finish,
           Failure, OutOfSteps, ScanRaises, ReasonRaises, ActRaises, ObserveRaises, Raise,
           Stopped
  <1>3. app' = app \/ (Mutable /\ app' \in Apps)
    BY <1>2 DEF After
  <1> QED  BY <1>1, <1>3 DEF SameControls

\* With the pairs and the nodes as they are, all stays accounted for.
LEMMA StaysComplete ==
    ASSUME SameControls, Types, Outcomes, Accounted, [Next]_vars,
           UNCHANGED <<nodes, seen, frontier, edges, skipped, visited>>,
           InFlight' = InFlight
    PROVE  Outcomes' /\ Accounted'
  <1>1. Settled' = Settled /\ Waiting' = Waiting /\ \A s : Scanned(s)' = Scanned(s)
    BY DEF Settled, Waiting, Scanned
  <1>2. Outcomes'
    BY <1>1 DEF Outcomes
  <1>3. Somewhere' = Somewhere
    BY <1>1 DEF Somewhere
  <1>4. \A s \in DOMAIN nodes : Offers(app', s) = Offers(app, s)
    BY ControlsStay DEF Types, TypeOK, StoreType
  <1>5. Accounted'
    BY <1>1, <1>3, <1>4 DEF Accounted
  <1> QED  BY <1>2, <1>5

LEMMA SequenceDomain ==
    ASSUME NEW S, NEW q \in Seq(S)
    PROVE  DOMAIN q = 1..Len(q)
OBVIOUS

\* scan: the controls of a new state go to the frontier, unless they are claimed.
LEMMA ScanWaits ==
    ASSUME Types, ScanFirst
    PROVE  /\ Settled' = Settled /\ InFlight = {} /\ InFlight' = {}
           /\ Waiting \subseteq Waiting'
           /\ \A x \in Waiting' : x \in Waiting \/ x[1] = current_bundle
           /\ ~Scanned(current_bundle) /\ \A s : Scanned(s)' <=> Scanned(s) \/ s = current_bundle
           /\ depth < DepthLimit =>
                \A a \in Offers(app, current_bundle) :
                  <<current_bundle, a>> \in Waiting' \cup visited
  <1> DEFINE s0 == current_bundle
             as == Enumerate(app, s0)
  <1>1. /\ pc = "scan" /\ pc' = "reason" /\ ~Scanned(s0) /\ seen' = Append(seen, s0)
        /\ UNCHANGED <<edges, skipped, visited>>
    BY DEF ScanFirst, ScanVisit, Superstep
  <1>2. seen \in Seq(Pages) /\ s0 \in Pages /\ frontier \in Seq(Pending) /\ depth \in Nat
    BY <1>1 DEF Types, TypeOK, Control, QueueType, CurrentType
  <1>3. \A s : Scanned(s)' <=> Scanned(s) \/ s = s0
    BY <1>1, <1>2 DEF Scanned
  <1>4. Settled' = Settled /\ InFlight = {} /\ InFlight' = {}
    BY <1>1 DEF Settled, InFlight
  <1>5. \/ frontier' = frontier
        \/ Grown(frontier, visited, s0, as, depth + 1, current_path, Len(as), frontier')
    BY ScanFrontier
  <1>6. /\ Waiting \subseteq Waiting'
        /\ \A x \in Waiting' : x \in Waiting \/ x[1] = s0
    <2>1. CASE frontier' = frontier
      BY <2>1 DEF Waiting
    <2>2. CASE Grown(frontier, visited, s0, as, depth + 1, current_path, Len(as), frontier')
      <3>1. /\ frontier' \in Seq(Pending) /\ Len(frontier) <= Len(frontier')
            /\ \A k \in 1..Len(frontier) : frontier'[k] = frontier[k]
            /\ \A k \in (Len(frontier) + 1)..Len(frontier') : frontier'[k].from = s0
        BY <2>2 DEF Grown
      <3>2. /\ DOMAIN frontier = 1..Len(frontier) /\ DOMAIN frontier' = 1..Len(frontier')
            /\ Len(frontier) \in Nat /\ Len(frontier') \in Nat
        BY <1>2, <3>1
      <3>3. \A k \in 1..Len(frontier) : k \in 1..Len(frontier')
        BY <3>1, <3>2
      <3>4. \A k \in 1..Len(frontier') :
              k \in 1..Len(frontier) \/ k \in (Len(frontier) + 1)..Len(frontier')
        BY <3>2
      <3>5. Waiting \subseteq Waiting'
        BY <3>1, <3>2, <3>3 DEF Waiting, PairsOf
      <3>6. \A x \in Waiting' : x \in Waiting \/ x[1] = s0
        BY <3>1, <3>2, <3>4 DEF Waiting, PairsOf, PairOf
      <3> QED  BY <3>5, <3>6
    <2> QED  BY <1>5, <2>1, <2>2
  <1>7. depth < DepthLimit => \A a \in Offers(app, s0) : <<s0, a>> \in Waiting' \cup visited
    <2> SUFFICES ASSUME depth < DepthLimit, NEW a \in Offers(app, s0)
                 PROVE  <<s0, a>> \in Waiting' \cup visited
      OBVIOUS
    <2>1. Grown(frontier, visited, s0, as, depth + 1, current_path, Len(as), frontier')
      <3>1. frontier' = Enqueue(frontier, visited, s0, as, depth + 1, current_path)
        BY DEF ScanFirst
      <3>2. as \in Seq(Actions) /\ depth + 1 \in Nat /\ current_path \in Seq(Actions)
        BY <1>2, AppType, EnumerateType DEF Types, TypeOK, CurrentType
      <3> HIDE DEF as
      <3> QED  BY <1>2, <3>1, <3>2, EnqueueGrown
    <2>2. PICK j \in 1..Len(as) : a = as[j]
      <3>1. s0 \in DOMAIN app /\ app[s0] \in Seq(Link)
        BY AppType DEF Offers, IsApp
      <3>2. PICK j \in DOMAIN app[s0] : a = app[s0][j].action
        BY <3>1 DEF Offers
      <3>3. as = [i \in DOMAIN app[s0] |-> app[s0][i].action]
        BY <3>1 DEF Enumerate
      <3>4. as \in Seq(Actions) /\ DOMAIN as = DOMAIN app[s0]
        BY <3>1, AppType, EnumerateType
      <3>5. DOMAIN as = 1..Len(as)
        BY <3>4, SequenceDomain, Zenon
      <3> QED  BY <3>2, <3>3, <3>4, <3>5
    <2> QED  BY <2>1, <2>2 DEF Grown, Waiting
  <1> QED  BY <1>1, <1>3, <1>4, <1>6, <1>7

\* scan keeps the account, if what is claimed is somewhere and the new state is
\* recorded at the depth it is scanned at.
LEMMA ScanAccounts ==
    ASSUME Types, ScanFirst, visited \subseteq Somewhere, Accounted,
           current_bundle \in DOMAIN nodes => nodes[current_bundle] = depth
    PROVE  /\ Accounted' /\ Somewhere \subseteq Somewhere'
           /\ DOMAIN nodes' = DOMAIN nodes \cup {current_bundle}
           /\ nodes'[current_bundle] = depth
           /\ \A s \in DOMAIN nodes : nodes'[s] = nodes[s]
  <1> DEFINE s0 == current_bundle
  <1>1. nodes' = PersistState(nodes, s0, depth) /\ app' = app
    BY DEF ScanFirst, ScanVisit, browser
  <1>2. DOMAIN nodes' = DOMAIN nodes \cup {s0} /\ \A s \in DOMAIN nodes : nodes'[s] = nodes[s]
    BY <1>1 DEF PersistState
  <1>3. s0 \notin DOMAIN nodes => nodes'[s0] = depth
    BY <1>1 DEF PersistState
  <1>4. nodes'[s0] = depth
    BY <1>2, <1>3
  <1>5. Somewhere \subseteq Somewhere'
    BY ScanWaits DEF Somewhere
  <1>6. depth < DepthLimit => \A a \in Offers(app, s0) : <<s0, a>> \in Somewhere'
    <2>1. Waiting' \cup visited \subseteq Somewhere'
      BY <1>5 DEF Somewhere
    <2> QED  BY <2>1, ScanWaits
  <1>7. \A s : Scanned(s)' <=> Scanned(s) \/ s = s0
    BY ScanWaits
  <1>8. Accounted'
    <2> SUFFICES ASSUME NEW s \in DOMAIN nodes', Scanned(s)', nodes'[s] < DepthLimit,
                        NEW a \in Offers(app', s)
                 PROVE  <<s, a>> \in Somewhere'
      BY DEF Accounted
    <2>1. CASE s = s0
      BY <1>1, <1>4, <1>6, <2>1
    <2>2. CASE s # s0
      BY <1>1, <1>2, <1>5, <1>7, <2>2 DEF Accounted
    <2> QED  BY <2>1, <2>2
  <1> QED  BY <1>2, <1>4, <1>5, <1>8

LEMMA ScanComplete ==
    ASSUME Types, Outcomes, Accounted, Recorded, ScanFirst
    PROVE  Outcomes' /\ Accounted' /\ Recorded'
  <1>1. /\ pc = "scan" /\ pc' = "reason" /\ depth' = depth
        /\ UNCHANGED <<edges, skipped, visited>>
    BY DEF ScanFirst, ScanVisit, Superstep
  <1>2. /\ Settled' = Settled /\ InFlight = {} /\ InFlight' = {}
        /\ \A x \in Waiting' : x \in Waiting \/ x[1] = current_bundle
        /\ ~Scanned(current_bundle) /\ \A s : Scanned(s)' <=> Scanned(s) \/ s = current_bundle
    BY ScanWaits
  <1>3. Outcomes'
    <2>1. Settled \cap Waiting' = {}
      BY <1>2 DEF Outcomes
    <2>2. \A x \in Settled \cup Waiting' : Scanned(x[1])'
      BY <1>2 DEF Outcomes
    <2> QED  BY <1>1, <1>2, <2>1, <2>2 DEF Outcomes
  <1>4. current_bundle \in DOMAIN nodes => nodes[current_bundle] = depth
    BY <1>1, <1>2 DEF Recorded
  <1>5. visited \subseteq Somewhere
    BY DEF Outcomes, Somewhere
  <1>6. Accounted' /\ DOMAIN nodes' = DOMAIN nodes \cup {current_bundle}
        /\ \A s \in DOMAIN nodes : nodes'[s] = nodes[s]
    BY <1>4, <1>5, ScanAccounts
  <1>7. Recorded'
    <2>1. Scanned(Seed)'
      BY <1>1, <1>2 DEF Recorded
    <2>2. \A s \in DOMAIN nodes' : Scanned(s)' \/ (s = Seed /\ nodes'[s] = 0)
      BY <1>2, <1>6 DEF Recorded
    <2> QED  BY <1>1, <2>1, <2>2 DEF Recorded
  <1> QED  BY <1>3, <1>6, <1>7

\* act: the candidate is in flight, or its pair is settled by a skip.
LEMMA ActOutcome ==
    ASSUME Types, Act
    PROVE  /\ ActStep
           /\ \/ /\ acted' = TRUE /\ skipped' = skipped
                 /\ visited' = visited \cup {PairOf(Candidate)}
              \/ /\ acted' = FALSE /\ visited' \subseteq visited \cup {PairOf(Candidate)}
                 /\ \E reason \in {"unreplayable", "replay failed", "replay diverged",
                                   "act failed"} : Skip(reason)
  <1>1. CASE Execute
    BY <1>1 DEF Execute, Claim
  <1>2. CASE SkipUnreplayable
    BY <1>2 DEF SkipUnreplayable, Skip
  <1>3. CASE SkipReplayFailed
    <2>1. ActStep /\ Skip("replay failed") /\ visited' = visited
      BY <1>3 DEF SkipReplayFailed
    <2> QED  BY <2>1 DEF Skip
  <1>4. CASE SkipReplayDiverged
    BY <1>4 DEF SkipReplayDiverged, Skip
  <1>5. CASE SkipActFailed
    <2>1. ActStep /\ Skip("act failed") /\ visited' = visited \cup {PairOf(Candidate)}
      BY <1>5 DEF SkipActFailed, Claim
    <2> QED  BY <2>1 DEF Skip
  <1> QED  BY <1>1, <1>2, <1>3, <1>4, <1>5 DEF Act

\* act takes the candidate: it is settled by a skip, or in flight until observe.
LEMMA ActSettles ==
    ASSUME Types, Act
    PROVE  LET x == PairOf(Candidate)
           IN  /\ InFlight = {} /\ InFlight' = IF acted' THEN {x} ELSE {}
               /\ \/ Settled' = Settled /\ InFlight' = {x} /\ Len(skipped') = Len(skipped)
                  \/ /\ Settled' = Settled \cup {x} /\ InFlight' = {}
                     /\ Len(skipped') = Len(skipped) + 1
  <1> DEFINE x == PairOf(Candidate)
  <1>1. ActStep /\ pc = "act" /\ pc' = "observe" /\ pending' = Candidate
        /\ UNCHANGED <<nodes, seen, edges, depth>>
    BY ActOutcome DEF ActStep, Superstep
  <1>3. InFlight = {} /\ InFlight' = IF acted' THEN {x} ELSE {}
    BY <1>1 DEF InFlight
  <1>4. \/ Settled' = Settled /\ InFlight' = {x} /\ Len(skipped') = Len(skipped)
        \/ Settled' = Settled \cup {x} /\ InFlight' = {} /\ Len(skipped') = Len(skipped) + 1
    <2>1. CASE acted' = TRUE /\ skipped' = skipped
      BY <1>1, <1>3, <2>1 DEF Settled
    <2>2. CASE acted' = FALSE /\ \E reason \in {"unreplayable", "replay failed",
                                                "replay diverged", "act failed"} : Skip(reason)
      <3>1. PICK reason \in {"unreplayable", "replay failed", "replay diverged", "act failed"} :
              Skip(reason)
        BY <2>2
      <3> DEFINE e == [from |-> Candidate.from, action |-> Candidate.action, reason |-> reason]
      <3>2. e \in Skipped /\ PairOf(e) = x
        BY <1>1, CandidateType DEF Skipped, PairOf
      <3>3. skipped' = Append(skipped, e) /\ skipped \in Seq(Skipped)
        BY <3>1 DEF Skip, Types, TypeOK, QueueType
      <3> HIDE DEF e, x
      <3>4. PairsOf(skipped') = PairsOf(skipped) \cup {x} /\ Len(skipped') = Len(skipped) + 1
        BY <3>2, <3>3, PairsAppended
      <3> QED  BY <1>1, <1>3, <2>2, <3>4 DEF Settled
    <2> QED  BY <2>1, <2>2, ActOutcome
  <1> QED  BY <1>3, <1>4

\* ... and it leaves the frontier.
LEMMA ActMoves ==
    ASSUME Types, PairsOnce, Act
    PROVE  LET x == PairOf(Candidate)
           IN  /\ Waiting = Waiting' \cup {x} /\ x \notin Waiting'
               /\ InFlight = {} /\ InFlight' = IF acted' THEN {x} ELSE {}
               /\ \/ Settled' = Settled /\ InFlight' = {x} /\ Len(skipped') = Len(skipped)
                  \/ /\ Settled' = Settled \cup {x} /\ InFlight' = {}
                     /\ Len(skipped') = Len(skipped) + 1
  <1>1. frontier \in Seq(Pending) /\ frontier # <<>> /\ frontier' = Tail(frontier)
    BY ActOutcome, CandidateNow DEF ActStep, Superstep
  <1>2. /\ Waiting = Waiting' \cup {PairOf(Candidate)} /\ PairOf(Candidate) \notin Waiting'
    BY <1>1, PairsTail DEF Waiting, Candidate, PairsOnce
  <1> QED  BY <1>2, ActSettles

LEMMA ActComplete ==
    ASSUME SameControls, Types, PairsOnce, Outcomes, Accounted, Recorded, Act, [Next]_vars
    PROVE  Outcomes' /\ Accounted' /\ Recorded'
  <1> DEFINE x == PairOf(Candidate)
  <1>1. ActStep /\ pc = "act" /\ pc' = "observe" /\ pending' = Candidate
        /\ UNCHANGED <<nodes, seen, edges, depth>>
    BY ActOutcome DEF ActStep, Superstep
  <1>2. Waiting = Waiting' \cup {x} /\ x \notin Waiting'
    BY ActMoves
  <1>3. InFlight = {} /\ InFlight' = IF acted' THEN {x} ELSE {}
    BY ActMoves
  <1>4. \A s : Scanned(s)' = Scanned(s)
    BY <1>1 DEF Scanned
  <1>5. x \in Waiting /\ x \notin Settled /\ Scanned(x[1])
    BY <1>2 DEF Outcomes
  <1>6. \/ Settled' = Settled /\ InFlight' = {x} /\ Len(skipped') = Len(skipped)
        \/ Settled' = Settled \cup {x} /\ InFlight' = {} /\ Len(skipped') = Len(skipped) + 1
    BY ActMoves
  <1>7. visited' \subseteq visited \cup {x}
    BY ActOutcome
  <1>8. edges' = edges /\ Len(edges) \in Nat /\ Len(skipped) \in Nat
    BY <1>1 DEF Types, TypeOK, StoreType, QueueType
  <1> HIDE DEF x
  <1>9. IsFiniteSet(Settled') /\ Cardinality(Settled') = Len(edges') + Len(skipped')
    <2>1. IsFiniteSet(Settled) /\ Cardinality(Settled) = Len(edges) + Len(skipped)
      BY DEF Outcomes
    <2>2. /\ IsFiniteSet(Settled \cup {x})
          /\ Cardinality(Settled \cup {x}) = Cardinality(Settled) + 1
      BY <1>5, <2>1, FS_AddElement
    <2>3. Len(edges') = Len(edges)
      BY <1>8
    <2>4. CASE Settled' = Settled /\ Len(skipped') = Len(skipped)
      BY <2>1, <2>3, <2>4
    <2>5. CASE Settled' = Settled \cup {x} /\ Len(skipped') = Len(skipped) + 1
      BY <1>8, <2>1, <2>2, <2>3, <2>5
    <2> QED  BY <1>6, <2>4, <2>5
  <1>10. Outcomes'
    <2>1. Settled' \cap (Waiting' \cup InFlight') = {} /\ InFlight' \cap Waiting' = {}
      BY <1>2, <1>5, <1>6 DEF Outcomes
    <2>2. \A y \in Settled' \cup Waiting' \cup InFlight' : Scanned(y[1])'
      BY <1>2, <1>4, <1>5, <1>6 DEF Outcomes
    <2>3. visited' \subseteq OldVisited \cup Settled' \cup InFlight'
      BY <1>3, <1>6, <1>7 DEF Outcomes
    <2> QED  BY <1>9, <2>1, <2>2, <2>3 DEF Outcomes
  <1>11. Somewhere' = Somewhere
    BY <1>2, <1>3, <1>6 DEF Somewhere
  <1>12. Accounted'
    <2>1. \A s \in DOMAIN nodes : Offers(app', s) = Offers(app, s)
      BY ControlsStay DEF Types, TypeOK, StoreType
    <2> QED  BY <1>1, <1>4, <1>11, <2>1 DEF Accounted
  <1>13. Recorded'
    BY <1>1, <1>4 DEF Recorded
  <1> QED  BY <1>10, <1>12, <1>13

\* observe: what was in flight is settled by its edge.
LEMMA EdgeMoves ==
    ASSUME Types, ObserveEdge
    PROVE  LET x == PairOf(pending)
           IN  /\ InFlight = {x} /\ InFlight' = {} /\ Waiting' = Waiting
               /\ Settled' = Settled \cup {x} /\ Len(edges') = Len(edges) + 1
               /\ PairsOf(edges') = PairsOf(edges) \cup {x}
  <1> DEFINE x == PairOf(pending)
             e == [from |-> pending.from, to |-> next_bundle,
                   action |-> pending.action, back |-> Scanned(next_bundle)]
  <1>1. /\ pc = "observe" /\ pc' = "scan" /\ acted /\ edges' = Append(edges, e)
        /\ UNCHANGED <<nodes, seen, frontier, skipped, visited>>
    BY DEF ObserveEdge, Superstep, queues
  <1>2. e \in Edge /\ PairOf(e) = x
    <2>1. pending \in Pending /\ next_bundle \in Pages
      BY <1>1 DEF Types, Control
    <2>2. Scanned(next_bundle) \in BOOLEAN
      BY DEF Scanned
    <2>3. pending.from \in Pages /\ pending.action \in Actions
      BY <2>1 DEF Pending
    <2>4. e \in Edge
      BY <2>1, <2>2, <2>3 DEF Edge
    <2>5. PairOf(e) = x
      BY DEF PairOf
    <2> QED  BY <2>4, <2>5
  <1>3. InFlight = {x} /\ InFlight' = {}
    BY <1>1 DEF InFlight
  <1>4. edges \in Seq(Edge) /\ skipped \in Seq(Skipped)
    BY DEF Types, TypeOK, StoreType, QueueType
  <1> HIDE DEF e, x
  <1>5. PairsOf(edges') = PairsOf(edges) \cup {x} /\ Len(edges') = Len(edges) + 1
    BY <1>1, <1>2, <1>4, PairsAppended
  <1> QED  BY <1>1, <1>3, <1>5 DEF Settled, Waiting, x

\* The account of the controls after it.
LEMMA EdgeComplete ==
    ASSUME SameControls, Types, Outcomes, Accounted, Recorded, ObserveEdge, [Next]_vars
    PROVE  Outcomes' /\ Accounted' /\ Recorded'
  <1> DEFINE x == PairOf(pending)
  <1>1. /\ pc = "observe" /\ pc' = "scan"
        /\ UNCHANGED <<nodes, seen, frontier, skipped, visited>>
    BY DEF ObserveEdge, Superstep, queues
  <1>3. InFlight = {x} /\ InFlight' = {}
    BY EdgeMoves
  <1>4. edges \in Seq(Edge) /\ skipped \in Seq(Skipped)
    BY DEF Types, TypeOK, StoreType, QueueType
  <1>5. Len(edges') = Len(edges) + 1
    BY EdgeMoves
  <1>6. Settled' = Settled \cup {x} /\ Waiting' = Waiting /\ x \notin Settled
    BY <1>3, EdgeMoves DEF Outcomes
  <1>7. \A s : Scanned(s)' = Scanned(s)
    BY <1>1 DEF Scanned
  <1>8. IsFiniteSet(Settled') /\ Cardinality(Settled') = Len(edges') + Len(skipped')
    <2>1. IsFiniteSet(Settled) /\ Cardinality(Settled) = Len(edges) + Len(skipped)
      BY DEF Outcomes
    <2>2. /\ IsFiniteSet(Settled \cup {x})
          /\ Cardinality(Settled \cup {x}) = Cardinality(Settled) + 1
      BY <1>6, <2>1, FS_AddElement
    <2>3. Len(edges) \in Nat /\ Len(skipped) \in Nat
      BY <1>4
    <2> QED  BY <1>1, <1>5, <1>6, <2>1, <2>2, <2>3
  <1>9. x \notin Waiting
    BY <1>3 DEF Outcomes
  <1>10. Outcomes'
    BY <1>1, <1>3, <1>6, <1>7, <1>8, <1>9 DEF Outcomes
  <1>11. Somewhere' = Somewhere
    BY <1>3, <1>6 DEF Somewhere
  <1>12. Accounted'
    <2>1. \A s \in DOMAIN nodes : Offers(app', s) = Offers(app, s)
      BY ControlsStay DEF Types, TypeOK, StoreType
    <2> QED  BY <1>1, <1>7, <1>11, <2>1 DEF Accounted
  <1>13. Recorded'
    BY <1>1, <1>7 DEF Recorded
  <1> QED  BY <1>10, <1>12, <1>13

\* Nothing follows an exception.
LEMMA RaisedStays ==
    ASSUME [Next]_vars, pc' # "raised"
    PROVE  pc # "raised"
  <1>1. CASE pc = "raised"
    BY <1>1 DEF Next, OpenSeed, OpenSeedFails, ScanFirst, ScanAgain, ScanVisit,
       ReasonAudit, ReasonAgain, ReasonVisit, Act, SkipUnreplayable, SkipReplayFailed,
       SkipReplayDiverged, SkipActFailed, Execute, ActStep, ObserveEdge, ObserveSkip, Finish,
       Failure, OutOfSteps, ScanRaises, ReasonRaises, ActRaises, ObserveRaises, Raise,
       Stopped, Superstep, vars
  <1> QED  BY <1>1

\* Every step keeps the account of the controls.
LEMMA CompleteStep ==
    ASSUME SameControls, Types, PairsOnce, Complete, [Next]_vars
    PROVE  Complete'
  <1> SUFFICES ASSUME pc' # "raised" PROVE Outcomes' /\ Accounted' /\ Recorded'
    BY DEF Complete
  <1>0. pc # "raised"
    BY RaisedStays
  <1>1. Outcomes /\ Accounted /\ Recorded
    BY <1>0 DEF Complete
  <1>2. CASE ScanFirst
    BY <1>1, <1>2, ScanComplete
  <1>3. CASE Act
    BY <1>1, <1>3, ActComplete
  <1>4. CASE ObserveEdge
    BY <1>1, <1>4, EdgeComplete
  <1>5. CASE OpenSeed \/ OpenSeedFails
    <2>1. /\ UNCHANGED <<nodes, seen, frontier, edges, skipped, visited, depth>>
          /\ pc = "start" /\ pc' \in {"scan", "done"} /\ (pc' = "scan" => current_bundle' = Seed)
      BY <1>5 DEF OpenSeed, OpenSeedFails, store, queues, current
    <2>2. InFlight' = InFlight
      BY <2>1 DEF InFlight
    <2>3. Recorded'
      BY <1>1, <2>1 DEF Recorded, Scanned
    <2> QED  BY <1>1, <2>1, <2>2, <2>3, StaysComplete
  <1>6. CASE ScanAgain
    <2>1. /\ UNCHANGED <<nodes, seen, frontier, edges, skipped, visited, depth>>
          /\ pc = "scan" /\ pc' = "reason" /\ Scanned(current_bundle)
      BY <1>6 DEF ScanAgain, ScanVisit, Superstep
    <2>2. InFlight' = InFlight
      BY <2>1 DEF InFlight
    <2>3. Scanned(Seed) /\ Scanned(Seed)'
      BY <1>1, <2>1 DEF Recorded, Scanned
    <2>4. Recorded'
      BY <1>1, <2>1, <2>3 DEF Recorded, Scanned
    <2> QED  BY <1>1, <2>1, <2>2, <2>4, StaysComplete
  <1>7. CASE ReasonAudit \/ ReasonAgain \/ ObserveSkip
    <2>1. /\ UNCHANGED <<nodes, seen, frontier, edges, skipped, visited>>
          /\ pc \in {"reason", "observe"} /\ pc' \in {"act", "end"}
          /\ (pc = "observe" => ~acted)
      BY <1>7, NextActType DEF ReasonAudit, ReasonAgain, ReasonVisit, ObserveSkip, Superstep,
         store, queues
    <2>2. InFlight' = InFlight
      BY <2>1 DEF InFlight
    <2>3. Recorded'
      BY <1>1, <2>1 DEF Recorded, Scanned
    <2> QED  BY <1>1, <2>1, <2>2, <2>3, StaysComplete
  <1>8. CASE Finish
    <2>1. /\ UNCHANGED <<nodes, seen, frontier, edges, skipped, visited>>
          /\ pc = "end" /\ pc' = "done"
      BY <1>8 DEF Finish, store, queues
    <2>2. InFlight' = InFlight
      BY <2>1 DEF InFlight
    <2>3. Recorded'
      BY <1>1, <2>1 DEF Recorded, Scanned
    <2> QED  BY <1>1, <2>1, <2>2, <2>3, StaysComplete
  <1>9. CASE Failure
    BY <1>9 DEF Failure, OutOfSteps, ScanRaises, ReasonRaises, ActRaises, ObserveRaises, Raise
  <1>10. CASE UNCHANGED vars
    <2>1. UNCHANGED <<nodes, seen, frontier, edges, skipped, visited, pc, depth, acted, pending,
                      current_bundle>>
      BY <1>10 DEF vars, store, queues, current, flight
    <2>2. InFlight' = InFlight
      BY <2>1 DEF InFlight
    <2>3. Recorded'
      BY <1>1, <2>1 DEF Recorded, Scanned
    <2> QED  BY <1>1, <2>1, <2>2, <2>3, StaysComplete
  <1> QED  BY <1>2, <1>3, <1>4, <1>5, <1>6, <1>7, <1>8, <1>9, <1>10 DEF Next, Stopped

\* Before the run nothing has been offered.
LEMMA CompleteInit ==
    ASSUME SeedOnly, Init
    PROVE  Complete
  <1>1. /\ nodes = OldNodes /\ visited = OldVisited /\ edges = <<>> /\ skipped = <<>>
        /\ frontier = <<>> /\ seen = <<>> /\ pc = "start" /\ depth = 0
    BY DEF Init
  <1>2. Settled = {} /\ Waiting = {} /\ InFlight = {} /\ \A s : ~Scanned(s)
    BY <1>1 DEF Settled, Waiting, InFlight, PairsOf, Scanned
  <1>3. Len(edges) = 0 /\ Len(skipped) = 0
    BY <1>1
  <1>4. Outcomes
    BY <1>1, <1>2, <1>3, FS_EmptySet DEF Outcomes
  <1>5. Accounted
    BY <1>2 DEF Accounted
  <1>6. Recorded
    BY <1>1 DEF Recorded, SeedOnly
  <1> QED  BY <1>4, <1>5, <1>6 DEF Complete

\* No control is dropped silently: a pair has one outcome, and every control of
\* an expanded state is waiting, in flight, settled or claimed by an earlier run;
\* for every application and fault, provided a side effect takes no control away
\* or adds one, and the store's only old node is the seed (scan, act and
\* observe, graph_runner.py 142-324).
THEOREM NothingDropped ==
    ASSUME SeedOnly, SameControls
    PROVE  Spec => []NoSilentDrops
  <1>1. Init => Complete
    BY CompleteInit
  <1>2. Types /\ PairsOnce /\ Complete /\ [Next]_vars => Complete'
    BY CompleteStep
  <1>3. Complete => NoSilentDrops
    <2> SUFFICES ASSUME pc # "raised", Outcomes, Accounted
                 PROVE  NoSilentDrops
      BY DEF Complete, NoSilentDrops
    <2>1. UNION {{<<s, a>> : a \in Offers(app, s)} :
                   s \in {t \in DOMAIN nodes : Scanned(t) /\ nodes[t] < DepthLimit}}
            \subseteq Somewhere
      BY DEF Accounted
    <2> QED  BY <2>1 DEF NoSilentDrops, Outcomes, Somewhere, Settled, Waiting
  <1> QED  BY <1>1, <1>2, <1>3, Typed, PairsWaitOnce, PTL DEF Spec

(***************************************************************************)
(* Supersteps.                                                             *)
(***************************************************************************)

\* Supersteps the pass through the four nodes has used before its next act: a
\* candidate is worth four, and those not in the frontier are spent.
Used == [scan |-> 0, reason |-> 1, act |-> 2, observe |-> 0, start |-> 0, end |-> 2,
         done |-> 2, raised |-> 3]

\* A state brings at most ten candidates.
Budget ==
    /\ pc # "observe" => supersteps + 4 * Len(frontier) <= 40 * Len(seen) + Used[pc]
    /\ pc = "observe" => supersteps + 4 * Len(frontier) + 1 <= 40 * Len(seen)

\* No version of the application has a page with more than ten controls.
SmallPages == \A v \in Apps : \A p \in DOMAIN v : Len(v[p]) <= 10

\* Then what the recursion limit allows for is so throughout.
LEMMA SmallEnough ==
    ASSUME SmallPages, Types
    PROVE  SmallFanOut
  BY DEF SmallPages, SmallFanOut, Types, TypeOK, BrowserType

\* The application keeps to its versions, and small pages stay small.
LEMMA FanOutStays ==
    ASSUME Types, [Next]_vars, SmallFanOut'
    PROVE  SmallFanOut
  <1>1. app' = app \/ Mutable
    BY DEF Next, vars, browser, OpenSeed, OpenSeedFails, ScanFirst, ScanAgain, ScanVisit,
           ReasonAudit, ReasonAgain, ReasonVisit, Act, SkipUnreplayable, SkipReplayFailed,
           SkipReplayDiverged, SkipActFailed, Execute, ObserveEdge, ObserveSkip, Finish,
           Failure, OutOfSteps, ScanRaises, ReasonRaises, ActRaises, ObserveRaises, Raise,
           Stopped, After
  <1> QED  BY <1>1 DEF SmallFanOut

\* A page of a small application has at most ten controls to enumerate.
LEMMA FewControls ==
    ASSUME Types, SmallFanOut, NEW p \in Pages
    PROVE  Len(Enumerate(app, p)) \in 0..10
  <1>1. app \in Apps /\ IsApp(app)
    BY AppType
  <1>2. CASE p \in DOMAIN app
    <2>1. Len(Enumerate(app, p)) = Len(app[p]) /\ Len(app[p]) \in Nat
      BY <1>1, <1>2, EnumerateControls
    <2>2. Len(app[p]) <= 10
      BY <1>1, <1>2 DEF SmallFanOut
    <2>3. \A n \in Nat : n <= 10 => n \in 0..10
      OBVIOUS
    <2> QED  BY <2>1, <2>2, <2>3
  <1>3. CASE p \notin DOMAIN app
    <2>1. Enumerate(app, p) = <<>>
      BY <1>3 DEF Enumerate
    <2>2. Len(<<>>) = 0
      OBVIOUS
    <2> QED  BY <2>1, <2>2
  <1> QED  BY <1>2, <1>3

\* One more superstep is paid for by the pass, or by the candidate act takes.
LEMMA BudgetStep ==
    ASSUME Types, Budget, SmallFanOut, [Next]_vars
    PROVE  Budget'
  <1>0. /\ frontier \in Seq(Pending) /\ seen \in Seq(Pages)
        /\ Len(frontier) \in Nat /\ Len(seen) \in Nat /\ supersteps \in Nat
    BY LimitType DEF Types, TypeOK, QueueType, CountType
  <1>1. CASE OpenSeed \/ OpenSeedFails
    <2>1. /\ pc = "start" /\ pc' \in {"scan", "done"}
          /\ UNCHANGED <<frontier, seen, supersteps>>
      BY <1>1 DEF OpenSeed, OpenSeedFails, queues
    <2> QED  BY <1>0, <2>1 DEF Budget, Used
  <1>2. CASE ScanFirst
    <2>1. /\ pc = "scan" /\ pc' = "reason" /\ supersteps' = supersteps + 1
          /\ seen' = Append(seen, current_bundle) /\ current_bundle \in Pages
      BY <1>2, ScanFrontier DEF ScanFirst, ScanVisit, Superstep
    <2>2. Len(seen') = Len(seen) + 1
      BY <1>0, <2>1
    <2>3. Len(Enumerate(app, current_bundle)) \in 0..10
      BY <2>1, FewControls
    <2>4. Len(frontier') \in Nat /\ Len(frontier') <= Len(frontier) + 10
      <3>1. frontier' \in Seq(Pending)
        BY <1>2, ScanFrontier
      <3>2. CASE frontier' = frontier
        BY <1>0, <3>2
      <3>3. CASE Grown(frontier, visited, current_bundle, Enumerate(app, current_bundle),
                       depth + 1, current_path, Len(Enumerate(app, current_bundle)),
                       frontier')
        <4>1. Len(frontier') <= Len(frontier) + Len(Enumerate(app, current_bundle))
          BY <3>3 DEF Grown
        <4>2. Len(frontier') \in Nat
          BY <3>1
        <4>3. \A m \in 0..10, a, b \in Nat : b <= a + m => b <= a + 10
          OBVIOUS
        <4> QED  BY <1>0, <2>3, <4>1, <4>2, <4>3
      <3>4. \/ frontier' = frontier
            \/ Grown(frontier, visited, current_bundle, Enumerate(app, current_bundle),
                     depth + 1, current_path, Len(Enumerate(app, current_bundle)), frontier')
        BY <1>2, ScanFrontier
      <3> QED  BY <3>2, <3>3, <3>4
    <2> QED  BY <1>0, <2>1, <2>2, <2>4 DEF Budget, Used
  <1>3. CASE ScanAgain
    <2>1. /\ pc = "scan" /\ pc' = "reason" /\ supersteps' = supersteps + 1
          /\ UNCHANGED <<frontier, seen>>
      BY <1>3 DEF ScanAgain, ScanVisit, Superstep
    <2> QED  BY <1>0, <2>1 DEF Budget, Used
  <1>4. CASE ReasonAudit \/ ReasonAgain
    <2>1. /\ pc = "reason" /\ pc' \in {"act", "end"} /\ supersteps' = supersteps + 1
          /\ UNCHANGED <<frontier, seen>>
      BY <1>4, NextActType DEF ReasonAudit, ReasonAgain, ReasonVisit, Superstep
    <2> QED  BY <1>0, <2>1 DEF Budget, Used
  <1>5. CASE Act
    <2>1. ActStep
      BY <1>5, ActOutcome
    <2>2. /\ pc = "act" /\ pc' = "observe" /\ supersteps' = supersteps + 1
          /\ seen' = seen /\ Len(frontier') = Len(frontier) - 1
      BY <2>1, CandidateType DEF ActStep, Superstep
    <2> QED  BY <1>0, <2>2 DEF Budget, Used
  <1>6. CASE ObserveSkip \/ ObserveEdge
    <2>1. /\ pc = "observe" /\ pc' \in {"act", "end", "scan"} /\ supersteps' = supersteps + 1
          /\ UNCHANGED <<frontier, seen>>
      BY <1>6, NextActType DEF ObserveSkip, ObserveEdge, Superstep, queues
    <2> QED  BY <1>0, <2>1 DEF Budget, Used
  <1>7. CASE Finish
    <2>1. /\ pc = "end" /\ pc' = "done" /\ UNCHANGED <<frontier, seen, supersteps>>
      BY <1>7 DEF Finish, queues
    <2> QED  BY <1>0, <2>1 DEF Budget, Used
  <1>8. CASE Failure
    <2>1. /\ pc \in {"scan", "reason", "act", "observe"} /\ pc' = "raised"
          /\ supersteps' \in {supersteps, supersteps + 1} /\ UNCHANGED <<frontier, seen>>
      BY <1>8 DEF Failure, OutOfSteps, ScanRaises, ReasonRaises, ActRaises, ObserveRaises,
                  Raise, queues, Superstep, Nodes
    <2> QED  BY <1>0, <2>1 DEF Budget, Used
  <1>9. CASE UNCHANGED vars
    BY <1>9 DEF vars, queues, Budget
  <1> QED  BY <1>1, <1>2, <1>3, <1>4, <1>5, <1>6, <1>7, <1>8, <1>9 DEF Next, Stopped

\* While no page has more than ten controls the recursion limit of LangGraph is
\* out of reach, for every max_states, depth and fault (recursion_limit, graph_runner.py 94-97).
THEOREM LimitOutOfReach == Spec => []BackstopNeedsFanOut
  <1> DEFINE I == SmallFanOut => Budget
  <1>1. Init => I
    BY DEF Init, Budget, Used
  <1>2. Types /\ I /\ [Next]_vars => I'
    BY BudgetStep, FanOutStays
  <1>3. Types /\ I => BackstopNeedsFanOut
    <2> SUFFICES ASSUME Types, Budget PROVE BackstopNeverFires
      BY DEF BackstopNeedsFanOut
    <2>1. /\ Len(frontier) \in Nat /\ Len(seen) \in Nat /\ supersteps \in Nat
          /\ Len(seen) <= MaxStates /\ MaxStates \in Nat \ {0}
      BY LimitType, ExplorationAssumption
         DEF Types, TypeOK, QueueType, CountType, StateCap
    <2>2. supersteps <= 40 * MaxStates + 3
      BY <2>1 DEF Budget, Used, Types, TypeOK, PlaceType, Nodes
    <2>3. RecursionLimit = 40 * MaxStates + 100
      BY <2>1 DEF RecursionLimit
    <2> QED  BY <2>1, <2>2, <2>3 DEF BackstopNeverFires
  <1> QED  BY <1>1, <1>2, <1>3, Typed, PTL DEF Spec

(***************************************************************************)
(* Where the browser is, and what the edges tell of it.                    *)
(***************************************************************************)

-----------------------------------------------------------------------------
(* Logs of what the browser did.                                           *)

\* EdgesTruthful of any log and any edges.
Told(log, list) ==
    \A i \in DOMAIN list : \E j \in DOMAIN log :
      /\ log[j].from = list[i].from /\ log[j].to = list[i].to
      /\ log[j].action = list[i].action

\* UnsafeOnce of any log, and every side effect in it is a claimed pair.
Once(log, claimed) ==
    /\ \A i, j \in DOMAIN log :
         log[i].action \in Unsafe /\ log[i].action = log[j].action
           /\ log[i].from = log[j].from => i = j
    /\ \A i \in DOMAIN log : log[i].action \in Unsafe => PairOf(log[i]) \in claimed

\* Nothing in the log has a side effect.
Harmless(log) == \A i \in DOMAIN log : log[i].action \notin Unsafe

\* The log ends with a candidate that was executed and led to s.
EndsWith(log, c, s) ==
    /\ log # <<>>
    /\ log[Len(log)] = [from |-> c.from, action |-> c.action, to |-> s]

\* A log that goes on tells no less.
LEMMA ToldMore ==
    ASSUME NEW log \in Seq(Firing), NEW more \in Seq(Firing), NEW list, Told(log, list)
    PROVE  Told(log \o more, list)
  <1>1. /\ DOMAIN log \subseteq DOMAIN (log \o more)
        /\ \A j \in DOMAIN log : (log \o more)[j] = log[j]
    OBVIOUS
  <1> QED  BY <1>1 DEF Told

\* The log that ends with an action tells of the edge it is recorded as.
LEMMA ToldEdge ==
    ASSUME NEW log \in Seq(Firing), NEW list \in Seq(Edge), NEW e \in Edge,
           Told(log, list), EndsWith(log, e, e.to)
    PROVE  Told(log, Append(list, e))
  <1>1. /\ Len(list) \in Nat /\ DOMAIN list = 1..Len(list)
        /\ DOMAIN Append(list, e) = 1..(Len(list) + 1)
        /\ Append(list, e)[Len(list) + 1] = e
        /\ \A i \in 1..Len(list) : Append(list, e)[i] = list[i]
    OBVIOUS
  <1>2. Len(log) \in DOMAIN log
    BY DEF EndsWith
  <1>3. \A i \in 1..(Len(list) + 1) : i \in 1..Len(list) \/ i = Len(list) + 1
    BY <1>1
  <1> QED  BY <1>1, <1>2, <1>3 DEF Told, EndsWith

\* A replay, which is harmless, claims nothing.
LEMMA OnceHarmless ==
    ASSUME NEW log \in Seq(Firing), NEW more \in Seq(Firing), NEW claimed, NEW known,
           claimed \subseteq known, Once(log, claimed), Harmless(more)
    PROVE  Once(log \o more, known)
  <1> DEFINE r == log \o more
  <1>1. ASSUME NEW i \in DOMAIN r, r[i].action \in Unsafe
        PROVE  i \in DOMAIN log /\ r[i] = log[i]
    <2>1. CASE i \in 1..Len(log)
      BY <2>1
    <2>2. CASE i \notin 1..Len(log)
      <3>1. i - Len(log) \in DOMAIN more /\ r[i] = more[i - Len(log)]
        BY <2>2
      <3> QED  BY <1>1, <3>1 DEF Harmless
    <2> QED  BY <2>1, <2>2
  <1> HIDE DEF r
  <1>2. ASSUME NEW i \in DOMAIN r, NEW j \in DOMAIN r,
               r[i].action \in Unsafe, r[i].action = r[j].action, r[i].from = r[j].from
        PROVE  i = j
    <2>1. /\ i \in DOMAIN log /\ r[i] = log[i]
          /\ j \in DOMAIN log /\ r[j] = log[j]
      BY <1>1, <1>2
    <2> QED  BY <1>2, <2>1 DEF Once
  <1>3. ASSUME NEW i \in DOMAIN r, r[i].action \in Unsafe
        PROVE  PairOf(r[i]) \in known
    BY <1>1, <1>3 DEF Once
  <1>4. Once(r, known)
    BY <1>2, <1>3 DEF Once
  <1> QED  BY <1>4 DEF r

\* A pair that was not claimed is executed and claimed.
LEMMA OnceMore ==
    ASSUME NEW log \in Seq(Firing), NEW f \in Firing, NEW claimed,
           Once(log, claimed), PairOf(f) \notin claimed
    PROVE  Once(Append(log, f), claimed \cup {PairOf(f)})
  <1> DEFINE r == Append(log, f)
             n == Len(log)
  <1>1. /\ n \in Nat /\ DOMAIN log = 1..n /\ DOMAIN r = 1..(n + 1)
        /\ r[n + 1] = f /\ \A i \in 1..n : r[i] = log[i]
    OBVIOUS
  <1> HIDE DEF r, n
  <1>2. \A i \in DOMAIN r : \/ i \in DOMAIN log /\ r[i] = log[i]
                            \/ i = n + 1 /\ r[i] = f
    BY <1>1
  <1>3. ASSUME NEW i \in DOMAIN log, log[i].action \in Unsafe
        PROVE  ~(log[i].action = f.action /\ log[i].from = f.from)
    BY <1>3 DEF Once, PairOf
  <1>4. ASSUME NEW i \in DOMAIN r, NEW j \in DOMAIN r,
               r[i].action \in Unsafe, r[i].action = r[j].action, r[i].from = r[j].from
        PROVE  i = j
    BY <1>2, <1>3, <1>4 DEF Once
  <1>5. ASSUME NEW i \in DOMAIN r, r[i].action \in Unsafe
        PROVE  PairOf(r[i]) \in claimed \cup {PairOf(f)}
    BY <1>2, <1>5 DEF Once
  <1>6. Once(r, claimed \cup {PairOf(f)})
    BY <1>4, <1>5 DEF Once
  <1> QED  BY <1>6 DEF r

-----------------------------------------------------------------------------
(* The browser.                                                            *)

\* While Located: where the loop believes to be is where the browser is, and
\* what act did last is what observe is about to record.
Sound ==
    /\ pc = "scan" => page = current_bundle
    /\ pc \in {"reason", "act", "end"} => page = current_state_id
    /\ pc = "observe" /\ ~acted => page = current_state_id
    /\ pc = "observe" /\ acted => page = next_bundle /\ EndsWith(fired, pending, next_bundle)
    /\ Told(fired, edges)
    /\ Once(fired, visited)

\* What a replay does is harmless: it is only done when no step of it is not.
LEMMA ReplayedHarmless ==
    ASSUME Types, pc = "act", Replayable(Candidate.path), NEW n \in 0..Len(Candidate.path)
    PROVE  Harmless(Replayed(n))
  <1>1. Candidate.path \in Seq(Actions)
    BY CandidateNow
  <1>2. \A i \in 1..n : i \in DOMAIN Candidate.path
    BY <1>1
  <1> QED  BY <1>2 DEF Harmless, Replayed, Replayable

\* What the browser did before the candidate is the old log, and harmless.
LEMMA BeforeHarmless ==
    ASSUME Types, pc = "act",
           InPlace \/ (/\ Replayable(Candidate.path)
                       /\ \A i \in 0..Len(Candidate.path) : Replay[i] # NoPage)
    PROVE  \E more \in Seq(Firing) : Harmless(more) /\ FiredBefore = fired \o more
  <1>1. fired \in Seq(Firing)
    BY DEF Types, TypeOK, BrowserType
  <1>2. CASE InPlace
    <2>1. FiredBefore = fired \o <<>> /\ <<>> \in Seq(Firing)
      BY <1>1, <1>2 DEF FiredBefore
    <2>2. Harmless(<<>>)
      BY DEF Harmless
    <2> QED  BY <2>1, <2>2
  <1>3. CASE ~InPlace
    <2>1. Candidate.path \in Seq(Actions)
      BY CandidateNow
    <2>2. Len(Candidate.path) \in 0..Len(Candidate.path) /\ Len(Candidate.path) \in Nat
      BY <2>1
    <2>3. Replayed(Len(Candidate.path)) \in Seq(Firing)
      BY <1>3, <2>2, ReplayedType
    <2>4. Harmless(Replayed(Len(Candidate.path)))
      BY <1>3, <2>2, ReplayedHarmless
    <2> QED  BY <1>3, <2>3, <2>4 DEF FiredBefore
  <1> QED  BY <1>2, <1>3

\* A log may go on harmlessly while pairs are claimed.
LEMMA GoesOn ==
    ASSUME NEW log \in Seq(Firing), NEW list, NEW claimed, NEW known, claimed \subseteq known,
           NEW more \in Seq(Firing), Harmless(more), Told(log, list), Once(log, claimed)
    PROVE  Told(log \o more, list) /\ Once(log \o more, known)
  BY ToldMore, OnceHarmless

\* Whatever act does before it executes: nothing told is lost.
LEMMA BeforeTold ==
    ASSUME Types, pc = "act", Told(fired, edges), Once(fired, visited),
           NEW known, visited \subseteq known,
           InPlace \/ (/\ Replayable(Candidate.path)
                       /\ \A i \in 0..Len(Candidate.path) : Replay[i] # NoPage)
    PROVE  Told(FiredBefore, edges) /\ Once(FiredBefore, known)
  <1>1. fired \in Seq(Firing)
    BY DEF Types, TypeOK, BrowserType
  <1>2. PICK more \in Seq(Firing) : Harmless(more) /\ FiredBefore = fired \o more
    BY BeforeHarmless
  <1>3. Told(fired \o more, edges) /\ Once(fired \o more, known)
    BY <1>1, <1>2, GoesOn
  <1> QED  BY <1>2, <1>3

\* On the candidate's state, as act believes, is on it.
LEMMA ArrivedHere ==
    ASSUME Types, ActStep, Arrived, page = current_state_id
    PROVE  /\ Here = Candidate.from /\ current_state_id' = Candidate.from
           /\ InPlace \/ (/\ Replayable(Candidate.path)
                          /\ \A i \in 0..Len(Candidate.path) : Replay[i] # NoPage)
  BY DEF Arrived, ReplayCompletes, Here, InPlace

\* act, when the action succeeds.
LEMMA ExecuteSound ==
    ASSUME Types, Sound, PairsOnce, Execute
    PROVE  Sound'
  <1>1. /\ ActStep /\ Arrived /\ Claim /\ Target # NoPage
        /\ page' = Target /\ fired' = Append(FiredBefore, Fires)
        /\ next_bundle' = Target /\ acted' = TRUE
    BY DEF Execute
  <1>2. /\ pc = "act" /\ pc' = "observe" /\ edges' = edges /\ pending' = Candidate
        /\ visited' = visited \cup {PairOf(Candidate)}
    BY <1>1 DEF ActStep, Superstep, Claim
  <1>3. page = current_state_id
    BY <1>2 DEF Sound
  <1>4. /\ Here = Candidate.from
        /\ InPlace \/ (/\ Replayable(Candidate.path)
                       /\ \A i \in 0..Len(Candidate.path) : Replay[i] # NoPage)
    BY <1>1, <1>3, ArrivedHere
  <1>5. PairOf(Candidate) \notin visited
    <2>1. [Next]_vars
      BY DEF Next, Act
    <2> QED  BY <1>1, <2>1, PairsOnceStep
  <1>6. Told(FiredBefore, edges) /\ Once(FiredBefore, visited)
    BY <1>2, <1>4, BeforeTold DEF Sound
  <1>7. FiredBefore \in Seq(Firing) /\ Fires \in Firing
    BY <1>1, FiresType
  <1>8. PairOf(Fires) = PairOf(Candidate)
    BY <1>4 DEF Fires, PairOf
  <1>9. Once(fired', visited')
    <2>1. Once(Append(FiredBefore, Fires), visited \cup {PairOf(Fires)})
      BY <1>5, <1>6, <1>7, <1>8, OnceMore
    <2> QED  BY <1>1, <1>2, <1>8, <2>1
  <1>10. Told(fired', edges')
    <2>1. Append(FiredBefore, Fires) = FiredBefore \o <<Fires>> /\ <<Fires>> \in Seq(Firing)
      BY <1>7
    <2>2. Told(FiredBefore \o <<Fires>>, edges)
      BY <1>6, <1>7, <2>1, ToldMore
    <2> QED  BY <1>1, <1>2, <2>1, <2>2
  <1>11. EndsWith(fired', pending', next_bundle')
    <2>1. fired' # <<>> /\ fired'[Len(fired')] = Fires
      BY <1>1, <1>7
    <2>2. Fires = [from |-> Candidate.from, action |-> Candidate.action, to |-> Target]
      BY <1>4 DEF Fires
    <2> QED  BY <1>1, <1>2, <2>1, <2>2 DEF EndsWith
  <1> QED  BY <1>1, <1>2, <1>9, <1>10, <1>11 DEF Sound

\* act, when the action raises with the browser where it was.
LEMMA ActFailedSound ==
    ASSUME Types, Sound, SkipActFailed, "late" \notin Flaky
    PROVE  Sound'
  <1>1. ActStep /\ Arrived /\ Claim /\ Skip("act failed")
    BY DEF SkipActFailed
  <1>2. page' = Here /\ fired' = FiredBefore
    <2>1. PICK moved \in BOOLEAN :
            /\ Raises("act", Target, moved)
            /\ page' = IF moved THEN Target ELSE Here
            /\ fired' = IF moved THEN Append(FiredBefore, Fires) ELSE FiredBefore
      BY DEF SkipActFailed
    <2>2. ~moved
      BY <2>1 DEF Raises
    <2> QED  BY <2>1, <2>2
  <1>3. /\ pc = "act" /\ pc' = "observe" /\ edges' = edges
        /\ visited \subseteq visited'
    BY <1>1 DEF ActStep, Superstep, Claim
  <1>4. ~acted'
    BY <1>1 DEF Skip
  <1>5. page = current_state_id
    BY <1>3 DEF Sound
  <1>6. /\ Here = Candidate.from /\ current_state_id' = Candidate.from
        /\ InPlace \/ (/\ Replayable(Candidate.path)
                       /\ \A i \in 0..Len(Candidate.path) : Replay[i] # NoPage)
    BY <1>1, <1>5, ArrivedHere
  <1>7. Told(FiredBefore, edges) /\ Once(FiredBefore, visited')
    BY <1>3, <1>6, BeforeTold DEF Sound
  <1> QED  BY <1>2, <1>3, <1>4, <1>6, <1>7 DEF Sound

\* act, when it does not get as far as the claim.
LEMMA SkipSound ==
    ASSUME Types, Sound, SkipUnreplayable \/ SkipReplayDiverged
    PROVE  Sound'
  <1>1. CASE SkipUnreplayable
    <2>1. /\ pc = "act" /\ pc' = "observe" /\ ~acted'
          /\ UNCHANGED <<page, fired, visited, edges, current_state_id>>
      BY <1>1 DEF SkipUnreplayable, ActStep, Superstep, Skip
    <2> QED  BY <2>1 DEF Sound
  <1>2. CASE SkipReplayDiverged
    <2>1. /\ pc = "act" /\ pc' = "observe" /\ ~acted'
          /\ UNCHANGED <<visited, edges>>
          /\ page' = Landed /\ current_state_id' = Landed
          /\ ~InPlace /\ fired' = fired \o Replayed(Len(Candidate.path))
          /\ Replayable(Candidate.path)
          /\ \A i \in 0..Len(Candidate.path) : Replay[i] # NoPage
      BY <1>2 DEF SkipReplayDiverged, ReplayCompletes, ActStep, Superstep, Skip
    <2>2. fired' = FiredBefore
      BY <2>1 DEF FiredBefore
    <2>3. Told(FiredBefore, edges) /\ Once(FiredBefore, visited)
      BY <2>1, BeforeTold DEF Sound
    <2> QED  BY <2>1, <2>2, <2>3 DEF Sound
  <1> QED  BY <1>1, <1>2

\* What was appended is the last element.
LEMMA LastOfAppend ==
    ASSUME NEW S, NEW s \in Seq(S), NEW e \in S
    PROVE  Len(s) + 1 \in DOMAIN Append(s, e) /\ Append(s, e)[Len(s) + 1] = e
  OBVIOUS

\* A skip of one of these kinds ends being located.
LEMMA SkipUnlocated ==
    ASSUME Types, SkipReplayFailed \/ (SkipActFailed /\ "late" \in Flaky)
    PROVE  ~Located'
  <1>1. skipped \in Seq(Skipped)
    BY DEF Types, TypeOK, QueueType
  <1>2. PICK r \in {"replay failed", "act failed"} :
          /\ r = "act failed" => "late" \in Flaky
          /\ skipped' = Append(skipped, [from |-> Candidate.from,
                                         action |-> Candidate.action, reason |-> r])
    BY DEF SkipReplayFailed, SkipActFailed, Skip
  <1>3. ActStep
    BY DEF SkipReplayFailed, SkipActFailed
  <1> DEFINE d == [from |-> Candidate.from, action |-> Candidate.action, reason |-> r]
  <1>4. d \in Skipped /\ d.reason = r
    BY <1>3, CandidateType DEF Skipped
  <1>5. skipped' = Append(skipped, d)
    BY <1>2
  <1> HIDE DEF d
  <1>6. /\ Len(skipped) + 1 \in DOMAIN Append(skipped, d)
        /\ Append(skipped, d)[Len(skipped) + 1] = d
    BY <1>1, <1>4, LastOfAppend
  <1> QED  BY <1>2, <1>4, <1>5, <1>6 DEF Located

\* observe after an action.
LEMMA ObserveEdgeSound ==
    ASSUME Types, Sound, ObserveEdge
    PROVE  Sound'
  <1> DEFINE e == [from |-> pending.from, to |-> next_bundle,
                   action |-> pending.action, back |-> Scanned(next_bundle)]
  <1>1. /\ pc = "observe" /\ acted /\ pc' = "scan" /\ current_bundle' = next_bundle
        /\ edges' = Append(edges, e) /\ UNCHANGED <<page, fired, visited>>
    BY DEF ObserveEdge, Superstep, browser
  <1>2. /\ fired \in Seq(Firing) /\ edges \in Seq(Edge)
        /\ pending \in Pending /\ next_bundle \in Pages
    BY <1>1 DEF Types, TypeOK, Control, BrowserType, StoreType
  <1>3. e \in Edge
    <2>1. Scanned(next_bundle) \in BOOLEAN
      BY DEF Scanned
    <2>2. pending.from \in Pages /\ pending.action \in Actions
      BY <1>2 DEF Pending
    <2> QED  BY <1>2, <2>1, <2>2 DEF Edge
  <1>4. e.from = pending.from /\ e.to = next_bundle /\ e.action = pending.action
    OBVIOUS
  <1> HIDE DEF e
  <1>5. /\ page = next_bundle /\ EndsWith(fired, pending, next_bundle)
        /\ Told(fired, edges) /\ Once(fired, visited)
    BY <1>1 DEF Sound
  <1>6. EndsWith(fired, e, e.to)
    BY <1>4, <1>5 DEF EndsWith
  <1>7. Told(fired, Append(edges, e))
    BY <1>2, <1>3, <1>5, <1>6, ToldEdge
  <1> QED  BY <1>1, <1>5, <1>7 DEF Sound

\* The steps that leave the log, the edges and the claims alone.
LEMMA RestSound ==
    ASSUME Types, Sound,
           OpenSeed \/ OpenSeedFails \/ ScanFirst \/ ScanAgain \/ ReasonAudit \/ ReasonAgain
             \/ ObserveSkip \/ Finish \/ UNCHANGED vars
    PROVE  Sound'
  <1>1. UNCHANGED <<fired, edges, visited>>
    BY DEF OpenSeed, OpenSeedFails, ScanFirst, ScanAgain, ScanVisit, ReasonAudit, ReasonAgain,
           ReasonVisit, ObserveSkip, Finish, vars, browser, store
  <1>2. Told(fired', edges') /\ Once(fired', visited')
    BY <1>1 DEF Sound
  <1>3. CASE OpenSeed \/ OpenSeedFails
    <2>1. (pc' = "scan" /\ page' = current_bundle') \/ pc' = "done"
      BY <1>3 DEF OpenSeed, OpenSeedFails
    <2> QED  BY <1>2, <2>1 DEF Sound
  <1>4. CASE ScanFirst \/ ScanAgain
    <2>1. pc = "scan" /\ pc' = "reason" /\ page' = page /\ current_state_id' = current_bundle
      BY <1>4 DEF ScanFirst, ScanAgain, ScanVisit, Superstep, browser
    <2> QED  BY <1>2, <2>1 DEF Sound
  <1>5. CASE ReasonAudit \/ ReasonAgain
    <2>1. /\ pc = "reason" /\ pc' \in {"act", "end"} /\ page' = page
          /\ current_state_id' = current_state_id
      BY <1>5, NextActType DEF ReasonAudit, ReasonAgain, ReasonVisit, Superstep, browser, current
    <2> QED  BY <1>2, <2>1 DEF Sound
  <1>6. CASE ObserveSkip
    <2>1. /\ pc = "observe" /\ ~acted /\ pc' \in {"act", "end"} /\ page' = page
          /\ current_state_id' = current_state_id
      BY <1>6, NextActType DEF ObserveSkip, Superstep, browser, current
    <2> QED  BY <1>2, <2>1 DEF Sound
  <1>7. CASE Finish
    <2>1. pc' = "done"
      BY <1>7 DEF Finish
    <2> QED  BY <1>2, <2>1 DEF Sound
  <1>8. CASE UNCHANGED vars
    BY <1>8 DEF vars, browser, store, current, flight, Sound
  <1> QED  BY <1>3, <1>4, <1>5, <1>6, <1>7, <1>8

\* An exception: at most a replay was done.
LEMMA FailureSound ==
    ASSUME Types, Sound, Failure
    PROVE  Sound'
  <1>1. pc' = "raised" /\ UNCHANGED <<edges, visited>>
    BY DEF Failure, OutOfSteps, ScanRaises, ReasonRaises, ActRaises, ObserveRaises, Raise, store
  <1>2. CASE fired' = fired
    BY <1>1, <1>2 DEF Sound
  <1>3. CASE ActRaises
    <2>1. /\ pc = "act" /\ fired' = FiredBefore
          /\ InPlace \/ (/\ Replayable(Candidate.path)
                         /\ \A i \in 0..Len(Candidate.path) : Replay[i] # NoPage)
      BY <1>3 DEF ActRaises, Superstep
    <2>2. Told(FiredBefore, edges) /\ Once(FiredBefore, visited)
      BY <2>1, BeforeTold DEF Sound
    <2> QED  BY <1>1, <2>1, <2>2 DEF Sound
  <1>4. ActRaises \/ fired' = fired
    BY DEF Failure, OutOfSteps, ScanRaises, ReasonRaises, ObserveRaises
  <1> QED  BY <1>2, <1>3, <1>4

\* A skip is never taken back.
LEMMA LocatedBefore ==
    ASSUME Types, [Next]_vars, Located'
    PROVE  Located
  <1>1. skipped \in Seq(Skipped)
    BY DEF Types, TypeOK, QueueType
  <1>2. skipped' = skipped \/ \E d : skipped' = Append(skipped, d)
    BY DEF Next, Stopped, vars, queues, OpenSeed, OpenSeedFails, ScanFirst, ScanAgain, ScanVisit,
       ReasonAudit, ReasonAgain, ReasonVisit, Act, SkipUnreplayable, SkipReplayFailed,
       SkipReplayDiverged, SkipActFailed, Execute, Skip, ObserveSkip, ObserveEdge, Finish,
       Failure, OutOfSteps, ScanRaises, ReasonRaises, ActRaises, ObserveRaises, Raise
  <1>3. \A i \in DOMAIN skipped : i \in DOMAIN skipped' /\ skipped'[i] = skipped[i]
    BY <1>1, <1>2
  <1> QED  BY <1>3 DEF Located

\* While Located, every step keeps the loop sound.
LEMMA SoundStep ==
    ASSUME Types, PairsOnce, Located => Sound, [Next]_vars
    PROVE  Located' => Sound'
  <1> SUFFICES ASSUME Located' PROVE Sound'
    OBVIOUS
  <1>1. Sound
    BY LocatedBefore
  <1>2. CASE Execute
    BY <1>1, <1>2, ExecuteSound
  <1>3. CASE SkipActFailed
    BY <1>1, <1>3, SkipUnlocated, ActFailedSound
  <1>4. CASE SkipReplayFailed
    BY <1>4, SkipUnlocated
  <1>5. CASE SkipUnreplayable \/ SkipReplayDiverged
    BY <1>1, <1>5, SkipSound
  <1>6. CASE ObserveEdge
    BY <1>1, <1>6, ObserveEdgeSound
  <1>7. CASE Failure
    BY <1>1, <1>7, FailureSound
  <1>8. CASE OpenSeed \/ OpenSeedFails \/ ScanFirst \/ ScanAgain \/ ReasonAudit
               \/ ReasonAgain \/ ObserveSkip \/ Finish \/ UNCHANGED vars
    BY <1>1, <1>8, RestSound
  <1> QED  BY <1>2, <1>3, <1>4, <1>5, <1>6, <1>7, <1>8 DEF Next, Act, Stopped

\* While no replay fails half-way, and no call raises after it moved the
\* browser, edges are truthful and no side effect happens twice.
THEOREM LocatedIsTruthful == Spec => []TruthfulWhileLocated
  <1>1. Init => (Located => Sound)
    BY DEF Init, Sound, Told, Once
  <1>2. Types /\ PairsOnce /\ (Located => Sound) /\ [Next]_vars => (Located => Sound)'
    BY SoundStep
  <1>3. (Located => Sound) => TruthfulWhileLocated
    BY DEF Sound, Told, Once, TruthfulWhileLocated, EdgesTruthful, UnsafeOnce
  <1> QED  BY <1>1, <1>2, <1>3, Typed, PairsWaitOnce, PTL DEF Spec

(***************************************************************************)
(* The plain loop (explore.py) is what this loop refines.                  *)
(***************************************************************************)

-----------------------------------------------------------------------------
(* The LangGraph loop implements the plain one.                            *)

\* Every pair the run knows of is of a state it has scanned, and the routing
\* ends a run for a reason.
Known ==
    /\ \A x \in Queued : Scanned(x[1])
    /\ pc = "end" => TerminalReason(frontier, Len(seen)) # "none"
    /\ pc = "start" => depth = 0 /\ current_path = <<>>

\* The four places of a pair.
LEMMA QueuedIs ==
    /\ Queued = Waiting \cup Settled \cup InFlight
    /\ Queued' = Waiting' \cup Settled' \cup InFlight'
  BY DEF Queued, Waiting, Settled

\* scan enqueues pairs of the state it scans.
LEMMA ScanQueues ==
    ASSUME Types, ScanFirst
    PROVE  /\ seen' = Append(seen, current_bundle) /\ current_bundle \in Pages
           /\ \A s : Scanned(s)' <=> Scanned(s) \/ s = current_bundle
           /\ Queued' = Queued \cup Waiting'
           /\ \A x \in Waiting' : x \in Waiting \/ x[1] = current_bundle
  <1>1. /\ seen' = Append(seen, current_bundle) /\ seen \in Seq(Pages)
        /\ current_bundle \in Pages /\ frontier \in Seq(Pending)
        /\ pc = "scan" /\ pc' = "reason" /\ UNCHANGED <<edges, skipped>>
    BY ScanFrontier DEF ScanFirst, ScanVisit, Superstep, Types, TypeOK, QueueType
  <1>2. \A s : Scanned(s)' <=> Scanned(s) \/ s = current_bundle
    BY <1>1 DEF Scanned
  <1>3. Waiting \subseteq Waiting' /\ \A x \in Waiting' : x \in Waiting \/ x[1] = current_bundle
    <2>1. CASE frontier' = frontier
      BY <2>1 DEF Waiting
    <2>2. CASE Grown(frontier, visited, current_bundle, Enumerate(app, current_bundle),
                     depth + 1, current_path, Len(Enumerate(app, current_bundle)), frontier')
      <3>1. /\ frontier' \in Seq(Pending) /\ Len(frontier) <= Len(frontier')
            /\ \A k \in 1..Len(frontier) : frontier'[k] = frontier[k]
            /\ \A k \in (Len(frontier) + 1)..Len(frontier') : frontier'[k].from = current_bundle
        BY <2>2 DEF Grown
      <3>2. /\ DOMAIN frontier = 1..Len(frontier) /\ DOMAIN frontier' = 1..Len(frontier')
            /\ Len(frontier) \in Nat /\ Len(frontier') \in Nat
        BY <1>1, <3>1
      <3>3. \A k \in 1..Len(frontier') :
              k \in 1..Len(frontier) \/ k \in (Len(frontier) + 1)..Len(frontier')
        BY <3>2
      <3>4. 1..Len(frontier) \subseteq 1..Len(frontier')
        BY <3>1, <3>2
      <3> QED  BY <3>1, <3>2, <3>3, <3>4 DEF Waiting, PairsOf, PairOf
    <2> QED  BY <2>1, <2>2, ScanFrontier
  <1>4. InFlight = {} /\ InFlight' = {} /\ Settled' = Settled
    BY <1>1 DEF InFlight, Settled
  <1> QED  BY <1>1, <1>2, <1>3, <1>4, QueuedIs

LEMMA KnownStep ==
    ASSUME Types, PairsOnce, Known, [Next]_vars
    PROVE  Known'
  <1>1. CASE ScanFirst
    <2>1. pc' = "reason"
      BY <1>1 DEF ScanFirst, ScanVisit
    <2> QED  BY <1>1, <2>1, ScanQueues, QueuedIs DEF Known
  <1>2. CASE Act
    <2>1. ActStep /\ pc' = "observe" /\ seen' = seen
      BY <1>2, ActOutcome DEF ActStep
    <2>2. Queued' = Queued
      BY <1>2, ActMoves, QueuedIs
    <2> QED  BY <2>1, <2>2 DEF Known, Scanned
  <1>3. CASE ObserveEdge
    <2>1. pc' = "scan" /\ seen' = seen
      BY <1>3 DEF ObserveEdge, queues
    <2>2. Queued' = Queued
      BY <1>3, EdgeMoves, QueuedIs
    <2> QED  BY <2>1, <2>2 DEF Known, Scanned
  <1>4. CASE ObserveSkip \/ ReasonAudit \/ ReasonAgain
    <2>1. /\ pc' = NextAct /\ UNCHANGED <<frontier, seen, edges, skipped>>
          /\ InFlight = {} /\ pc' \notin {"observe", "start"}
      BY <1>4, NextActType
         DEF ObserveSkip, ReasonAudit, ReasonAgain, ReasonVisit, Superstep, store, queues, InFlight
    <2>2. Queued' = Queued
      BY <2>1 DEF Queued, InFlight
    <2>3. pc' = "end" => TerminalReason(frontier, Len(seen)) # "none"
      BY <2>1 DEF NextAct
    <2> QED  BY <2>1, <2>2, <2>3 DEF Known, Scanned
  <1>5. CASE OpenSeed \/ OpenSeedFails \/ ScanAgain \/ Finish
    <2>1. /\ UNCHANGED <<frontier, seen, edges, skipped>>
          /\ pc \notin {"observe"} /\ pc' \notin {"observe", "end", "start"}
      BY <1>5 DEF OpenSeed, OpenSeedFails, ScanAgain, ScanVisit, Superstep, Finish, store, queues
    <2>2. Queued' = Queued
      BY <2>1 DEF Queued, InFlight
    <2> QED  BY <2>1, <2>2 DEF Known, Scanned
  <1>6. CASE Failure
    <2>1. UNCHANGED <<frontier, seen, edges, skipped>> /\ pc' = "raised"
      BY <1>6 DEF Failure, OutOfSteps, ScanRaises, ReasonRaises, ActRaises, ObserveRaises,
                  Raise, store, queues
    <2>2. Queued' \subseteq Queued
      BY <2>1 DEF Queued, InFlight
    <2> QED  BY <2>1, <2>2 DEF Known, Scanned
  <1>7. CASE UNCHANGED vars
    <2>1. UNCHANGED <<frontier, seen, edges, skipped, pc, acted, pending, depth, current_path>>
      BY <1>7 DEF vars, store, queues, flight, current
    <2>2. Queued' = Queued
      BY <2>1 DEF Queued, InFlight
    <2> QED  BY <2>1, <2>2 DEF Known, Scanned
  <1> QED  BY <1>1, <1>2, <1>3, <1>4, <1>5, <1>6, <1>7 DEF Next, Stopped

\* The operators of the plain loop are those of Exploration.
LEMMA SameOperators ==
    /\ \A a, u : Plain!Open(a, u) = Open(a, u)
    /\ \A a, p : Plain!Enumerate(a, p) = Enumerate(a, p)
    /\ \A a, p, x : Plain!Dest(a, p, x) = Dest(a, p, x)
    /\ \A a, u, p : Plain!Walk(a, u, p) = Walk(a, u, p)
    /\ \A a, x : Plain!After(a, x) = After(a, x)
    /\ \A k, t : \A m \in BOOLEAN : Plain!Raises(k, t, m) <=> Raises(k, t, m)
    /\ \A p : Plain!Replayable(p) <=> Replayable(p)
    /\ \A e : Plain!PairOf(e) = PairOf(e)
    /\ \A l : Plain!PairsOf(l) = PairsOf(l)
    /\ \A n, s, d : Plain!PersistState(n, s, d) = PersistState(n, s, d)
    /\ \A f, n : Plain!TerminalReason(f, n) = TerminalReason(f, n)
    /\ Plain!NoAction = NoAction
  <1>1. \A a, u : Plain!Open(a, u) = Open(a, u)
    BY DEF Open, Plain!Open
  <1>2. \A a, p : Plain!Enumerate(a, p) = Enumerate(a, p)
    BY DEF Enumerate, Plain!Enumerate
  <1>3. \A a, p, x : Plain!Dest(a, p, x) = Dest(a, p, x)
    BY DEF Dest, Plain!Dest, Open, Plain!Open
  <1>4. \A a, u, p : Plain!Walk(a, u, p) = Walk(a, u, p)
    BY DEF Walk, Plain!Walk, Dest, Plain!Dest, Open, Plain!Open
  <1>5. \A a, x : Plain!After(a, x) = After(a, x)
    BY DEF After, Plain!After
  <1>6. \A k, t : \A m \in BOOLEAN : Plain!Raises(k, t, m) <=> Raises(k, t, m)
    BY DEF Raises, Plain!Raises
  <1>7. \A p : Plain!Replayable(p) <=> Replayable(p)
    BY DEF Replayable, Plain!Replayable
  <1>8. (\A e : Plain!PairOf(e) = PairOf(e)) /\ \A l : Plain!PairsOf(l) = PairsOf(l)
    BY DEF PairOf, Plain!PairOf, PairsOf, Plain!PairsOf
  <1>9. \A n, s, d : Plain!PersistState(n, s, d) = PersistState(n, s, d)
    BY DEF PersistState, Plain!PersistState
  <1>10. \A f, n : Plain!TerminalReason(f, n) = TerminalReason(f, n)
    BY DEF TerminalReason, Plain!TerminalReason
  <1>11. Plain!NoAction = NoAction
    BY DEF NoAction, Plain!NoAction
  <1> QED  BY <1>1, <1>2, <1>3, <1>4, <1>5, <1>6, <1>7, <1>8, <1>9, <1>10, <1>11

LEMMA SameEnqueue ==
    ASSUME NEW queue, NEW known, NEW sid, NEW actions, NEW d, NEW path
    PROVE  Plain!Enqueue(queue, known, sid, actions, d, path)
             = Enqueue(queue, known, sid, actions, d, path)
  <1>1. \A l : Plain!PairsOf(l) = PairsOf(l)
    BY SameOperators
  <1> QED  BY DEF Enqueue, Plain!Enqueue, PairsOf, Plain!PairsOf, PairOf, Plain!PairOf

LEMMA PlainInit == Init => Plain!Init
  <1> SUFFICES ASSUME Init PROVE Plain!Init
    OBVIOUS
  <1>1. SeenStates = {} /\ Queued = {}
    BY DEF Init, SeenStates, Queued, PairsOf, InFlight
  <1>2. Owed = <<>> /\ OwedViolations = <<>> /\ ~Flying /\ Place = "start"
    BY DEF Init, Owed, OwedViolations, Flying, Place
  <1>3. audited \o Owed = <<>> /\ violations \o OwedViolations = <<>>
        /\ persisted \o OwedViolations = <<>>
    BY <1>2 DEF Init
  <1> QED  BY <1>1, <1>2, <1>3
           DEF Init, Plain!Init, Scanning, Plain!NoScan, Plain!NoAction, NoAction

LEMMA PlainOpenSeed ==
    ASSUME Types, Known, OpenSeed \/ OpenSeedFails
    PROVE  Plain!OpenSeed
  <1>1. /\ pc = "start" /\ UNCHANGED <<app, fired, store, queues, counts, flight, audited>>
        /\ current_state_id' = current_state_id /\ ~Flying /\ ~Flying'
        /\ pc' \in {"scan", "done"} /\ first_visit' = first_visit
    BY DEF OpenSeed, OpenSeedFails, Flying, current
  <1>2. UNCHANGED <<SeenStates, Queued>>
    BY <1>1 DEF SeenStates, Queued, InFlight, store, queues
  <1>3. Owed = <<>> /\ Owed' = <<>> /\ OwedViolations = <<>> /\ OwedViolations' = <<>>
    BY <1>1 DEF Owed, OwedViolations
  <1>4. UNCHANGED <<app, fired, Plain!store, Plain!lists, Plain!counts, current_state_id,
                    audited \o Owed>>
    BY <1>1, <1>2, <1>3 DEF Plain!store, Plain!lists, Plain!counts, store, queues, counts
  <1>5. Place = "start" /\ Place' = pc'
    BY <1>1 DEF Place
  <1>6. CASE OpenSeed
    <2>1. Plain!Open(app, Seed) # NoPage /\ page' = Seed /\ pc' = "scan"
      BY <1>6, SameOperators DEF OpenSeed
    <2>2. UNCHANGED <<closed, termination_reason, depth, current_path>> /\ current_bundle' = Seed
      BY <1>6 DEF OpenSeed
    <2>3. Scanning' = [bundle |-> Seed, depth |-> 0, path |-> <<>>]
      BY <1>1, <2>1, <2>2 DEF Scanning, Known
    <2> QED  BY <1>1, <1>4, <1>5, <2>1, <2>2, <2>3 DEF Plain!OpenSeed, Flying
  <1>7. CASE OpenSeedFails
    <2>1. PICK moved \in BOOLEAN :
            Raises("open", Open(app, Seed), moved) /\ page' = IF moved THEN Seed ELSE page
      BY <1>7 DEF OpenSeedFails
    <2>2. Plain!Raises("open", Plain!Open(app, Seed), moved)
      BY <2>1, SameOperators
    <2>3. closed' = TRUE /\ pc' = "done" /\ termination_reason' = "error" /\ Scanning' = Scanning
      BY <1>1, <1>7 DEF OpenSeedFails, Scanning
    <2> QED  BY <1>1, <1>4, <1>5, <2>1, <2>2, <2>3 DEF Plain!OpenSeed, Flying
  <1> QED  BY <1>6, <1>7

LEMMA PlainScan ==
    ASSUME Types, Known, ScanFirst \/ ScanAgain
    PROVE  Plain!Scan
  <1> DEFINE sid == current_bundle
             found == IF sid \in Bad THEN <<sid>> ELSE <<>>
  <1>1. /\ pc = "scan" /\ pc' = "reason" /\ sid \in Pages /\ current_state_id' = sid
        /\ order' = Append(order, sid) /\ current_bundle' = sid
        /\ UNCHANGED <<browser, visited, edges, persisted, flight, violations, skipped,
                       counts, audited, termination_reason, depth>>
    BY DEF ScanFirst, ScanAgain, ScanVisit, Superstep, Types, Control
  <1>2. /\ Place = "scan" /\ Place' = "loop" /\ ~Flying /\ ~Flying'
        /\ Scanning = [bundle |-> sid, depth |-> depth, path |-> current_path]
        /\ Scanning' = Plain!NoScan
    BY <1>1 DEF Place, Flying, Scanning, Plain!NoScan
  <1>3. /\ audited \in Seq(Pages) /\ violations \in Seq(Pages) /\ persisted \in Seq(Pages)
        /\ seen \in Seq(Pages) /\ frontier \in Seq(Pending) /\ depth \in Nat
        /\ current_path \in Seq(Actions)
    BY DEF Types, TypeOK, QueueType, StoreType, CurrentType
  <1>4. /\ Owed = <<>> /\ OwedViolations = <<>>
        /\ Owed' = IF first_visit' THEN <<sid>> ELSE <<>>
        /\ OwedViolations' = IF first_visit' THEN found ELSE <<>>
    BY <1>1 DEF Owed, OwedViolations, Found
  <1>5. /\ audited \o Owed = audited /\ violations \o OwedViolations = violations
        /\ persisted \o OwedViolations = persisted
    BY <1>3, <1>4
  <1>6. \A s : s \in SeenStates <=> Scanned(s)
    BY DEF SeenStates, Scanned
  <1>7. UNCHANGED <<Plain!browser, visited, edges, skipped, Plain!counts, termination_reason>>
    BY <1>1 DEF Plain!browser, Plain!counts, browser, counts
  <1>8. /\ (IF Flying' THEN pending' ELSE NoAction) = (IF Flying THEN pending ELSE NoAction)
        /\ (IF Flying' THEN next_bundle' ELSE NoPage) = (IF Flying THEN next_bundle ELSE NoPage)
    BY <1>2
  <1>9. CASE ScanAgain
    <2>1. /\ first_visit' = FALSE /\ Scanned(sid) /\ UNCHANGED <<nodes, frontier, seen>>
      BY <1>9 DEF ScanAgain
    <2>2. SeenStates' = SeenStates /\ SeenStates \cup {sid} = SeenStates /\ Queued' = Queued
      BY <1>1, <1>6, <2>1 DEF SeenStates, Queued, InFlight
    <2>3. /\ (audited \o Owed)' = audited \o Owed
          /\ (violations \o OwedViolations)' = violations \o OwedViolations
          /\ (persisted \o OwedViolations)' = persisted \o OwedViolations
      BY <1>1, <1>4, <2>1
    <2> QED  BY <1>1, <1>2, <1>6, <1>7, <1>8, <2>1, <2>2, <2>3 DEF Plain!Scan
  <1>10. CASE ScanFirst
    <2>1. /\ first_visit' = TRUE /\ ~Scanned(sid) /\ seen' = Append(seen, sid)
          /\ nodes' = PersistState(nodes, sid, depth)
      BY <1>10 DEF ScanFirst
    <2>2. SeenStates' = SeenStates \cup {sid}
      <3>1. \A s : Scanned(s)' <=> Scanned(s) \/ s = sid
        BY <1>10, ScanQueues
      <3> QED  BY <1>6, <3>1 DEF SeenStates, Scanned
    <2>3. /\ (audited \o Owed)' = Append(audited \o Owed, sid)
          /\ (violations \o OwedViolations)' = (violations \o OwedViolations) \o found
          /\ (persisted \o OwedViolations)' = (persisted \o OwedViolations) \o found
      <3>1. audited \o <<sid>> = Append(audited, sid)
        BY <1>1, <1>3
      <3> QED  BY <1>1, <1>4, <1>5, <2>1, <3>1
    <2>4. Queued' = Queued \cup Plain!PairsOf(frontier')
      BY <1>10, ScanQueues, SameOperators DEF Waiting
    <2>5. CASE depth < DepthLimit
      <3>1. frontier' = Enqueue(frontier, visited, sid, Enumerate(app, sid), depth + 1,
                                current_path)
        BY <1>10, <2>5 DEF ScanFirst
      <3>2. \A x \in Actions : <<sid, x>> \in PairsOf(frontier) \cup visited
                           <=> <<sid, x>> \in PairsOf(frontier) \cup (Queued \cup visited)
        BY <2>1 DEF Known
      <3>3. Enumerate(app, sid) \in Seq(Actions) /\ depth + 1 \in Nat
        BY <1>3, AppType, EnumerateType
      <3>4. frontier' = Enqueue(frontier, Queued \cup visited, sid, Enumerate(app, sid),
                                depth + 1, current_path)
        <4> DEFINE actions == Enumerate(app, sid)
                   d == depth + 1
                   known == Queued \cup visited
        <4>1. actions \in Seq(Actions) /\ d \in Nat
          BY <3>3
        <4>2. \A x \in Actions : <<sid, x>> \in PairsOf(frontier) \cup visited
                             <=> <<sid, x>> \in PairsOf(frontier) \cup known
          BY <3>2
        <4>3. /\ sid \in Pages /\ frontier \in Seq(Pending)
              /\ current_path \in Seq(Actions)
          BY <1>1, <1>3
        <4> HIDE DEF actions, d, known, sid
        <4>4. Enqueue(frontier, visited, sid, actions, d, current_path)
                = Enqueue(frontier, known, sid, actions, d, current_path)
          BY <4>1, <4>2, <4>3, EnqueueKnown
        <4> QED  BY <3>1, <4>4 DEF actions, d, known
      <3>5. frontier' = Plain!Enqueue(frontier, Queued \cup visited, sid,
                                      Plain!Enumerate(app, sid), depth + 1, current_path)
        <4>1. Plain!Enumerate(app, sid) = Enumerate(app, sid)
          BY SameOperators
        <4> QED  BY <3>4, <4>1, SameEnqueue
      <3> QED  BY <1>1, <1>2, <1>6, <1>7, <1>8, <2>1, <2>2, <2>3, <2>4, <2>5, <3>5, SameOperators
               DEF Plain!Scan
    <2>6. CASE ~(depth < DepthLimit)
      <3>1. frontier' = frontier
        BY <1>10, <2>6 DEF ScanFirst
      <3>2. Queued' = Queued
        BY <1>10, <3>1, ScanQueues, QueuedIs DEF Waiting
      <3> QED  BY <1>1, <1>2, <1>6, <1>7, <1>8, <2>1, <2>2, <2>3, <2>6, <3>1, <3>2, SameOperators
               DEF Plain!Scan
    <2> QED  BY <2>5, <2>6
  <1> QED  BY <1>9, <1>10

\* A state is in the list of seen states once.
LEMMA SeenCount ==
    ASSUME Types, Audits
    PROVE  Cardinality(SeenStates) = Len(seen)
  <1> DEFINE n == Len(seen)
             f == [i \in 1..n |-> seen[i]]
  <1>1. n \in Nat /\ DOMAIN seen = 1..n
    BY DEF Types, TypeOK, QueueType
  <1>2. f \in [1..n -> SeenStates] /\ \A i \in 1..n : f[i] = seen[i]
    BY <1>1 DEF SeenStates
  <1>3. \A s \in SeenStates : \E i \in 1..n : f[i] = s
    BY <1>1, <1>2 DEF SeenStates
  <1>4. \A i, j \in 1..n : f[i] = f[j] => i = j
    BY <1>1, <1>2 DEF Audits
  <1> HIDE DEF f
  <1>5. f \in Bijection(1..n, SeenStates)
    BY <1>2, <1>3, <1>4 DEF Bijection, Injection, IsInjective, Surjection
  <1>6. IsFiniteSet(1..n) /\ Cardinality(1..n) = n
    <2> HIDE DEF n
    <2>1. IsFiniteSet(1..n) /\ Cardinality(1..n) = IF 1 > n THEN 0 ELSE n - 1 + 1
      BY <1>1, FS_Interval
    <2> QED  BY <1>1, <2>1
  <1> QED  BY <1>5, <1>6, FS_Bijection DEF ExistsBijection

\* reason completes the scan the plain loop has done, or does nothing.
LEMMA PlainReason ==
    ASSUME Types, ReasonAudit \/ ReasonAgain
    PROVE  UNCHANGED Plain!vars
  <1>1. /\ pc = "reason" /\ pc' \in {"act", "end"}
        /\ UNCHANGED <<browser, nodes, visited, edges, current, flight, frontier,
                       seen, order, skipped, counts, termination_reason>>
    BY NextActType DEF ReasonAudit, ReasonAgain, ReasonVisit, Superstep
  <1>2. /\ audited \in Seq(Pages) /\ violations \in Seq(Pages) /\ persisted \in Seq(Pages)
        /\ current_bundle \in Pages
    BY <1>1 DEF Types, TypeOK, QueueType, StoreType, Control
  <1>3. Owed' = <<>> /\ OwedViolations' = <<>>
    BY <1>1 DEF Owed, OwedViolations
  <1>4. /\ audited' = audited \o Owed
        /\ violations' = violations \o OwedViolations
        /\ persisted' = persisted \o OwedViolations
    <2>1. CASE ReasonAudit
      <3>1. /\ first_visit /\ audited' = Append(audited, current_bundle)
            /\ persisted' = persisted \o Found /\ violations' = violations \o Found
        BY <2>1 DEF ReasonAudit
      <3>2. Owed = <<current_bundle>> /\ OwedViolations = Found
        BY <1>1, <3>1 DEF Owed, OwedViolations
      <3>3. Append(audited, current_bundle) = audited \o <<current_bundle>>
        BY <1>2
      <3> QED  BY <3>1, <3>2, <3>3
    <2>2. CASE ReasonAgain
      <3>1. ~first_visit /\ UNCHANGED <<audited, violations, persisted>>
        BY <2>2 DEF ReasonAgain
      <3>2. Owed = <<>> /\ OwedViolations = <<>>
        BY <3>1 DEF Owed, OwedViolations
      <3> QED  BY <1>2, <3>1, <3>2
    <2> QED  BY <2>1, <2>2
  <1>5. /\ (audited \o Owed)' = audited \o Owed
        /\ (violations \o OwedViolations)' = violations \o OwedViolations
        /\ (persisted \o OwedViolations)' = persisted \o OwedViolations
    <2>1. audited' \in Seq(Pages) /\ violations' \in Seq(Pages) /\ persisted' \in Seq(Pages)
      BY ReasonTypes DEF Types, TypeOK, QueueType, StoreType
    <2> QED  BY <1>3, <1>4, <2>1
  <1>6. ~Flying /\ ~Flying' /\ Place = "loop" /\ Place' = "loop" /\ Scanning' = Scanning
    BY <1>1 DEF Flying, Place, Scanning
  <1>7. UNCHANGED <<SeenStates, Queued>>
    BY <1>1 DEF SeenStates, Queued, InFlight
  <1> QED  BY <1>1, <1>5, <1>6, <1>7
           DEF Plain!vars, Plain!browser, Plain!store, Plain!lists, Plain!counts,
               Plain!locals, browser, current, counts

\* observe: the edge, or, after a skip, nothing.
LEMMA PlainObserve ==
    ASSUME Types, ObserveSkip \/ ObserveEdge
    PROVE  (ObserveSkip /\ UNCHANGED Plain!vars) \/ (ObserveEdge /\ Plain!RecordEdge)
  <1>1. pc = "observe" /\ Owed = <<>> /\ OwedViolations = <<>>
    BY DEF ObserveSkip, ObserveEdge, Superstep, Owed, OwedViolations
  <1>2. /\ UNCHANGED <<browser, nodes, visited, persisted, frontier, seen, order, violations,
                       skipped, visited_pairs, replays, replay_steps, audited,
                       current_state_id, termination_reason>>
        /\ pc' \in {"scan", "act", "end"}
    BY NextActType DEF ObserveSkip, ObserveEdge, store, current, queues, counts
  <1>3. Owed' = <<>> /\ OwedViolations' = <<>>
    BY <1>2 DEF Owed, OwedViolations
  <1>4. /\ (audited \o Owed)' = audited \o Owed
        /\ (violations \o OwedViolations)' = violations \o OwedViolations
        /\ (persisted \o OwedViolations)' = persisted \o OwedViolations
    BY <1>1, <1>2, <1>3
  <1>5. SeenStates' = SeenStates
    BY <1>2 DEF SeenStates
  <1>6. ASSUME ObserveSkip PROVE UNCHANGED Plain!vars
    <2>1. ~acted /\ pc' \in {"act", "end"} /\ UNCHANGED <<edges, edge_count, acted>>
      BY <1>6, NextActType DEF ObserveSkip, store, counts
    <2>2. /\ ~Flying /\ ~Flying' /\ Place = "loop" /\ Place' = "loop"
          /\ Scanning' = Scanning
      BY <1>1, <2>1 DEF Flying, Place, Scanning
    <2>3. Queued' = Queued
      BY <1>1, <1>2, <2>1 DEF Queued, InFlight
    <2> QED  BY <1>2, <1>4, <1>5, <2>1, <2>2, <2>3
             DEF Plain!vars, Plain!browser, Plain!store, Plain!lists, Plain!counts,
                 Plain!locals, browser
  <1>7. ASSUME ObserveEdge PROVE Plain!RecordEdge
    <2>1. /\ acted /\ pc' = "scan" /\ edge_count' = edge_count + 1
          /\ edges' = Append(edges, [from |-> pending.from, to |-> next_bundle,
                                     action |-> pending.action, back |-> Scanned(next_bundle)])
          /\ current_bundle' = next_bundle /\ depth' = pending.depth
          /\ current_path' = Append(pending.path, pending.action)
      BY <1>7 DEF ObserveEdge
    <2>2. Flying /\ ~Flying' /\ Place = "edge" /\ Place' = "scan"
      BY <1>1, <2>1 DEF Flying, Place
    <2>3. Scanning' = [bundle |-> next_bundle, depth |-> pending.depth,
                       path |-> Append(pending.path, pending.action)]
      BY <2>1 DEF Scanning
    <2>4. Queued' = Queued
      BY <1>7, EdgeMoves, QueuedIs
    <2>5. Scanned(next_bundle) = (next_bundle \in SeenStates)
      <3>1. Scanned(next_bundle) <=> next_bundle \in SeenStates
        BY DEF Scanned, SeenStates
      <3>2. Scanned(next_bundle) \in BOOLEAN /\ (next_bundle \in SeenStates) \in BOOLEAN
        BY DEF Scanned
      <3> QED  BY <3>1, <3>2
    <2> QED  BY <1>2, <1>4, <1>5, <2>1, <2>2, <2>3, <2>4, <2>5, SameOperators
             DEF Plain!RecordEdge, Plain!browser, Plain!lists, browser
  <1> QED  BY <1>6, <1>7

LEMMA PlainFinish ==
    ASSUME Types, Audits, Known, Finish
    PROVE  Plain!Finish
  <1>1. /\ pc = "end" /\ pc' = "done" /\ closed' = TRUE
        /\ UNCHANGED <<app, page, fired, store, current, flight, queues, counts, audited>>
    BY DEF Finish
  <1>2. /\ TerminalReason(frontier, Len(seen)) # "none"
        /\ termination_reason' = TerminalReason(frontier, Len(seen))
    BY <1>1 DEF Known, Finish
  <1>3. ~Flying /\ ~Flying' /\ Place = "loop" /\ Place' = "done" /\ Scanning' = Scanning
    BY <1>1 DEF Flying, Place, Scanning
  <1>4. Owed = <<>> /\ Owed' = <<>> /\ OwedViolations = <<>> /\ OwedViolations' = <<>>
    BY <1>1 DEF Owed, OwedViolations
  <1>5. UNCHANGED <<SeenStates, Queued>>
    BY <1>1 DEF SeenStates, Queued, InFlight, store, queues
  <1>6. UNCHANGED <<Plain!store, Plain!lists, Plain!counts, Plain!locals, current_state_id,
                    audited \o Owed>>
    BY <1>1, <1>3, <1>4, <1>5
       DEF Plain!store, Plain!lists, Plain!counts, Plain!locals, store, queues, counts, current
  <1>7. LET reason == Plain!TerminalReason(frontier, Plain!Cardinality(SeenStates))
        IN  reason # "none" /\ termination_reason' = reason
    <2>1. Plain!Cardinality(SeenStates) = Cardinality(SeenStates)
      BY DEF Plain!Cardinality, Cardinality
    <2> QED  BY <1>2, <2>1, SeenCount, SameOperators
  <1>8. closed' = TRUE /\ UNCHANGED <<app, page, fired>>
    BY <1>1
  <1> QED  BY <1>3, <1>6, <1>7, <1>8 DEF Plain!Finish

-----------------------------------------------------------------------------
(* act is the body of the plain loop, minus its edge.                      *)

\* act is entered with a candidate and below the cap: the plain loop takes one too.
LEMMA PlainPop ==
    ASSUME Types, PairsOnce, Audits, Act
    PROVE  /\ Plain!Pop /\ Place = "loop" /\ ~Flying
           /\ Flying' = acted' /\ Place' = IF acted' THEN "edge" ELSE "loop"
  <1>1. /\ ActStep /\ pc = "act" /\ pc' = "observe" /\ frontier # <<>>
        /\ frontier' = Tail(frontier) /\ Len(seen) < MaxStates /\ acted' \in BOOLEAN
    BY ActOutcome, CandidateNow DEF ActStep, Superstep, Types, Control
  <1>2. UNCHANGED <<closed, nodes, edges, persisted, order, violations, edge_count, audited,
                    termination_reason, seen>>
    BY <1>1 DEF ActStep
  <1>3. Queued' = Queued
    BY ActMoves, QueuedIs
  <1>4. SeenStates' = SeenStates
    BY <1>2 DEF SeenStates
  <1>5. /\ Owed = <<>> /\ Owed' = <<>> /\ OwedViolations = <<>> /\ OwedViolations' = <<>>
        /\ Scanning' = Scanning
    BY <1>1 DEF Owed, OwedViolations, Scanning
  <1>6. /\ (audited \o Owed)' = audited \o Owed
        /\ (violations \o OwedViolations)' = violations \o OwedViolations
        /\ (persisted \o OwedViolations)' = persisted \o OwedViolations
    BY <1>2, <1>5
  <1>7. Plain!TerminalReason(frontier, Plain!Cardinality(SeenStates)) = "none"
    <2>1. Plain!Cardinality(SeenStates) = Cardinality(SeenStates)
      BY DEF Plain!Cardinality, Cardinality
    <2>2. TerminalReason(frontier, Len(seen)) = "none"
      <3>1. Len(seen) \in Nat /\ MaxStates \in Nat
        BY ExplorationAssumption DEF Types, TypeOK, QueueType
      <3> QED  BY <1>1, <3>1 DEF TerminalReason
    <2> QED  BY <2>1, <2>2, SeenCount, SameOperators
  <1>8. Place = "loop" /\ ~Flying /\ Flying' = acted' /\ Place' = IF acted' THEN "edge" ELSE "loop"
    BY <1>1 DEF Place, Flying
  <1>9. Plain!Pop
    BY <1>1, <1>2, <1>3, <1>4, <1>5, <1>6, <1>7, <1>8 DEF Plain!Pop
  <1> QED  BY <1>8, <1>9

\* Both loops replay the same calls, and skip alike.
LEMMA SameReplay ==
    /\ Plain!Calls = Replay
    /\ \A n : Plain!Did(n) = Replayed(n)
    /\ \A n : Plain!Returned(n) <=> \A i \in 0..n : Replay[i] # NoPage
  <1>1. Plain!Calls = Replay
    BY SameOperators DEF Plain!Calls, Replay, Candidate
  <1> QED  BY <1>1 DEF Plain!Did, Replayed, Candidate, Plain!Returned

LEMMA PlainSkip ==
    ASSUME Types, PairsOnce, Audits, Act, NEW reason, Skip(reason)
    PROVE  Plain!Skip(reason)
  <1>1. ~Flying /\ ~Flying' /\ Place' = "loop"
    BY PlainPop DEF Skip
  <1> QED  BY <1>1 DEF Skip, Plain!Skip, Candidate

LEMMA PlainReachFails ==
    ASSUME Types, PairsOnce, Audits, SkipUnreplayable \/ SkipReplayFailed \/ SkipReplayDiverged
    PROVE  Plain!ReachFails
  <1> DEFINE path == Head(frontier).path
             n == Len(path)
  <1>1. Act
    BY DEF Act
  <1>2. /\ Plain!Pop /\ current_state_id # Head(frontier).from
        /\ UNCHANGED <<app, visited, visited_pairs>>
    BY <1>1, PlainPop
       DEF SkipUnreplayable, SkipReplayFailed, SkipReplayDiverged, InPlace, Candidate
  <1>3. Plain!Replayable(path) <=> Replayable(path)
    BY SameOperators
  <1>4. CASE SkipUnreplayable
    <2>1. Plain!Skip("unreplayable")
      BY <1>1, <1>4, PlainSkip DEF SkipUnreplayable
    <2>2. /\ ~Replayable(path)
          /\ UNCHANGED <<page, fired, replays, replay_steps, current_state_id>>
      BY <1>4 DEF SkipUnreplayable, Candidate
    <2> QED  BY <1>2, <1>3, <2>1, <2>2 DEF Plain!ReachFails
  <1>5. CASE SkipReplayFailed
    <2>1. Plain!Skip("replay failed")
      BY <1>1, <1>5, PlainSkip DEF SkipReplayFailed
    <2>2. Replayable(path) /\ UNCHANGED <<replays, current_state_id>>
      BY <1>5 DEF SkipReplayFailed, Candidate
    <2>3. PICK k \in 0..n, moved \in BOOLEAN :
            /\ \A i \in 0..(k - 1) : Replay[i] # NoPage
            /\ Raises(IF k = 0 THEN "open" ELSE "act", Replay[k], moved)
            /\ page' = IF moved THEN Replay[k] ELSE IF k = 0 THEN page ELSE Replay[k - 1]
            /\ fired' = fired \o Replayed(IF moved THEN k ELSE k - 1)
            /\ replay_steps' = replay_steps + (IF k = 0 THEN 0 ELSE k - 1)
      BY <1>5 DEF SkipReplayFailed, Candidate
    <2>4. /\ Plain!Returned(k - 1)
          /\ Plain!Raises(IF k = 0 THEN "open" ELSE "act", Plain!Calls[k], moved)
          /\ page' = IF moved THEN Plain!Calls[k] ELSE IF k = 0 THEN page ELSE Plain!Calls[k - 1]
          /\ fired' = fired \o Plain!Did(IF moved THEN k ELSE k - 1)
      BY <2>3, SameReplay, SameOperators
    <2> QED  BY <1>2, <1>3, <2>1, <2>2, <2>3, <2>4 DEF Plain!ReachFails
  <1>6. CASE SkipReplayDiverged
    <2>1. Plain!Skip("replay diverged")
      BY <1>1, <1>6, PlainSkip DEF SkipReplayDiverged
    <2>2. /\ Replayable(path) /\ Plain!Returned(n) /\ Plain!Calls[n] # Head(frontier).from
          /\ page' = Plain!Calls[n] /\ fired' = fired \o Plain!Did(n)
          /\ replays' = replays + 1 /\ replay_steps' = replay_steps + n
          /\ current_state_id' = Plain!Calls[n]
      BY <1>6, SameReplay DEF SkipReplayDiverged, ReplayCompletes, Landed, Candidate
    <2> QED  BY <1>2, <1>3, <2>1, <2>2 DEF Plain!ReachFails
  <1> QED  BY <1>4, <1>5, <1>6

LEMMA PlainReachAndAct ==
    ASSUME Types, PairsOnce, Audits, Execute \/ SkipActFailed
    PROVE  Plain!ReachAndAct
  <1> DEFINE c == Head(frontier)
             n == Len(c.path)
             inPlace == current_state_id = c.from
             here == IF inPlace THEN page ELSE Plain!Calls[n]
             log == IF inPlace THEN fired ELSE fired \o Plain!Did(n)
             target == Plain!Dest(app, here, c.action)
             firing == [from |-> here, action |-> c.action, to |-> target]
  <1>1. Act /\ ActStep /\ Arrived /\ Claim
    BY DEF Act, Execute, SkipActFailed
  <1>2. Plain!Pop
    BY <1>1, PlainPop
  <1>3. replays \in Nat /\ replay_steps \in Nat /\ Candidate.path \in Seq(Actions)
    BY <1>1, CandidateType DEF Types, TypeOK, CountType
  <1>4. here = Here /\ log = FiredBefore /\ target = Target /\ firing = Fires
    <2>1. here = Here /\ log = FiredBefore
      BY SameReplay DEF Here, FiredBefore, Landed, Candidate, InPlace
    <2>2. target = Target
      <3>1. Plain!Dest(app, here, c.action) = Dest(app, here, c.action)
        BY SameOperators
      <3> QED  BY <2>1, <3>1 DEF Target, Candidate
    <2> QED  BY <2>1, <2>2 DEF Fires, Candidate
  <1>5. /\ inPlace \/ (Plain!Replayable(c.path) /\ Plain!Returned(n) /\ here = c.from)
        /\ current_state_id' = c.from
        /\ replays' = replays + (IF inPlace THEN 0 ELSE 1)
        /\ replay_steps' = replay_steps + (IF inPlace THEN 0 ELSE n)
    <2>1. CASE InPlace
      BY <1>1, <1>3, <2>1 DEF Arrived, InPlace, Candidate
    <2>2. CASE ~InPlace
      <3>1. ReplayCompletes /\ Landed = Candidate.from /\ ~inPlace
        BY <1>1, <2>2 DEF Arrived, InPlace, Candidate
      <3>2. Plain!Replayable(c.path) /\ Plain!Returned(n)
        BY <3>1, SameOperators, SameReplay DEF ReplayCompletes, Candidate
      <3> QED  BY <3>1, <3>2, SameReplay DEF ReplayCompletes, Landed, Candidate
    <2> QED  BY <2>1, <2>2
  <1>6. visited' = visited \cup {Plain!PairOf(c)} /\ visited_pairs' = visited_pairs + 1
    BY <1>1, SameOperators DEF Claim, Candidate
  <1>7. \/ /\ target # NoPage
           /\ page' = target /\ fired' = Append(log, firing)
           /\ app' \in Plain!After(app, c.action)
           /\ (IF Flying' THEN pending' ELSE NoAction) = c
           /\ (IF Flying' THEN next_bundle' ELSE NoPage) = target
           /\ Place' = "edge"
           /\ UNCHANGED skipped
        \/ /\ \E moved \in BOOLEAN :
                /\ Plain!Raises("act", target, moved)
                /\ page' = IF moved THEN target ELSE here
                /\ fired' = IF moved THEN Append(log, firing) ELSE log
                /\ app' \in IF moved THEN Plain!After(app, c.action) ELSE {app}
           /\ Plain!Skip("act failed")
    <2>1. CASE Execute
      <3>1. /\ Target # NoPage /\ page' = Target /\ fired' = Append(FiredBefore, Fires)
            /\ app' \in After(app, Candidate.action) /\ next_bundle' = Target
            /\ acted' = TRUE /\ skipped' = skipped /\ pending' = Candidate
        BY <1>1, <2>1 DEF Execute, ActStep
      <3>2. Flying' /\ Place' = "edge"
        BY <1>1, <3>1, PlainPop
      <3> QED  BY <1>4, <3>1, <3>2, SameOperators DEF Candidate
    <2>2. CASE SkipActFailed
      <3>1. PICK moved \in BOOLEAN :
              /\ Raises("act", Target, moved)
              /\ page' = IF moved THEN Target ELSE Here
              /\ fired' = IF moved THEN Append(FiredBefore, Fires) ELSE FiredBefore
              /\ app' \in IF moved THEN After(app, Candidate.action) ELSE {app}
        BY <2>2 DEF SkipActFailed
      <3>2. Plain!Skip("act failed")
        BY <1>1, <2>2, PlainSkip DEF SkipActFailed
      <3>3. Plain!Raises("act", target, moved) /\ Plain!After(app, c.action) = After(app, Candidate.action)
        BY <1>4, <3>1, SameOperators DEF Candidate
      <3> QED  BY <1>4, <3>1, <3>2, <3>3
    <2> QED  BY <2>1, <2>2
  <1> HIDE DEF here, log, target, firing, c
  <1> QED  BY <1>2, <1>5, <1>6, <1>7 DEF Plain!ReachAndAct, here, log, target, firing, c

\* Nothing in the plain loop moves while nothing moves in the LangGraph one.
LEMMA PlainStutters ==
    ASSUME UNCHANGED vars
    PROVE  UNCHANGED Plain!vars
  <1>1. /\ UNCHANGED <<app, page, fired, closed, nodes, visited, edges, persisted>>
        /\ UNCHANGED <<current_bundle, current_state_id, current_path, depth, first_visit>>
        /\ UNCHANGED <<pending, next_bundle, acted, frontier, seen, order, violations, skipped>>
        /\ UNCHANGED <<edge_count, visited_pairs, replays, replay_steps>>
        /\ UNCHANGED <<audited, pc, termination_reason>>
    BY DEF vars, browser, store, current, flight, queues, counts
  <1>2. UNCHANGED <<SeenStates, Queued, Owed, OwedViolations, Flying, Scanning, Place>>
    BY <1>1 DEF SeenStates, Queued, InFlight, Owed, OwedViolations, Found, Flying, Scanning, Place
  <1>3. /\ (IF Flying' THEN pending' ELSE NoAction) = (IF Flying THEN pending ELSE NoAction)
        /\ (IF Flying' THEN next_bundle' ELSE NoPage) = (IF Flying THEN next_bundle ELSE NoPage)
    BY <1>1, <1>2
  <1> QED  BY <1>1, <1>2, <1>3
           DEF Plain!vars, Plain!browser, Plain!store, Plain!lists, Plain!counts, Plain!locals

\* Unless it raises, a superstep is a step of the plain loop or a stutter.
LEMMA PlainStep ==
    ASSUME Types, PairsOnce, Audits, Known, [Next]_vars, ~Failure
    PROVE  [Plain!Next]_(Plain!vars)
  <1>1. CASE OpenSeed \/ OpenSeedFails
    BY <1>1, PlainOpenSeed DEF Plain!Next
  <1>2. CASE ScanFirst \/ ScanAgain
    BY <1>2, PlainScan DEF Plain!Next
  <1>3. CASE ReasonAudit \/ ReasonAgain
    BY <1>3, PlainReason
  <1>4. CASE SkipUnreplayable \/ SkipReplayFailed \/ SkipReplayDiverged
    BY <1>4, PlainReachFails DEF Plain!Next
  <1>5. CASE Execute \/ SkipActFailed
    BY <1>5, PlainReachAndAct DEF Plain!Next
  <1>6. CASE ObserveSkip \/ ObserveEdge
    BY <1>6, PlainObserve DEF Plain!Next
  <1>7. CASE Finish
    BY <1>7, PlainFinish DEF Plain!Next
  <1>8. CASE UNCHANGED vars
    BY <1>8, PlainStutters
  <1> QED  BY <1>1, <1>2, <1>3, <1>4, <1>5, <1>6, <1>7, <1>8 DEF Next, Act, Stopped

\* No superstep raises while perception and the store answer and the limit holds.
LEMMA NothingRaises ==
    ASSUME Flaky \cap {"perception", "store"} = {}, BackstopNeverFires
    PROVE  ~Failure
  <1>1. "perception" \notin Flaky /\ "store" \notin Flaky
    OBVIOUS
  <1>2. ~OutOfSteps
    BY LimitType DEF OutOfSteps, BackstopNeverFires
  <1>3. ~ScanRaises /\ ~ReasonRaises /\ ~ActRaises /\ ~ObserveRaises
    BY <1>1 DEF ScanRaises, ReasonRaises, ActRaises, ObserveRaises
  <1> QED  BY <1>2, <1>3 DEF Failure

\* Parity (README of the orchestrator: "explore.py and graph_runner.py are the
\* same loop"): while perception and the store answer and no page has more than
\* ten controls, whatever the crawler does, every behaviour of the LangGraph loop
\* is, step for step, a behaviour of the plain one.
THEOREM ImplementsPlain ==
    ASSUME Flaky \cap {"perception", "store"} = {}, SmallPages
    PROVE  Spec => Plain!Spec
  <1>1. Init => PairsOnce /\ Audits /\ Known
    <2> SUFFICES ASSUME Init PROVE PairsOnce /\ Audits /\ Known
      OBVIOUS
    <2>1. PairsOnce /\ Audits
      BY DEF Init, PairsOnce, PairsOf, Audits
    <2>2. Queued = {}
      BY DEF Init, Queued, PairsOf, InFlight
    <2> QED  BY <2>1, <2>2 DEF Init, Known
  <1>2. Types /\ PairsOnce /\ Audits /\ Known /\ [Next]_vars => (PairsOnce /\ Audits /\ Known)'
    BY PairsOnceStep, AuditsStep, KnownStep
  <1>3. Types /\ BackstopNeedsFanOut => BackstopNeverFires
    <2>1. Types => SmallFanOut
      BY SmallEnough
    <2> QED  BY <2>1 DEF BackstopNeedsFanOut
  <1>4. /\ Types /\ PairsOnce /\ Audits /\ Known /\ BackstopNeverFires /\ [Next]_vars
        => [Plain!Next]_(Plain!vars)
    BY PlainStep, NothingRaises
  <1> QED  BY <1>1, <1>2, <1>3, <1>4, PlainInit, Typed, LimitOutOfReach, PTL DEF Spec, Plain!Spec

(***************************************************************************)
(* Crashes.                                                                *)
(***************************************************************************)

-----------------------------------------------------------------------------
(* A crash.                                                                *)

\* A node that runs, until it dies.
AtCrash == pc \in {"scan", "reason", "act", "observe"}

\* The new process is well typed, if what the old one left behind is.
LEMMA RecoverTypes ==
    ASSUME Types, AtCrash, crashes \in Nat, Recover,
           app' \in Apps, fired' \in Seq(Firing), nodes' \in [DOMAIN nodes' -> Nat],
           DOMAIN nodes' \subseteq Pages, visited' \subseteq Pairs, edges' \in Seq(Edge),
           persisted' \in Seq(Pages), audited' \in Seq(Pages)
    PROVE  Types' /\ recovery' = recovery /\ crashes' = crashes + 1
  <1>1. /\ page' = NoPage /\ supersteps' = 0 /\ recovery' = recovery /\ crashes' = crashes + 1
        /\ UNCHANGED <<closed, termination_reason>>
    BY DEF Recover, Revive
  <1>2. BrowserType' /\ StoreType'
    <2>1. page' \in Pages \cup {NoPage} /\ closed' \in BOOLEAN
      BY <1>1 DEF Types, TypeOK, BrowserType
    <2>2. BrowserType'
      BY <2>1, Zenon DEF BrowserType
    <2>3. StoreType'
      BY Zenon DEF StoreType
    <2> QED  BY <2>2, <2>3
  <1>3. supersteps' \in 0..RecursionLimit
    BY <1>1, LimitType
  <1>4. CASE Restart
    <2>1. /\ pc' = "start" /\ current_bundle' = NoPage /\ current_state_id' = NoPage
          /\ current_path' = <<>> /\ depth' = 0 /\ first_visit' = FALSE
          /\ pending' = NoAction /\ next_bundle' = NoPage /\ acted' = FALSE
          /\ frontier' = <<>> /\ seen' = <<>> /\ order' = <<>>
          /\ violations' = <<>> /\ skipped' = <<>>
          /\ edge_count' = 0 /\ visited_pairs' = 0 /\ replays' = 0 /\ replay_steps' = 0
      BY <1>4 DEF Restart
    <2>2. CurrentType'
      <3>1. current_path' \in Seq(Actions) /\ depth' \in Nat
        BY <2>1
      <3>2. first_visit' \in BOOLEAN
        BY <2>1
      <3> QED  BY <2>1, <3>1, <3>2, Zenon DEF CurrentType
    <2>3. FlightType' /\ CountType'
      BY <1>3, <2>1 DEF FlightType, CountType
    <2>4. QueueType'
      BY <2>1 DEF QueueType
    <2>5. PlaceType'
      BY <1>1, <2>1 DEF Types, TypeOK, PlaceType
    <2>6. Control' /\ StateCap'
      BY <2>1, ExplorationAssumption DEF Control, StateCap
    <2> QED  BY <1>1, <1>2, <2>2, <2>3, <2>4, <2>5, <2>6 DEF Types, TypeOK
  <1>5. CASE Resume
    <2>1. UNCHANGED <<pc, current, flight, queues, counts>>
      BY <1>5 DEF Resume
    <2>2. CurrentType'
      BY <2>1 DEF Types, TypeOK, CurrentType, current
    <2>3. FlightType'
      BY <2>1 DEF Types, TypeOK, FlightType, flight
    <2>4. QueueType'
      BY <2>1 DEF Types, TypeOK, QueueType, queues
    <2>5. CountType'
      BY <1>3, <2>1 DEF Types, TypeOK, CountType, counts
    <2>6. PlaceType'
      BY <1>1, <2>1 DEF Types, TypeOK, PlaceType
    <2>7. Control' /\ StateCap'
      BY <2>1 DEF Types, Control, StateCap, current, flight, queues
    <2> QED  BY <1>1, <1>2, <2>2, <2>3, <2>4, <2>5, <2>6, <2>7 DEF Types, TypeOK
  <1> QED  BY <1>4, <1>5 DEF Recover

\* What a node may have left behind when it died: the store's nodes and claims
\* and what the browser did, each as before the node or as after it.
LEMMA CrashLeaves ==
    ASSUME Types, Crash
    PROVE  /\ AtCrash /\ Recover
           /\ app' \in Apps /\ fired' \in Seq(Firing)
           /\ \/ nodes' = nodes
              \/ /\ pc = "scan" /\ ~Scanned(current_bundle)
                 /\ nodes' = PersistState(nodes, current_bundle, depth)
           /\ nodes' \in [DOMAIN nodes' -> Nat] /\ DOMAIN nodes' \subseteq Pages
           /\ DOMAIN nodes \subseteq DOMAIN nodes'
           /\ visited' = visited \/ (pc = "act" /\ visited' = visited \cup {PairOf(Candidate)})
           /\ visited' \subseteq Pairs
           /\ \/ edges' = edges
              \/ \E e \in Edge : /\ pc = "observe" /\ acted /\ edges' = Append(edges, e)
                                 /\ e.to = next_bundle /\ PairOf(e) = PairOf(pending)
                                 /\ e.from = pending.from /\ e.action = pending.action
           /\ edges' \in Seq(Edge)
           /\ persisted' \in Seq(Pages) /\ audited' \in Seq(Pages)
  <1>0. /\ app \in Apps /\ fired \in Seq(Firing) /\ visited \subseteq Pairs
        /\ edges \in Seq(Edge) /\ persisted \in Seq(Pages) /\ audited \in Seq(Pages)
        /\ nodes \in [DOMAIN nodes -> Nat] /\ DOMAIN nodes \subseteq Pages /\ depth \in Nat
    BY DEF Types, TypeOK, BrowserType, StoreType, QueueType, CurrentType
  <1>1. CASE CrashInScan
    <2>1. /\ pc = "scan" /\ Recover /\ current_bundle \in Pages
          /\ UNCHANGED <<app, fired, visited, edges, persisted, audited>>
      BY <1>1 DEF CrashInScan, Types, Control
    <2>2. nodes' = nodes \/ (/\ ~Scanned(current_bundle)
                             /\ nodes' = PersistState(nodes, current_bundle, depth))
      BY <1>1 DEF CrashInScan
    <2>3. /\ DOMAIN PersistState(nodes, current_bundle, depth) = DOMAIN nodes \cup {current_bundle}
          /\ PersistState(nodes, current_bundle, depth)
               \in [DOMAIN nodes \cup {current_bundle} -> Nat]
      BY <1>0, PersistStateType
    <2>4. /\ nodes' \in [DOMAIN nodes' -> Nat] /\ DOMAIN nodes' \subseteq Pages
          /\ DOMAIN nodes \subseteq DOMAIN nodes'
      BY <1>0, <2>1, <2>2, <2>3
    <2> QED  BY <1>0, <2>1, <2>2, <2>4 DEF AtCrash
  <1>2. CASE CrashInReason
    <2>1. /\ pc = "reason" /\ Recover /\ current_bundle \in Pages
          /\ UNCHANGED <<app, fired, nodes, visited, edges>>
      BY <1>2 DEF CrashInReason, Types, Control
    <2>2. \/ UNCHANGED <<audited, persisted>>
          \/ /\ audited' = Append(audited, current_bundle)
             /\ persisted' \in {persisted, persisted \o Found}
      BY <1>2 DEF CrashInReason
    <2>3. /\ Append(audited, current_bundle) \in Seq(Pages)
          /\ persisted \o Found \in Seq(Pages)
      <3>1. Found \in Seq(Pages)
        BY <2>1 DEF Found
      <3> QED  BY <1>0, <2>1, <3>1
    <2>4. audited' \in Seq(Pages) /\ persisted' \in Seq(Pages)
      BY <1>0, <2>2, <2>3
    <2> QED  BY <1>0, <2>1, <2>4 DEF AtCrash
  <1>3. CASE CrashInReplay
    <2>1. pc = "act" /\ Recover /\ UNCHANGED <<app, nodes, visited, edges, persisted, audited>>
      BY <1>3 DEF CrashInReplay, store
    <2>2. Candidate.path \in Seq(Actions)
      BY <2>1, CandidateNow
    <2>3. ASSUME NEW n \in DOMAIN Candidate.path, \A i \in 0..n : Replay[i] # NoPage
          PROVE  fired \o Replayed(n) \in Seq(Firing)
      <3>1. n \in Nat /\ n <= Len(Candidate.path)
        BY <2>2, <2>3
      <3>2. Replayed(n) \in Seq(Firing)
        BY <2>1, <2>3, <3>1, ReplayedType
      <3> QED  BY <1>0, <3>2
    <2>4. fired' \in Seq(Firing)
      BY <1>0, <1>3, <2>3 DEF CrashInReplay
    <2> QED  BY <1>0, <2>1, <2>4 DEF AtCrash
  <1>4. CASE CrashInAct
    <2>1. /\ pc = "act" /\ Recover /\ visited' = visited \cup {PairOf(Candidate)}
          /\ UNCHANGED <<nodes, edges, persisted, audited>>
          /\ InPlace \/ \A i \in 0..Len(Candidate.path) : Replay[i] # NoPage
      BY <1>4 DEF CrashInAct
    <2>2. FiredBefore \in Seq(Firing)
      BY <2>1, BackType
    <2>3. PairOf(Candidate) \in Pairs
      BY <2>1, CandidateNow DEF PairOf, Pairs
    <2>4. fired' \in Seq(Firing) /\ app' \in Apps
      <3>1. CASE fired' = FiredBefore /\ app' = app
        BY <1>0, <2>2, <3>1
      <3>2. CASE /\ Target # NoPage /\ fired' = Append(FiredBefore, Fires)
                 /\ app' \in After(app, Candidate.action)
        BY <2>1, <3>2, BackFires, AfterType
      <3> QED  BY <1>4, <3>1, <3>2 DEF CrashInAct
    <2>5. visited' \subseteq Pairs
      BY <1>0, <2>1, <2>3
    <2> QED  BY <1>0, <2>1, <2>4, <2>5 DEF AtCrash
  <1>5. CASE CrashInObserve
    <2> DEFINE e == [from |-> pending.from, to |-> next_bundle,
                     action |-> pending.action, back |-> Scanned(next_bundle)]
    <2>1. /\ pc = "observe" /\ Recover
          /\ UNCHANGED <<app, fired, nodes, visited, persisted, audited>>
          /\ edges' = edges \/ (acted /\ edges' = Append(edges, e))
      BY <1>5 DEF CrashInObserve
    <2>2. ASSUME acted
          PROVE  /\ e \in Edge /\ e.to = next_bundle /\ PairOf(e) = PairOf(pending)
                 /\ e.from = pending.from /\ e.action = pending.action
      <3>1. pending \in Pending /\ next_bundle \in Pages
        BY <2>1, <2>2 DEF Types, Control
      <3>2. Scanned(next_bundle) \in BOOLEAN
        BY DEF Scanned
      <3>3. pending.from \in Pages /\ pending.action \in Actions
        BY <3>1 DEF Pending
      <3>4. e \in Edge
        BY <3>1, <3>2, <3>3 DEF Edge
      <3> QED  BY <3>4 DEF PairOf
    <2> HIDE DEF e
    <2>3. edges' \in Seq(Edge)
      BY <1>0, <2>1, <2>2
    <2> QED  BY <1>0, <2>1, <2>2, <2>3 DEF AtCrash
  <1> QED  BY <1>1, <1>2, <1>3, <1>4, <1>5 DEF Crash

LEMMA CrashTypes ==
    ASSUME Types, crashes \in Nat, Crash
    PROVE  Types' /\ recovery' = recovery /\ crashes' = crashes + 1
  BY CrashLeaves, RecoverTypes

\* Types, whatever happens.
RecoveryTypes == Types /\ recovery \in Recoveries /\ crashes \in Nat

LEMMA RecoveryTypesStep ==
    ASSUME RecoveryTypes, [RecoveryNext]_recoveryVars
    PROVE  RecoveryTypes'
  <1>1. CASE Run
    <2>1. Next /\ UNCHANGED <<recovery, crashes>>
      BY <1>1 DEF Run
    <2> QED  BY <2>1, StepTypes DEF RecoveryTypes
  <1>2. CASE Crash
    BY <1>2, CrashTypes DEF RecoveryTypes
  <1>3. CASE UNCHANGED recoveryVars
    <2>1. UNCHANGED vars /\ UNCHANGED <<recovery, crashes>>
      BY <1>3 DEF recoveryVars
    <2> QED  BY <2>1, StepTypes DEF RecoveryTypes
  <1> QED  BY <1>1, <1>2, <1>3 DEF RecoveryNext

LEMMA RecoveryTyped == RecoverySpec => []RecoveryTypes
  <1>1. RecoveryInit => RecoveryTypes
    BY InitTypes DEF RecoveryInit, RecoveryTypes
  <1> QED  BY <1>1, RecoveryTypesStep, PTL DEF RecoverySpec

-----------------------------------------------------------------------------
(* Edges that dangle.                                                      *)

Targets == {edges[i].to : i \in DOMAIN edges}
Missing == Targets \ DOMAIN nodes

\* scan is about to persist the bundle at hand.
Expected == IF pc = "scan" THEN {current_bundle} ELSE {}

\* DanglingPerCrash at every step: what scan is about to persist does not count.
Dangling ==
    /\ \A i \in DOMAIN seen : seen[i] \in DOMAIN nodes
    /\ IsFiniteSet(Missing)
    /\ pc # "raised" => Cardinality(Missing \ Expected) <= crashes

\* A set that grows by at most one.
LEMMA OneMoreAtMost ==
    ASSUME NEW S, NEW T, NEW e, IsFiniteSet(S), T \subseteq S \cup {e}, NEW n \in Nat,
           Cardinality(S) <= n
    PROVE  IsFiniteSet(T) /\ Cardinality(T) \in Nat /\ Cardinality(T) <= n + 1
  <1>0. Cardinality(S) \in Nat
    BY FS_CardinalityType
  <1>1. IsFiniteSet(S \cup {e}) /\ Cardinality(S \cup {e}) <= Cardinality(S) + 1
    <2>1. CASE e \in S
      <3>1. S \cup {e} = S
        BY <2>1
      <3> QED  BY <1>0, <3>1
    <2>2. CASE e \notin S
      <3>1. IsFiniteSet(S \cup {e}) /\ Cardinality(S \cup {e}) = Cardinality(S) + 1
        BY <2>2, FS_AddElement
      <3> QED  BY <1>0, <3>1
    <2> QED  BY <2>1, <2>2
  <1>2. IsFiniteSet(T) /\ Cardinality(T) <= Cardinality(S \cup {e})
    BY <1>1, FS_Subset
  <1>3. Cardinality(S) \in Nat /\ Cardinality(T) \in Nat /\ Cardinality(S \cup {e}) \in Nat
    BY <1>1, <1>2, FS_CardinalityType
  <1> QED  BY <1>1, <1>2, <1>3

\* ... and one that does not.
LEMMA NoMore ==
    ASSUME NEW S, NEW T, IsFiniteSet(S), T \subseteq S
    PROVE  /\ IsFiniteSet(T) /\ Cardinality(T) \in Nat /\ Cardinality(S) \in Nat
           /\ Cardinality(T) <= Cardinality(S)
  BY FS_Subset, FS_CardinalityType

\* An edge has one target.
LEMMA TargetsAppended ==
    ASSUME NEW list \in Seq(Edge), NEW e \in Edge
    PROVE  LET r == Append(list, e)
           IN  {r[i].to : i \in DOMAIN r} = {list[i].to : i \in DOMAIN list} \cup {e.to}
  <1> DEFINE r == Append(list, e)
  <1>1. /\ DOMAIN list = 1..Len(list) /\ DOMAIN r = 1..(Len(list) + 1) /\ Len(list) \in Nat
        /\ r[Len(list) + 1] = e /\ \A i \in 1..Len(list) : r[i] = list[i]
    OBVIOUS
  <1> HIDE DEF r
  <1>2. /\ \A i \in DOMAIN r : i \in DOMAIN list \/ i = Len(list) + 1
        /\ DOMAIN list \subseteq DOMAIN r /\ Len(list) + 1 \in DOMAIN r
    BY <1>1
  <1>3. {r[i].to : i \in DOMAIN r} = {list[i].to : i \in DOMAIN list} \cup {e.to}
    BY <1>1, <1>2
  <1> QED  BY <1>3 DEF r

\* Every step of the loop keeps the account of the edges that dangle.
LEMMA DanglingRun ==
    ASSUME Types, crashes \in Nat, Dangling, [Next]_vars, crashes' = crashes
    PROVE  Dangling'
  <1>0. /\ seen \in Seq(Pages) /\ edges \in Seq(Edge) /\ nodes \in [DOMAIN nodes -> Nat]
        /\ depth \in Nat
    BY DEF Types, TypeOK, QueueType, StoreType, CurrentType
  <1>g. DOMAIN nodes \subseteq DOMAIN nodes'
    BY NodesGrow
  <1>1. CASE ScanFirst
    <2>1. /\ pc = "scan" /\ pc' = "reason" /\ edges' = edges /\ current_bundle \in Pages
          /\ seen' = Append(seen, current_bundle)
          /\ nodes' = PersistState(nodes, current_bundle, depth)
      BY <1>1 DEF ScanFirst, ScanVisit, Superstep, Types, Control
    <2>2. DOMAIN nodes' = DOMAIN nodes \cup {current_bundle}
      BY <1>0, <2>1, PersistStateType
    <2>3. Missing' = Missing \ Expected /\ Expected' = {}
      BY <2>1, <2>2 DEF Missing, Targets, Expected
    <2>4. \A i \in DOMAIN seen' : seen'[i] \in DOMAIN nodes'
      <3>1. \A i \in DOMAIN seen' : (i \in DOMAIN seen /\ seen'[i] = seen[i])
                                      \/ seen'[i] = current_bundle
        BY <1>0, <2>1
      <3> QED  BY <2>2, <3>1 DEF Dangling
    <2>5. IsFiniteSet(Missing')
      BY <2>3, NoMore DEF Dangling
    <2>6. Cardinality(Missing' \ Expected') <= crashes
      <3>1. Missing' \ Expected' = Missing \ Expected
        BY <2>3
      <3> QED  BY <2>1, <3>1 DEF Dangling
    <2> QED  BY <2>4, <2>5, <2>6 DEF Dangling
  <1>2. CASE ObserveEdge
    <2> DEFINE e == [from |-> pending.from, to |-> next_bundle,
                     action |-> pending.action, back |-> Scanned(next_bundle)]
    <2>1. /\ pc = "observe" /\ pc' = "scan" /\ acted /\ current_bundle' = next_bundle
          /\ edges' = Append(edges, e) /\ UNCHANGED <<seen, nodes>>
      BY <1>2 DEF ObserveEdge, Superstep, queues
    <2>2. e \in Edge /\ e.to = next_bundle
      <3>1. pending \in Pending /\ next_bundle \in Pages
        BY <2>1 DEF Types, Control
      <3>2. Scanned(next_bundle) \in BOOLEAN
        BY DEF Scanned
      <3>3. pending.from \in Pages /\ pending.action \in Actions
        BY <3>1 DEF Pending
      <3>4. e \in Edge
        BY <3>1, <3>2, <3>3 DEF Edge
      <3> QED  BY <3>4
    <2> HIDE DEF e
    <2>3. Targets' = Targets \cup {next_bundle}
      <3> DEFINE r == Append(edges, e)
      <3>1. {r[i].to : i \in DOMAIN r} = Targets \cup {next_bundle}
        BY <1>0, <2>2, TargetsAppended DEF Targets
      <3>2. Targets' = {r[i].to : i \in DOMAIN r}
        BY <2>1 DEF Targets
      <3> QED  BY <3>1, <3>2
    <2>4. Missing' \subseteq Missing \cup {next_bundle} /\ Missing' \ Expected' \subseteq Missing
      BY <2>1, <2>3 DEF Missing, Expected
    <2>5. IsFiniteSet(Missing) /\ Cardinality(Missing) <= crashes
      <3>1. Missing \ Expected = Missing
        BY <2>1 DEF Expected
      <3> QED  BY <2>1, <3>1 DEF Dangling
    <2>6. IsFiniteSet(Missing') /\ Cardinality(Missing' \ Expected') <= crashes
      <3>1. IsFiniteSet(Missing')
        BY <2>4, <2>5, OneMoreAtMost
      <3>2. Cardinality(Missing' \ Expected') <= Cardinality(Missing)
            /\ Cardinality(Missing' \ Expected') \in Nat /\ Cardinality(Missing) \in Nat
        BY <2>4, <2>5, NoMore
      <3> QED  BY <2>5, <3>1, <3>2
    <2> QED  BY <2>1, <2>6 DEF Dangling
  <1>3. CASE Failure
    <2>1. pc' = "raised" /\ UNCHANGED <<seen, edges>>
      BY <1>3 DEF Failure, OutOfSteps, ScanRaises, ReasonRaises, ActRaises, ObserveRaises, Raise,
                  store, queues
    <2>2. Missing' \subseteq Missing
      BY <1>g, <2>1 DEF Missing, Targets
    <2>3. IsFiniteSet(Missing')
      BY <2>2, NoMore DEF Dangling
    <2> QED  BY <1>g, <2>1, <2>3 DEF Dangling
  <1>4. CASE \/ OpenSeed \/ OpenSeedFails \/ ScanAgain \/ ReasonAudit \/ ReasonAgain \/ Act
             \/ ObserveSkip \/ Finish \/ UNCHANGED vars
    <2>1. UNCHANGED <<seen, nodes, edges>>
      BY <1>4, ActOutcome
         DEF OpenSeed, OpenSeedFails, ScanAgain, ScanVisit, ReasonAudit, ReasonAgain, ReasonVisit,
             ActStep, ObserveSkip, Finish, vars, store, queues
    <2>2. Missing' = Missing
      BY <2>1 DEF Missing, Targets
    <2>3. /\ pc' # "raised" => pc # "raised"
          /\ Expected = {} \/ Expected' = Expected
             \/ (ScanAgain /\ pc = "scan" /\ Scanned(current_bundle))
      BY <1>4, ActOutcome, NextActType
         DEF OpenSeed, OpenSeedFails, ScanAgain, ScanVisit, ReasonAudit, ReasonAgain, ReasonVisit,
             ActStep, ObserveSkip, Finish, vars, Superstep, Expected, current
    <2>4. Missing' \ Expected' \subseteq Missing \ Expected
      <3>1. CASE ScanAgain /\ pc = "scan" /\ Scanned(current_bundle)
        <4>1. current_bundle \notin Missing
          BY <3>1 DEF Scanned, Dangling, Missing
        <4> QED  BY <2>2, <3>1, <4>1 DEF Expected
      <3> QED  BY <2>2, <2>3, <3>1
    <2>5. IsFiniteSet(Missing \ Expected)
      BY NoMore DEF Dangling
    <2>6. ASSUME pc' # "raised" PROVE Cardinality(Missing' \ Expected') <= crashes
      <3>1. Cardinality(Missing \ Expected) <= crashes
        BY <2>3, <2>6 DEF Dangling
      <3>2. /\ Cardinality(Missing' \ Expected') <= Cardinality(Missing \ Expected)
            /\ Cardinality(Missing' \ Expected') \in Nat
            /\ Cardinality(Missing \ Expected) \in Nat
        BY <2>4, <2>5, NoMore
      <3> QED  BY <3>1, <3>2
    <2> QED  BY <2>1, <2>2, <2>6 DEF Dangling
  <1> QED  BY <1>1, <1>2, <1>3, <1>4 DEF Next, Stopped

\* A crash leaves one more at most.
LEMMA DanglingCrash ==
    ASSUME Types, crashes \in Nat, Dangling, Crash
    PROVE  Dangling'
  <1>1. /\ AtCrash /\ Recover /\ DOMAIN nodes \subseteq DOMAIN nodes'
        /\ \/ edges' = edges
           \/ \E e \in Edge : /\ pc = "observe" /\ acted /\ edges' = Append(edges, e)
                              /\ e.to = next_bundle
        /\ edges \in Seq(Edge) /\ crashes' = crashes + 1
    BY CrashLeaves DEF Recover, Revive, Types, TypeOK, StoreType
  <1>2. PICK t : Targets' \subseteq Targets \cup {t} /\ (pc # "observe" => Targets' = Targets)
    <2>1. CASE edges' = edges
      BY <2>1 DEF Targets
    <2>2. CASE \E e \in Edge : /\ pc = "observe" /\ acted /\ edges' = Append(edges, e)
                               /\ e.to = next_bundle
      <3>1. PICK e \in Edge : pc = "observe" /\ edges' = Append(edges, e)
        BY <2>2
      <3>2. Targets' = Targets \cup {e.to}
        BY <1>1, <3>1, TargetsAppended DEF Targets
      <3> QED  BY <3>1, <3>2
    <2> QED  BY <1>1, <2>1, <2>2
  <1>3. Missing' \subseteq Missing \cup {t} /\ (pc # "observe" => Missing' \subseteq Missing)
    BY <1>1, <1>2 DEF Missing
  <1>4. IsFiniteSet(Missing) /\ Cardinality(Missing \ Expected) <= crashes
    BY <1>1 DEF Dangling, AtCrash
  <1>5. Missing' \subseteq (Missing \ Expected) \cup {IF pc = "scan" THEN current_bundle ELSE t}
    BY <1>3 DEF Expected
  <1>6. /\ IsFiniteSet(Missing') /\ Cardinality(Missing') \in Nat
        /\ Cardinality(Missing') <= crashes + 1
    <2>1. IsFiniteSet(Missing \ Expected)
      BY <1>4, NoMore
    <2> QED  BY <1>4, <1>5, <2>1, OneMoreAtMost
  <1>7. Cardinality(Missing' \ Expected') <= crashes'
    <2>1. /\ Cardinality(Missing' \ Expected') <= Cardinality(Missing')
          /\ Cardinality(Missing' \ Expected') \in Nat
      BY <1>6, NoMore
    <2> QED  BY <1>1, <1>6, <2>1
  <1>8. \A i \in DOMAIN seen' : seen'[i] \in DOMAIN nodes'
    <2>1. seen' = seen \/ seen' = <<>>
      BY <1>1 DEF Recover, Restart, Resume, queues
    <2> QED  BY <1>1, <2>1 DEF Dangling
  <1> QED  BY <1>6, <1>7, <1>8 DEF Dangling

\* However a run fails, dies and is brought back, an edge whose target was never
\* persisted is the trace of a crash between observe and scan, and a crash leaves
\* at most one (persist_edge, then persist_state, graph_runner.py 142-187, 296-324).
THEOREM DanglingIsBounded == RecoverySpec => []DanglingPerCrash
  <1>1. RecoveryInit => Dangling
    <2> SUFFICES ASSUME RecoveryInit PROVE Dangling
      OBVIOUS
    <2>1. edges = <<>> /\ seen = <<>> /\ crashes = 0
      BY DEF RecoveryInit, Init
    <2>2. Missing = {} /\ Missing \ Expected = {}
      BY <2>1 DEF Missing, Targets
    <2> QED  BY <2>1, <2>2, FS_EmptySet DEF Dangling
  <1>2. RecoveryTypes /\ Dangling /\ [RecoveryNext]_recoveryVars => Dangling'
    <2>1. ASSUME RecoveryTypes, Dangling, Run PROVE Dangling'
      BY <2>1, DanglingRun DEF RecoveryTypes, Run
    <2>2. ASSUME RecoveryTypes, Dangling, Crash PROVE Dangling'
      BY <2>2, DanglingCrash DEF RecoveryTypes
    <2>3. ASSUME RecoveryTypes, Dangling, UNCHANGED recoveryVars PROVE Dangling'
      BY <2>3, DanglingRun DEF RecoveryTypes, recoveryVars
    <2> QED  BY <2>1, <2>2, <2>3 DEF RecoveryNext
  <1>3. Dangling => DanglingPerCrash
    <2> SUFFICES ASSUME Dangling, pc = "done" PROVE Cardinality(Targets \ DOMAIN nodes) <= crashes
      BY DEF DanglingPerCrash, Targets
    <2>1. Missing \ Expected = Targets \ DOMAIN nodes
      BY DEF Missing, Expected
    <2> QED  BY <2>1 DEF Dangling
  <1> QED  BY <1>1, <1>2, <1>3, RecoveryTyped, PTL DEF RecoverySpec

-----------------------------------------------------------------------------
(* The way back to a candidate.                                            *)

\* On version v the path leads from the seed to s, by pairs of a set.
Route(v, path, s, known) ==
    \E w \in [0..Len(path) -> Pages] :
      /\ w[0] = Open(v, Seed) /\ w[Len(path)] = s
      /\ \A i \in 1..Len(path) : /\ w[i] = Dest(v, w[i - 1], path[i])
                                 /\ <<w[i - 1], path[i]>> \in known

LEMMA RouteStart ==
    ASSUME NEW v, NEW known, Open(v, Seed) \in Pages
    PROVE  Route(v, <<>>, Open(v, Seed), known)
  <1> DEFINE w == [i \in 0..0 |-> Open(v, Seed)]
  <1>1. w \in [0..0 -> Pages] /\ w[0] = Open(v, Seed)
    OBVIOUS
  <1>2. Len(<<>>) = 0 /\ 1..0 = {}
    OBVIOUS
  <1> HIDE DEF w
  <1> QED  BY <1>1, <1>2 DEF Route

LEMMA RouteMore ==
    ASSUME NEW v, NEW path, NEW s, NEW known, NEW more, known \subseteq more,
           Route(v, path, s, known)
    PROVE  Route(v, path, s, more)
  BY DEF Route

\* A route goes on with a known pair.
LEMMA RouteLonger ==
    ASSUME NEW v, NEW path \in Seq(Actions), NEW s, NEW known, NEW a \in Actions,
           Route(v, path, s, known), Dest(v, s, a) \in Pages, <<s, a>> \in known
    PROVE  Route(v, Append(path, a), Dest(v, s, a), known)
  <1> DEFINE n == Len(path)
             d == Dest(v, s, a)
             r == Append(path, a)
  <1>1. /\ n \in Nat /\ Len(r) = n + 1 /\ r[n + 1] = a
        /\ \A i \in 1..n : r[i] = path[i]
    OBVIOUS
  <1>2. PICK w \in [0..n -> Pages] :
          /\ w[0] = Open(v, Seed) /\ w[n] = s
          /\ \A i \in 1..n : w[i] = Dest(v, w[i - 1], path[i]) /\ <<w[i - 1], path[i]>> \in known
    BY DEF Route
  <1> DEFINE u == [i \in 0..(n + 1) |-> IF i <= n THEN w[i] ELSE d]
  <1>3. d \in Pages
    OBVIOUS
  <1> HIDE DEF n, d, r
  <1>4. u \in [0..(n + 1) -> Pages]
    BY <1>1, <1>2, <1>3
  <1>5. u[n + 1] = d /\ \A i \in 0..n : u[i] = w[i]
    BY <1>1
  <1> HIDE DEF u
  <1>6. \A i \in 1..(n + 1) : /\ u[i] = Dest(v, u[i - 1], r[i])
                              /\ <<u[i - 1], r[i]>> \in known
    <2> SUFFICES ASSUME NEW i \in 1..(n + 1)
                 PROVE  u[i] = Dest(v, u[i - 1], r[i]) /\ <<u[i - 1], r[i]>> \in known
      OBVIOUS
    <2>1. CASE i \in 1..n
      <3>1. i - 1 \in 0..n /\ i \in 0..n
        BY <1>1, <2>1
      <3> QED  BY <1>1, <1>2, <1>5, <2>1, <3>1
    <2>2. CASE i = n + 1
      <3>1. u[i - 1] = s /\ u[i] = d /\ r[i] = a
        <4>1. i - 1 = n /\ n \in 0..n
          BY <1>1, <2>2
        <4> QED  BY <1>1, <1>2, <1>5, <2>2, <4>1
      <3> QED  BY <3>1 DEF d
    <2> QED  BY <1>1, <2>1, <2>2
  <1>7. u[0] = Open(v, Seed)
    BY <1>1, <1>2, <1>5
  <1>8. Route(v, r, d, known)
    BY <1>1, <1>4, <1>5, <1>6, <1>7 DEF Route
  <1> QED  BY <1>8 DEF d, r

\* A replay follows the route: it raises nowhere, it ends where the route
\* does, and does nothing that is not known.
LEMMA RouteWalk ==
    ASSUME NEW v, IsApp(v), NEW path \in Seq(Actions), NEW s, NEW known, Route(v, path, s, known)
    PROVE  LET at == Walk(v, Seed, path)
           IN  /\ \A i \in 0..Len(path) : at[i] \in Pages
               /\ at[Len(path)] = s
               /\ \A i \in 1..Len(path) : <<at[i - 1], path[i]>> \in known
  <1> DEFINE n == Len(path)
             at == Walk(v, Seed, path)
  <1>1. n \in Nat
    OBVIOUS
  <1>2. PICK w \in [0..n -> Pages] :
          /\ w[0] = Open(v, Seed) /\ w[n] = s
          /\ \A i \in 1..n : w[i] = Dest(v, w[i - 1], path[i]) /\ <<w[i - 1], path[i]>> \in known
    BY DEF Route
  <1>3. at = [i \in 0..n |-> IF i = 0 THEN Open(v, Seed)
                             ELSE IF at[i - 1] = NoPage THEN NoPage
                                  ELSE Dest(v, at[i - 1], path[i])]
    BY WalkDef
  <1> HIDE DEF n, at
  <1> DEFINE S == {k \in Nat : k <= n => at[k] = w[k]}
  <1>4. 0 \in S
    BY <1>1, <1>2, <1>3
  <1>5. ASSUME NEW k \in S PROVE k + 1 \in S
    <2>1. CASE k + 1 <= n
      <3>1. k \in Nat /\ k <= n /\ k + 1 \in 1..n /\ k + 1 \in 0..n /\ (k + 1) - 1 = k /\ k + 1 # 0
        BY <1>1, <2>1
      <3>2. at[k] = w[k] /\ w[k] \in Pages
        BY <1>2, <3>1
      <3>3. at[k] # NoPage
        BY <3>2, CrawlerAssumption
      <3>4. at[k + 1] = Dest(v, at[k], path[k + 1])
        BY <1>3, <3>1, <3>3
      <3>5. at[k + 1] = w[k + 1]
        BY <1>2, <3>1, <3>2, <3>4
      <3> QED  BY <3>1, <3>5
    <2>2. CASE ~(k + 1 <= n)
      BY <2>2
    <2> QED  BY <2>1, <2>2
  <1>6. S = Nat
    <2>1. S \in SUBSET Nat
      OBVIOUS
    <2> HIDE DEF S
    <2> QED  BY <1>4, <1>5, <2>1, InductionOnNat
  <1>7. \A i \in 0..n : at[i] = w[i]
    BY <1>1, <1>6
  <1>8. \A i \in 0..n : at[i] \in Pages
    BY <1>2, <1>7
  <1>9. at[n] = s
    BY <1>1, <1>2, <1>7
  <1>10. \A i \in 1..n : <<at[i - 1], path[i]>> \in known
    <2> SUFFICES ASSUME NEW i \in 1..n PROVE <<at[i - 1], path[i]>> \in known
      OBVIOUS
    <2>1. i - 1 \in 0..n
      BY <1>1
    <2> QED  BY <1>2, <1>7, <2>1
  <1> QED  BY <1>8, <1>9, <1>10 DEF n, at

-----------------------------------------------------------------------------
(* While the browser does what it is told.                                 *)

\* No call to the browser raises by itself, and side effects leave the
\* application as it is.
Obedient == Flaky \cap {"open", "act", "late"} = {} /\ ~Mutable

\* Every path in the frontier and at hand is a way back by recorded edges.
Mapped ==
    /\ pc = "start" => current_path = <<>>
    /\ \A i \in DOMAIN frontier :
         Route(app, frontier[i].path, frontier[i].from, PairsOf(edges))
    /\ pc = "scan" => Route(app, current_path, current_bundle, PairsOf(edges))
    /\ pc = "observe" /\ acted =>
         /\ Route(app, pending.path, pending.from, PairsOf(edges))
         /\ next_bundle = Dest(app, pending.from, pending.action)

\* The browser is where the loop believes it to be, or it is a new one.
Whereabouts ==
    /\ pc = "scan" => page \in {current_bundle, NoPage}
    /\ pc \in {"reason", "act", "end"} => page \in {current_state_id, NoPage}
    /\ pc = "observe" => page \in {IF acted THEN next_bundle ELSE current_state_id, NoPage}

\* The candidate can be reached.
LEMMA ReplayArrives ==
    ASSUME Types, Mapped, pc = "act"
    PROVE  /\ \A i \in 0..Len(Candidate.path) : Replay[i] \in Pages /\ Replay[i] # NoPage
           /\ Landed = Candidate.from
           /\ \A i \in 1..Len(Candidate.path) :
                <<Replay[i - 1], Candidate.path[i]>> \in PairsOf(edges)
  <1>1. /\ frontier \in Seq(Pending) /\ frontier # <<>> /\ frontier[1] = Candidate
        /\ Candidate.path \in Seq(Actions)
    BY CandidateNow
  <1>2. 1 \in DOMAIN frontier
    BY <1>1
  <1>3. Route(app, Candidate.path, Candidate.from, PairsOf(edges))
    BY <1>1, <1>2 DEF Mapped
  <1>4. /\ \A i \in 0..Len(Candidate.path) : Replay[i] \in Pages
        /\ Replay[Len(Candidate.path)] = Candidate.from
        /\ \A i \in 1..Len(Candidate.path) :
             <<Replay[i - 1], Candidate.path[i]>> \in PairsOf(edges)
    BY <1>1, <1>3, AppType, RouteWalk DEF Replay
  <1> QED  BY <1>4, CrawlerAssumption DEF Landed

\* No replay fails, and none diverges.
LEMMA ReplaysSucceed ==
    ASSUME Types, Mapped, Obedient
    PROVE  ~SkipReplayFailed /\ ~SkipReplayDiverged
  <1>1. ASSUME SkipReplayFailed PROVE FALSE
    <2>1. pc = "act"
      BY <1>1 DEF SkipReplayFailed, ActStep, Superstep
    <2>2. PICK k \in 0..Len(Candidate.path), moved \in BOOLEAN :
            Raises(IF k = 0 THEN "open" ELSE "act", Replay[k], moved)
      BY <1>1 DEF SkipReplayFailed
    <2>3. Replay[k] # NoPage
      BY <2>1, ReplayArrives
    <2> QED  BY <2>2, <2>3 DEF Raises, Obedient
  <1>2. ASSUME SkipReplayDiverged PROVE FALSE
    <2>1. pc = "act" /\ Landed # Candidate.from
      BY <1>2 DEF SkipReplayDiverged, ActStep, Superstep
    <2> QED  BY <2>1, ReplayArrives
  <1> QED  BY <1>1, <1>2

\* The application stays as it is.
LEMMA AppStays ==
    ASSUME Obedient, [Next]_vars
    PROVE  app' = app
  BY DEF Obedient, Next, vars, browser, OpenSeed, OpenSeedFails, ScanFirst, ScanAgain, ScanVisit,
         ReasonAudit, ReasonAgain, ReasonVisit, Act, SkipUnreplayable, SkipReplayFailed,
         SkipReplayDiverged, SkipActFailed, Execute, ObserveEdge, ObserveSkip, Finish,
         Failure, OutOfSteps, ScanRaises, ReasonRaises, ActRaises, ObserveRaises, Raise,
         Stopped, After

\* The paths in the frontier, for any frontier and any edges.
Ways(v, queue, known) ==
    \A i \in DOMAIN queue : Route(v, queue[i].path, queue[i].from, known)

LEMMA WaysMore ==
    ASSUME NEW v, NEW queue, NEW known, NEW more, known \subseteq more, Ways(v, queue, known)
    PROVE  Ways(v, queue, more)
  BY RouteMore DEF Ways

\* The records of edges are only ever added to.
LEMMA EdgesGrow ==
    ASSUME NEW list \in Seq(Edge), NEW e \in Edge
    PROVE  PairsOf(list) \subseteq PairsOf(Append(list, e)) /\ PairOf(e) \in PairsOf(Append(list, e))
  BY PairsAppended

\* On the candidate's state: where the browser is, if it does anything there.
LEMMA TargetOfCandidate ==
    ASSUME Types, Mapped, Whereabouts, pc = "act",
           InPlace \/ Landed = Candidate.from
    PROVE  /\ Here \in {Candidate.from, NoPage}
           /\ Target # NoPage => /\ Here = Candidate.from
                                 /\ Target = Dest(app, Candidate.from, Candidate.action)
  <1>1. Here \in {Candidate.from, NoPage}
    BY DEF Here, Whereabouts, InPlace
  <1>2. Here = NoPage => Target = NoPage
    <2>1. NoPage \notin DOMAIN app
      BY AppType, CrawlerAssumption
    <2> QED  BY <2>1, AppType, DestType DEF Target
  <1> QED  BY <1>1, <1>2 DEF Target

\* scan puts on the frontier what the path at hand leads to.
LEMMA ScanMapped ==
    ASSUME Types, Mapped, ScanFirst
    PROVE  Ways(app, frontier', PairsOf(edges))
  <1>0. pc = "scan" /\ frontier \in Seq(Pending)
    BY DEF ScanFirst, ScanVisit, Superstep, Types, TypeOK, QueueType
  <1>1. CASE frontier' = frontier
    BY <1>1 DEF Mapped, Ways
  <1>2. CASE Grown(frontier, visited, current_bundle, Enumerate(app, current_bundle), depth + 1,
                   current_path, Len(Enumerate(app, current_bundle)), frontier')
    <2>1. /\ frontier' \in Seq(Pending) /\ Len(frontier) <= Len(frontier')
          /\ \A k \in 1..Len(frontier) : frontier'[k] = frontier[k]
          /\ \A k \in (Len(frontier) + 1)..Len(frontier') :
               frontier'[k].from = current_bundle /\ frontier'[k].path = current_path
      BY <1>2 DEF Grown
    <2>2. /\ DOMAIN frontier = 1..Len(frontier) /\ DOMAIN frontier' = 1..Len(frontier')
          /\ Len(frontier) \in Nat /\ Len(frontier') \in Nat
      BY <1>0, <2>1
    <2>3. \A k \in 1..Len(frontier') :
            k \in 1..Len(frontier) \/ k \in (Len(frontier) + 1)..Len(frontier')
      BY <2>2
    <2>4. Route(app, current_path, current_bundle, PairsOf(edges))
      BY <1>0 DEF Mapped
    <2>5. \A k \in 1..Len(frontier) :
            Route(app, frontier[k].path, frontier[k].from, PairsOf(edges))
      BY <2>2 DEF Mapped
    <2> QED  BY <2>1, <2>2, <2>3, <2>4, <2>5 DEF Ways
  <1> QED  BY <1>1, <1>2, ScanFrontier

\* observe records the edge the path goes on with.
LEMMA EdgeMapped ==
    ASSUME Types, Mapped, ObserveEdge
    PROVE  /\ PairsOf(edges) \subseteq PairsOf(edges') /\ PairOf(pending) \in PairsOf(edges')
           /\ Route(app, current_path', current_bundle', PairsOf(edges'))
  <1> DEFINE e == [from |-> pending.from, to |-> next_bundle,
                   action |-> pending.action, back |-> Scanned(next_bundle)]
  <1>1. /\ pc = "observe" /\ acted /\ current_bundle' = next_bundle
        /\ edges' = Append(edges, e)
        /\ current_path' = Append(pending.path, pending.action)
    BY DEF ObserveEdge, Superstep
  <1>2. pending \in Pending /\ next_bundle \in Pages /\ edges \in Seq(Edge)
    BY <1>1 DEF Types, Control, TypeOK, StoreType
  <1>3. pending.from \in Pages /\ pending.action \in Actions /\ pending.path \in Seq(Actions)
    BY <1>2 DEF Pending
  <1>4. e \in Edge /\ PairOf(e) = PairOf(pending)
    <2>1. Scanned(next_bundle) \in BOOLEAN
      BY DEF Scanned
    <2>2. e \in Edge
      BY <1>2, <1>3, <2>1 DEF Edge
    <2> QED  BY <2>2 DEF PairOf
  <1> HIDE DEF e
  <1>5. PairsOf(edges) \subseteq PairsOf(edges') /\ PairOf(pending) \in PairsOf(edges')
    BY <1>1, <1>2, <1>4, EdgesGrow
  <1>6. /\ Route(app, pending.path, pending.from, PairsOf(edges))
        /\ next_bundle = Dest(app, pending.from, pending.action)
    BY <1>1 DEF Mapped
  <1>7. Route(app, pending.path, pending.from, PairsOf(edges'))
    BY <1>5, <1>6, RouteMore
  <1>8. <<pending.from, pending.action>> \in PairsOf(edges')
    BY <1>5 DEF PairOf
  <1>9. Route(app, Append(pending.path, pending.action),
              Dest(app, pending.from, pending.action), PairsOf(edges'))
    BY <1>2, <1>3, <1>6, <1>7, <1>8, RouteLonger
  <1> QED  BY <1>1, <1>5, <1>6, <1>9

\* Every step keeps the ways back.
LEMMA MappedStep ==
    ASSUME Types, Obedient, Mapped, Whereabouts, [Next]_vars
    PROVE  Mapped'
  <1>0. app' = app
    BY AppStays
  <1>1. CASE OpenSeed \/ OpenSeedFails
    <2>1. /\ pc = "start" /\ UNCHANGED <<frontier, edges, current_path>>
          /\ \/ pc' = "scan" /\ current_bundle' = Seed /\ Open(app, Seed) # NoPage
             \/ pc' = "done"
      BY <1>1 DEF OpenSeed, OpenSeedFails, store, queues, current
    <2>2. Open(app, Seed) # NoPage => Open(app, Seed) = Seed /\ Seed \in Pages
      BY ExplorationAssumption DEF Open
    <2>3. Open(app, Seed) # NoPage => Route(app, <<>>, Open(app, Seed), PairsOf(edges))
      BY <2>2, RouteStart
    <2> QED  BY <1>0, <2>1, <2>2, <2>3 DEF Mapped
  <1>2. CASE ScanFirst
    <2>1. pc' = "reason" /\ edges' = edges
      BY <1>2 DEF ScanFirst, ScanVisit
    <2>2. Ways(app, frontier', PairsOf(edges))
      BY <1>2, ScanMapped
    <2> QED  BY <1>0, <2>1, <2>2 DEF Mapped, Ways
  <1>3. CASE Act
    <2>1. /\ pc = "act" /\ pc' = "observe" /\ edges' = edges /\ pending' = Candidate
          /\ frontier' = Tail(frontier) /\ frontier \in Seq(Pending) /\ frontier # <<>>
          /\ frontier[1] = Candidate
      BY <1>3, ActOutcome, CandidateNow DEF ActStep, Superstep
    <2>2. Ways(app, frontier', PairsOf(edges))
      <3>1. \A i \in DOMAIN Tail(frontier) : /\ i + 1 \in DOMAIN frontier
                                             /\ Tail(frontier)[i] = frontier[i + 1]
        BY <2>1
      <3> QED  BY <2>1, <3>1 DEF Mapped, Ways
    <2>3. Route(app, Candidate.path, Candidate.from, PairsOf(edges))
      <3>1. 1 \in DOMAIN frontier
        BY <2>1
      <3> QED  BY <2>1, <3>1 DEF Mapped
    <2>4. acted' => next_bundle' = Dest(app, Candidate.from, Candidate.action)
      <3>1. CASE Execute
        <4>1. Target # NoPage /\ next_bundle' = Target /\ (InPlace \/ Landed = Candidate.from)
          BY <3>1 DEF Execute, Arrived
        <4> QED  BY <2>1, <4>1, TargetOfCandidate
      <3>2. Execute \/ ~acted'
        BY <1>3 DEF Act, SkipUnreplayable, SkipReplayFailed, SkipReplayDiverged, SkipActFailed,
                    Skip
      <3> QED  BY <3>1, <3>2
    <2> QED  BY <1>0, <2>1, <2>2, <2>3, <2>4 DEF Mapped, Ways
  <1>4. CASE ObserveEdge
    <2>1. pc' = "scan" /\ frontier' = frontier
      BY <1>4 DEF ObserveEdge, queues
    <2>2. /\ PairsOf(edges) \subseteq PairsOf(edges')
          /\ Route(app, current_path', current_bundle', PairsOf(edges'))
      BY <1>4, EdgeMapped
    <2>3. Ways(app, frontier, PairsOf(edges'))
      <3>1. Ways(app, frontier, PairsOf(edges))
        BY DEF Mapped, Ways
      <3> QED  BY <2>2, <3>1, WaysMore
    <2> QED  BY <1>0, <2>1, <2>2, <2>3 DEF Mapped, Ways
  <1>5. CASE ScanAgain \/ ReasonAudit \/ ReasonAgain \/ ObserveSkip \/ Finish \/ Failure
    <2>1. pc' \in {"reason", "act", "end", "done", "raised"} /\ UNCHANGED <<frontier, edges>>
      BY <1>5, NextActType DEF ScanAgain, ScanVisit, ReasonAudit, ReasonAgain, ReasonVisit,
            ObserveSkip, Finish, Failure, OutOfSteps, ScanRaises, ReasonRaises, ActRaises,
            ObserveRaises, Raise, store, queues
    <2> QED  BY <1>0, <2>1 DEF Mapped
  <1>6. CASE UNCHANGED vars
    <2>1. UNCHANGED <<app, frontier, edges, pc, current_path, current_bundle, acted, pending,
                      next_bundle>>
      BY <1>6 DEF vars, browser, store, current, flight, queues
    <2> QED  BY <2>1 DEF Mapped
  <1> QED  BY <1>1, <1>2, <1>3, <1>4, <1>5, <1>6 DEF Next, Stopped

\* ... and where the browser is.
LEMMA WhereaboutsStep ==
    ASSUME Types, Obedient, Mapped, Whereabouts, [Next]_vars
    PROVE  Whereabouts'
  <1>1. CASE OpenSeed \/ OpenSeedFails
    <2>1. (pc' = "scan" /\ page' = current_bundle') \/ pc' = "done"
      BY <1>1 DEF OpenSeed, OpenSeedFails
    <2> QED  BY <2>1 DEF Whereabouts
  <1>2. CASE ScanFirst \/ ScanAgain
    <2>1. pc = "scan" /\ pc' = "reason" /\ page' = page /\ current_state_id' = current_bundle
      BY <1>2 DEF ScanFirst, ScanAgain, ScanVisit, Superstep, browser
    <2> QED  BY <2>1 DEF Whereabouts
  <1>3. CASE ReasonAudit \/ ReasonAgain
    <2>1. /\ pc = "reason" /\ pc' \in {"act", "end"} /\ page' = page
          /\ current_state_id' = current_state_id
      BY <1>3, NextActType DEF ReasonAudit, ReasonAgain, ReasonVisit, Superstep, browser, current
    <2> QED  BY <2>1 DEF Whereabouts
  <1>4. CASE Execute
    <2>1. pc' = "observe" /\ acted' /\ page' = Target /\ next_bundle' = Target
      BY <1>4 DEF Execute, ActStep
    <2> QED  BY <2>1 DEF Whereabouts
  <1>5. CASE SkipActFailed
    <2>1. /\ pc = "act" /\ pc' = "observe" /\ ~acted' /\ Arrived
      BY <1>5 DEF SkipActFailed, ActStep, Superstep, Skip
    <2>2. page' = Here
      <3>1. PICK moved \in BOOLEAN :
              Raises("act", Target, moved) /\ page' = IF moved THEN Target ELSE Here
        BY <1>5 DEF SkipActFailed
      <3> QED  BY <3>1 DEF Raises, Obedient
    <2>3. Here \in {current_state_id', NoPage}
      BY <2>1 DEF Arrived, ReplayCompletes, Here, Whereabouts
    <2> QED  BY <2>1, <2>2, <2>3 DEF Whereabouts
  <1>6. CASE SkipUnreplayable
    <2>1. /\ pc = "act" /\ pc' = "observe" /\ ~acted' /\ UNCHANGED <<page, current_state_id>>
      BY <1>6 DEF SkipUnreplayable, ActStep, Superstep, Skip
    <2> QED  BY <2>1 DEF Whereabouts
  <1>7. CASE ObserveEdge
    <2>1. /\ pc = "observe" /\ acted /\ pc' = "scan" /\ current_bundle' = next_bundle
          /\ page' = page
      BY <1>7 DEF ObserveEdge, Superstep, browser
    <2> QED  BY <2>1 DEF Whereabouts
  <1>8. CASE ObserveSkip
    <2>1. /\ pc = "observe" /\ ~acted /\ pc' \in {"act", "end"} /\ page' = page
          /\ current_state_id' = current_state_id
      BY <1>8, NextActType DEF ObserveSkip, Superstep, browser, current
    <2> QED  BY <2>1 DEF Whereabouts
  <1>9. CASE Finish \/ Failure
    <2>1. pc' \in {"done", "raised"}
      BY <1>9 DEF Finish, Failure, OutOfSteps, ScanRaises, ReasonRaises, ActRaises,
                  ObserveRaises, Raise
    <2> QED  BY <2>1 DEF Whereabouts
  <1>10. CASE UNCHANGED vars
    BY <1>10 DEF vars, browser, current, flight, Whereabouts
  <1> QED  BY <1>1, <1>2, <1>3, <1>4, <1>5, <1>6, <1>7, <1>8, <1>9, <1>10, ReplaysSucceed
           DEF Next, Act, Stopped

\* A crash keeps both: the application and the edges outlive it, and the path
\* and the frontier either do or start again.
LEMMA CrashMapped ==
    ASSUME Types, Obedient, Mapped, Crash
    PROVE  Mapped' /\ Whereabouts' /\ app' = app
  <1>1. /\ Recover /\ page' = NoPage /\ edges \in Seq(Edge)
        /\ edges' = edges \/ \E e \in Edge : edges' = Append(edges, e)
    BY CrashLeaves DEF Recover, Revive, Types, TypeOK, StoreType
  <1>2. app' = app
    BY DEF Crash, CrashInScan, CrashInReason, CrashInReplay, CrashInAct, CrashInObserve, After,
           Obedient
  <1>3. PairsOf(edges) \subseteq PairsOf(edges')
    BY <1>1, EdgesGrow
  <1>4. Whereabouts'
    BY <1>1 DEF Whereabouts
  <1>5. CASE Restart
    <2>1. frontier' = <<>> /\ pc' = "start" /\ current_path' = <<>>
      BY <1>5 DEF Restart
    <2>2. DOMAIN frontier' = {}
      BY <2>1
    <2> QED  BY <1>2, <1>4, <2>1, <2>2 DEF Mapped
  <1>6. CASE Resume
    <2>1. UNCHANGED <<frontier, pc, current_path, current_bundle, acted, pending, next_bundle>>
      BY <1>6 DEF Resume, current, flight, queues
    <2>2. Ways(app, frontier, PairsOf(edges'))
      <3>1. Ways(app, frontier, PairsOf(edges))
        BY DEF Mapped, Ways
      <3> QED  BY <1>3, <3>1, WaysMore
    <2>3. /\ pc = "scan" => Route(app, current_path, current_bundle, PairsOf(edges'))
          /\ pc = "observe" /\ acted =>
               /\ Route(app, pending.path, pending.from, PairsOf(edges'))
               /\ next_bundle = Dest(app, pending.from, pending.action)
      BY <1>3, RouteMore DEF Mapped
    <2> QED  BY <1>2, <1>4, <2>1, <2>2, <2>3 DEF Mapped, Ways
  <1> QED  BY <1>1, <1>2, <1>4, <1>5, <1>6 DEF Recover

-----------------------------------------------------------------------------
(* Restarts.                                                               *)

\* Where the loop and the browser are, whatever the way to go on.
Bearings == RecoveryTypes /\ Mapped /\ Whereabouts

LEMMA BearingsInit == RecoveryInit => Bearings
  <1> SUFFICES ASSUME RecoveryInit PROVE Bearings
    OBVIOUS
  <1>1. Types /\ recovery \in Recoveries /\ crashes \in Nat
    BY InitTypes DEF RecoveryInit
  <1>2. pc = "start" /\ current_path = <<>> /\ frontier = <<>>
    BY DEF RecoveryInit, Init
  <1>3. DOMAIN frontier = {}
    BY <1>2
  <1> QED  BY <1>1, <1>2, <1>3 DEF Bearings, RecoveryTypes, Mapped, Whereabouts

LEMMA BearingsStep ==
    ASSUME Obedient, Bearings, [RecoveryNext]_recoveryVars
    PROVE  Bearings'
  <1>1. RecoveryTypes'
    BY RecoveryTypesStep DEF Bearings
  <1>2. ASSUME [Next]_vars PROVE Mapped' /\ Whereabouts'
    BY <1>2, MappedStep, WhereaboutsStep DEF Bearings, RecoveryTypes
  <1>3. ASSUME Crash PROVE Mapped' /\ Whereabouts'
    BY <1>3, CrashMapped DEF Bearings, RecoveryTypes
  <1>4. [Next]_vars \/ Crash
    BY DEF RecoveryNext, Run, recoveryVars
  <1> QED  BY <1>1, <1>2, <1>3, <1>4 DEF Bearings

\* A step of the loop: no replay fails, so the loop stays sound.
LEMMA SoundRun ==
    ASSUME Types, Obedient, Mapped, PairsOnce, Sound, [Next]_vars
    PROVE  Sound'
  <1>1. CASE Execute
    BY <1>1, ExecuteSound
  <1>2. CASE SkipActFailed
    BY <1>2, ActFailedSound DEF Obedient
  <1>3. CASE SkipUnreplayable
    BY <1>3, SkipSound
  <1>4. CASE ObserveEdge
    BY <1>4, ObserveEdgeSound
  <1>5. CASE Failure
    BY <1>5, FailureSound
  <1>6. CASE OpenSeed \/ OpenSeedFails \/ ScanFirst \/ ScanAgain \/ ReasonAudit
               \/ ReasonAgain \/ ObserveSkip \/ Finish \/ UNCHANGED vars
    BY <1>6, RestSound
  <1> QED  BY <1>1, <1>2, <1>3, <1>4, <1>5, <1>6, ReplaysSucceed DEF Next, Act, Stopped

\* The candidate was not claimed.
LEMMA Unclaimed ==
    ASSUME Types, PairsOnce, pc = "act"
    PROVE  PairOf(Candidate) \notin visited
  <1>1. frontier \in Seq(Pending) /\ frontier # <<>> /\ frontier[1] = Candidate
    BY CandidateNow
  <1>2. 1 \in DOMAIN frontier
    BY <1>1
  <1> QED  BY <1>1, <1>2 DEF PairsOnce, PairsOf

\* The process dies in act, somewhere after the claim.
LEMMA CrashInActTold ==
    ASSUME Types, Sound, PairsOnce, CrashInAct
    PROVE  Told(fired', edges') /\ Once(fired', visited')
  <1>1. /\ pc = "act" /\ edges' = edges /\ visited' = visited \cup {PairOf(Candidate)}
        /\ InPlace \/ (/\ Replayable(Candidate.path)
                       /\ \A i \in 0..Len(Candidate.path) : Replay[i] # NoPage
                       /\ Landed = Candidate.from)
    BY DEF CrashInAct
  <1>2. /\ Told(FiredBefore, edges) /\ Once(FiredBefore, visited)
        /\ Once(FiredBefore, visited')
    <2>1. visited \subseteq visited'
      BY <1>1
    <2> QED  BY <1>1, <2>1, BeforeTold DEF Sound
  <1>3. CASE fired' = FiredBefore
    BY <1>1, <1>2, <1>3
  <1>4. CASE Target # NoPage /\ fired' = Append(FiredBefore, Fires)
    <2>1. FiredBefore \in Seq(Firing) /\ Fires \in Firing
      BY <1>1, <1>4, BackFires
    <2>2. PairOf(Fires) = PairOf(Candidate)
      <3>1. Here = Candidate.from
        BY <1>1 DEF Sound, Here, InPlace
      <3> QED  BY <3>1 DEF Fires, PairOf
    <2>3. Once(Append(FiredBefore, Fires), visited \cup {PairOf(Fires)})
      <3>1. PairOf(Fires) \notin visited
        BY <1>1, <2>2, Unclaimed
      <3> QED  BY <1>2, <2>1, <3>1, OnceMore
    <2>4. Told(Append(FiredBefore, Fires), edges)
      <3>1. Append(FiredBefore, Fires) = FiredBefore \o <<Fires>> /\ <<Fires>> \in Seq(Firing)
        BY <2>1
      <3>2. Told(FiredBefore \o <<Fires>>, edges)
        BY <1>2, <2>1, <3>1, ToldMore
      <3> QED  BY <3>1, <3>2
    <2> QED  BY <1>1, <1>4, <2>2, <2>3, <2>4
  <1>5. fired' = FiredBefore \/ (Target # NoPage /\ fired' = Append(FiredBefore, Fires))
    BY DEF CrashInAct
  <1> QED  BY <1>3, <1>4, <1>5

\* Wherever it dies, what it leaves behind is told and claimed.
LEMMA CrashTold ==
    ASSUME Types, Sound, PairsOnce, Crash
    PROVE  Told(fired', edges') /\ Once(fired', visited')
  <1>0. fired \in Seq(Firing) /\ edges \in Seq(Edge) /\ Told(fired, edges) /\ Once(fired, visited)
    BY DEF Types, TypeOK, BrowserType, StoreType, Sound
  <1>1. CASE CrashInScan \/ CrashInReason
    <2>1. UNCHANGED <<fired, edges, visited>>
      BY <1>1 DEF CrashInScan, CrashInReason
    <2> QED  BY <1>0, <2>1
  <1>2. CASE CrashInReplay
    <2>1. pc = "act" /\ UNCHANGED <<edges, visited>>
      BY <1>2 DEF CrashInReplay, store
    <2>2. CASE fired' = fired
      BY <1>0, <2>1, <2>2
    <2>3. ASSUME Replayable(Candidate.path), NEW n \in DOMAIN Candidate.path,
                 \A i \in 0..n : Replay[i] # NoPage, fired' = fired \o Replayed(n)
          PROVE  Told(fired', edges') /\ Once(fired', visited')
      <3>1. n \in Nat /\ n <= Len(Candidate.path) /\ n \in 0..Len(Candidate.path)
        <4>1. Candidate.path \in Seq(Actions)
          BY <2>1, CandidateNow
        <4> QED  BY <2>3, <4>1
      <3>2. Replayed(n) \in Seq(Firing)
        BY <2>1, <2>3, <3>1, ReplayedType
      <3>3. Harmless(Replayed(n))
        BY <2>1, <2>3, <3>1, ReplayedHarmless
      <3>4. Told(fired \o Replayed(n), edges) /\ Once(fired \o Replayed(n), visited)
        BY <1>0, <3>2, <3>3, GoesOn
      <3> QED  BY <2>1, <2>3, <3>4
    <2> QED  BY <1>2, <2>2, <2>3 DEF CrashInReplay
  <1>3. CASE CrashInAct
    BY <1>3, CrashInActTold
  <1>4. CASE CrashInObserve
    <2>1. pc = "observe" /\ UNCHANGED <<fired, visited>>
      BY <1>4 DEF CrashInObserve
    <2>2. CASE edges' = edges
      BY <1>0, <2>1, <2>2
    <2>3. ASSUME acted, NEW e \in Edge, edges' = Append(edges, e), e.to = next_bundle,
                 e.from = pending.from, e.action = pending.action
          PROVE  Told(fired', edges')
      <3>1. EndsWith(fired, pending, next_bundle)
        BY <2>1, <2>3 DEF Sound
      <3>2. EndsWith(fired, e, e.to)
        BY <2>3, <3>1 DEF EndsWith
      <3>3. Told(fired, Append(edges, e))
        BY <1>0, <3>2, ToldEdge
      <3> QED  BY <2>1, <2>3, <3>3
    <2>4. \/ edges' = edges
          \/ \E e \in Edge : /\ acted /\ edges' = Append(edges, e) /\ e.to = next_bundle
                             /\ e.from = pending.from /\ e.action = pending.action
      BY CrashLeaves
    <2> QED  BY <1>0, <2>1, <2>2, <2>3, <2>4
  <1> QED  BY <1>1, <1>2, <1>3, <1>4 DEF Crash

\* A restart begins with nothing in the frontier and a browser nowhere.
LEMMA RestartLeaves ==
    ASSUME Crash, recovery = "restart"
    PROVE  /\ Restart /\ pc' = "start" /\ frontier' = <<>> /\ seen' = <<>>
           /\ acted' = FALSE /\ supersteps' = 0 /\ crashes' = crashes + 1
  BY DEF Crash, CrashInScan, CrashInReason, CrashInReplay, CrashInAct, CrashInObserve,
         Recover, Revive, Resume, Restart

\* After any number of restarts.
RestartSound == recovery = "restart" => Sound /\ PairsOnce

LEMMA RestartSoundStep ==
    ASSUME Obedient, Bearings, RestartSound, [RecoveryNext]_recoveryVars
    PROVE  RestartSound'
  <1>0. recovery' = recovery
    BY DEF RecoveryNext, Run, Crash, CrashInScan, CrashInReason, CrashInReplay, CrashInAct,
           CrashInObserve, Recover, Revive, recoveryVars
  <1> SUFFICES ASSUME recovery = "restart" PROVE Sound' /\ PairsOnce'
    BY <1>0 DEF RestartSound
  <1>1. Types /\ Mapped /\ Sound /\ PairsOnce
    BY DEF Bearings, RecoveryTypes, RestartSound
  <1>2. CASE [Next]_vars
    BY <1>1, <1>2, SoundRun, PairsOnceStep
  <1>3. CASE Crash
    <2>1. pc' = "start" /\ frontier' = <<>>
      BY <1>3, RestartLeaves
    <2>2. DOMAIN frontier' = {}
      BY <2>1
    <2>3. Told(fired', edges') /\ Once(fired', visited')
      BY <1>1, <1>3, CrashTold
    <2> QED  BY <2>1, <2>2, <2>3 DEF Sound, PairsOnce, PairsOf
  <1> QED  BY <1>2, <1>3 DEF RecoveryNext, Run, recoveryVars

\* With a restart, nothing that has a side effect is done twice, however often
\* and wherever the process dies: claims survive it, and scan tests them (act
\* claims before it executes, graph_runner.py 233-294), provided no call to the
\* browser raises by itself and the side effects do not change the application.
THEOREM RestartsDoNotRefire ==
    ASSUME Obedient
    PROVE  RecoverySpec => []RestartCannotRefire
  <1>1. RecoveryInit => Bearings /\ RestartSound
    <2>1. RecoveryInit => RestartSound
      BY DEF RecoveryInit, Init, RestartSound, Sound, Told, Once, PairsOnce, PairsOf
    <2> QED  BY <2>1, BearingsInit
  <1>2. Bearings /\ RestartSound /\ [RecoveryNext]_recoveryVars => (Bearings /\ RestartSound)'
    BY BearingsStep, RestartSoundStep
  <1>3. RestartSound => RestartCannotRefire
    BY DEF RestartSound, Sound, Once, RestartCannotRefire, UnsafeOnce
  <1> QED  BY <1>1, <1>2, <1>3, PTL DEF RecoverySpec

-----------------------------------------------------------------------------
(* What a crash costs.                                                     *)

\* Obedient, and of the calls that may raise only those to perception do; no
\* page has more than ten controls, so the limit of LangGraph is out of reach.
Calm == Flaky \subseteq {"perception"} /\ ~Mutable /\ SmallPages

\* The budget of supersteps begins anew in a new process.
LEMMA BudgetCrash ==
    ASSUME Types, Budget, Crash
    PROVE  Budget'
  <1>0. /\ Len(frontier) \in Nat /\ Len(seen) \in Nat /\ supersteps \in Nat
    BY LimitType DEF Types, TypeOK, QueueType, CountType
  <1>1. Recover /\ supersteps' = 0 /\ AtCrash
    BY CrashLeaves DEF Recover, Revive
  <1>2. CASE Restart
    <2>1. pc' = "start" /\ frontier' = <<>> /\ seen' = <<>>
      BY <1>2 DEF Restart
    <2>2. Len(frontier') = 0 /\ Len(seen') = 0
      BY <2>1
    <2> QED  BY <1>1, <2>1, <2>2 DEF Budget, Used
  <1>3. CASE Resume
    <2>1. UNCHANGED <<pc, frontier, seen>>
      BY <1>3 DEF Resume, queues
    <2> QED  BY <1>0, <1>1, <2>1 DEF Budget, Used, AtCrash
  <1> QED  BY <1>1, <1>2, <1>3 DEF Recover

\* Bearings, in a calm.
CalmBearings == Bearings /\ Budget

LEMMA CalmBearingsInit == RecoveryInit => CalmBearings
  <1>1. RecoveryInit => Budget
    BY DEF RecoveryInit, Init, Budget, Used
  <1> QED  BY <1>1, BearingsInit DEF CalmBearings

LEMMA CalmIsObedient == Calm => Obedient
  BY DEF Calm, Obedient

LEMMA CalmIsSmall ==
    ASSUME Calm, Types
    PROVE  SmallFanOut
  BY SmallEnough DEF Calm

LEMMA CalmBearingsStep ==
    ASSUME Calm, CalmBearings, [RecoveryNext]_recoveryVars
    PROVE  CalmBearings'
  <1>1. Bearings'
    BY CalmIsObedient, BearingsStep DEF CalmBearings
  <1>2. Types /\ Budget /\ SmallFanOut
    BY CalmIsSmall DEF CalmBearings, Bearings, RecoveryTypes
  <1>3. CASE [Next]_vars
    BY <1>1, <1>2, <1>3, BudgetStep DEF CalmBearings
  <1>4. CASE Crash
    BY <1>1, <1>2, <1>4, BudgetCrash DEF CalmBearings
  <1> QED  BY <1>3, <1>4 DEF RecoveryNext, Run, recoveryVars

\* Nothing raises but perception, in reason.
LEMMA CalmFailure ==
    ASSUME Calm, Types, Budget, Failure
    PROVE  ReasonRaises /\ pc = "reason" /\ pc' = "raised"
           /\ UNCHANGED <<app, page, fired, nodes, visited, edges, current_bundle, depth,
                          pending, acted, frontier, seen, skipped, edge_count, visited_pairs>>
  <1>1. ~OutOfSteps
    <2>1. /\ Len(frontier) \in Nat /\ Len(seen) \in Nat /\ supersteps \in Nat
          /\ Len(seen) <= MaxStates /\ MaxStates \in Nat \ {0}
      BY LimitType, ExplorationAssumption
         DEF Types, TypeOK, QueueType, CountType, StateCap
    <2>2. supersteps <= 40 * MaxStates + 3
      BY <2>1 DEF Budget, Used, Types, TypeOK, PlaceType, Nodes
    <2>3. RecursionLimit = 40 * MaxStates + 100
      BY <2>1 DEF RecursionLimit
    <2> QED  BY <2>1, <2>2, <2>3 DEF OutOfSteps
  <1>2. ReasonRaises
    BY <1>1 DEF Calm, Failure, ScanRaises, ActRaises, ObserveRaises
  <1> QED  BY <1>2 DEF ReasonRaises, Raise, Superstep, store, current, flight, queues, counts

\* A replay repeats what is on record.
LEMMA ReplayKnown ==
    ASSUME Types, Mapped, pc = "act", NEW n \in 0..Len(Candidate.path)
    PROVE  PairsOf(Replayed(n)) \subseteq PairsOf(edges)
  <1>1. Candidate.path \in Seq(Actions)
    BY CandidateNow
  <1>2. \A i \in 1..n : i \in 1..Len(Candidate.path)
    BY <1>1
  <1>3. \A i \in 1..n : PairOf(Replayed(n)[i]) = <<Replay[i - 1], Candidate.path[i]>>
    BY DEF Replayed, PairOf
  <1>4. DOMAIN Replayed(n) = 1..n
    BY DEF Replayed
  <1> QED  BY <1>2, <1>3, <1>4, ReplayArrives DEF PairsOf

LEMMA PairsJoined ==
    ASSUME NEW S, NEW log \in Seq(S), NEW more \in Seq(S)
    PROVE  PairsOf(log \o more) \subseteq PairsOf(log) \cup PairsOf(more)
  <1> DEFINE r == log \o more
  <1>1. \A i \in DOMAIN r : \/ i \in DOMAIN log /\ r[i] = log[i]
                            \/ i - Len(log) \in DOMAIN more /\ r[i] = more[i - Len(log)]
    OBVIOUS
  <1> HIDE DEF r
  <1>2. PairsOf(r) \subseteq PairsOf(log) \cup PairsOf(more)
    BY <1>1 DEF PairsOf
  <1> QED  BY <1>2 DEF r

\* Before the candidate, the browser did nothing that is not on record.
LEMMA BeforeKnown ==
    ASSUME Types, Mapped, pc = "act",
           InPlace \/ \A i \in 0..Len(Candidate.path) : Replay[i] # NoPage
    PROVE  PairsOf(FiredBefore) \subseteq PairsOf(fired) \cup PairsOf(edges)
  <1>0. fired \in Seq(Firing) /\ Candidate.path \in Seq(Actions)
    BY CandidateNow DEF Types, TypeOK, BrowserType
  <1>1. CASE InPlace
    BY <1>1 DEF FiredBefore
  <1>2. CASE ~InPlace
    <2> DEFINE n == Len(Candidate.path)
    <2>1. n \in Nat /\ n <= n /\ n \in 0..n
      BY <1>0
    <2>2. Replayed(n) \in Seq(Firing)
      BY <1>2, <2>1, ReplayedType
    <2>3. PairsOf(Replayed(n)) \subseteq PairsOf(edges)
      BY <2>1, ReplayKnown
    <2>4. FiredBefore = fired \o Replayed(n)
      BY <1>2 DEF FiredBefore
    <2> HIDE DEF n
    <2>5. PairsOf(fired \o Replayed(n)) \subseteq PairsOf(fired) \cup PairsOf(Replayed(n))
      BY <1>0, <2>2, PairsJoined
    <2> QED  BY <2>3, <2>4, <2>5
  <1> QED  BY <1>1, <1>2

\* What the browser did is on record, but for one firing per crash.
Gap == PairsOf(fired) \ (PairsOf(edges) \cup InFlight)
Ledger ==
    /\ IsFiniteSet(PairsOf(edges)) /\ Cardinality(PairsOf(edges)) = Len(edges)
    /\ PairsOf(edges) \cup InFlight \subseteq visited
    /\ PairsOf(edges) \cap InFlight = {}
    /\ IsFiniteSet(Gap) /\ Cardinality(Gap) <= crashes

\* A step that leaves the edges alone.
LEMMA LedgerKeeps ==
    ASSUME crashes \in Nat, crashes' = crashes, Ledger, edges' = edges, visited \subseteq visited',
           PairsOf(edges) \cap InFlight' = {}, InFlight' \subseteq visited', Gap' \subseteq Gap
    PROVE  Ledger'
  <1>1. IsFiniteSet(Gap') /\ Cardinality(Gap') <= crashes
    <2>1. /\ IsFiniteSet(Gap') /\ Cardinality(Gap') \in Nat /\ Cardinality(Gap) \in Nat
          /\ Cardinality(Gap') <= Cardinality(Gap)
      BY NoMore DEF Ledger
    <2> QED  BY <2>1 DEF Ledger
  <1> QED  BY <1>1 DEF Ledger

\* act: what it executes is in flight.
LEMMA LedgerAct ==
    ASSUME Obedient, Types, crashes \in Nat, crashes' = crashes, Mapped, Whereabouts, PairsOnce,
           Ledger, Act
    PROVE  Ledger'
  <1> DEFINE x == PairOf(Candidate)
  <1>1. ActStep /\ pc = "act" /\ edges' = edges
    BY ActOutcome DEF ActStep, Superstep
  <1>2. InFlight = {} /\ InFlight' = IF acted' THEN {x} ELSE {}
    BY ActMoves
  <1>3. x \notin visited
    BY <1>1, Unclaimed
  <1>4. CASE Execute
    <2>1. /\ acted' = TRUE /\ fired' = Append(FiredBefore, Fires) /\ Target # NoPage
          /\ visited' = visited \cup {x} /\ Arrived
      BY <1>4 DEF Execute, Claim
    <2>2. InPlace \/ (Landed = Candidate.from
                      /\ \A i \in 0..Len(Candidate.path) : Replay[i] # NoPage)
      BY <2>1 DEF Arrived, ReplayCompletes
    <2>3. FiredBefore \in Seq(Firing) /\ Fires \in Firing
      BY <1>1, <2>1, <2>2, BackFires
    <2>4. PairOf(Fires) = x
      <3>1. Here = Candidate.from
        BY <1>1, <2>1, <2>2, TargetOfCandidate
      <3> QED  BY <3>1 DEF Fires, PairOf
    <2>5. PairsOf(FiredBefore) \subseteq PairsOf(fired) \cup PairsOf(edges)
      BY <1>1, <2>2, BeforeKnown
    <2>6. PairsOf(fired') = PairsOf(FiredBefore) \cup {PairOf(Fires)}
      BY <2>1, <2>3, PairsAppended
    <2>7. Gap' \subseteq Gap
      BY <1>1, <1>2, <2>1, <2>4, <2>5, <2>6 DEF Gap
    <2>8. /\ visited \subseteq visited' /\ PairsOf(edges) \cap InFlight' = {}
          /\ InFlight' \subseteq visited'
      BY <1>2, <1>3, <2>1 DEF Ledger
    <2> QED  BY <1>1, <2>7, <2>8, LedgerKeeps
  <1>5. CASE SkipActFailed
    <2>1. acted' = FALSE /\ Arrived /\ visited' = visited \cup {x}
      BY <1>5 DEF SkipActFailed, Claim, Skip
    <2>2. fired' = FiredBefore
      <3>1. PICK moved \in BOOLEAN :
              /\ Raises("act", Target, moved)
              /\ fired' = IF moved THEN Append(FiredBefore, Fires) ELSE FiredBefore
        BY <1>5 DEF SkipActFailed
      <3> QED  BY <3>1 DEF Raises, Obedient
    <2>3. InPlace \/ \A i \in 0..Len(Candidate.path) : Replay[i] # NoPage
      BY <2>1 DEF Arrived, ReplayCompletes
    <2>4. PairsOf(FiredBefore) \subseteq PairsOf(fired) \cup PairsOf(edges)
      BY <1>1, <2>3, BeforeKnown
    <2>5. Gap' \subseteq Gap
      BY <1>1, <1>2, <2>1, <2>2, <2>4 DEF Gap
    <2>6. visited \subseteq visited' /\ InFlight' = {}
      BY <1>2, <2>1
    <2> QED  BY <1>1, <2>5, <2>6, LedgerKeeps
  <1>6. CASE SkipUnreplayable
    <2>1. acted' = FALSE /\ visited' = visited /\ fired' = fired
      BY <1>6 DEF SkipUnreplayable, Skip
    <2>2. Gap' \subseteq Gap /\ InFlight' = {}
      BY <1>1, <1>2, <2>1 DEF Gap
    <2> QED  BY <1>1, <2>1, <2>2, LedgerKeeps
  <1> QED  BY <1>4, <1>5, <1>6, ReplaysSucceed DEF Act

\* Every step of the loop keeps the ledger.
LEMMA LedgerRun ==
    ASSUME Calm, CalmBearings, crashes' = crashes, PairsOnce, Ledger, [Next]_vars
    PROVE  Ledger'
  <1>0. Obedient /\ Types /\ crashes \in Nat /\ Mapped /\ Whereabouts /\ Budget
    BY CalmIsObedient DEF CalmBearings, Bearings, RecoveryTypes
  <1>1. CASE Act
    BY <1>0, <1>1, LedgerAct
  <1>2. CASE ObserveEdge
    <2> DEFINE x == PairOf(pending)
    <2>1. InFlight = {x} /\ InFlight' = {} /\ Len(edges') = Len(edges) + 1
      BY <1>0, <1>2, EdgeMoves
    <2>2. PairsOf(edges') = PairsOf(edges) \cup {x}
      BY <1>0, <1>2, EdgeMoves
    <2>3. UNCHANGED <<visited, fired>>
      BY <1>2 DEF ObserveEdge, browser
    <2>4. x \notin PairsOf(edges) /\ x \in visited
      BY <2>1 DEF Ledger
    <2>5. Gap' = Gap
      BY <2>1, <2>2, <2>3 DEF Gap
    <2>6. IsFiniteSet(PairsOf(edges')) /\ Cardinality(PairsOf(edges')) = Len(edges')
      <3>1. /\ IsFiniteSet(PairsOf(edges) \cup {x})
            /\ Cardinality(PairsOf(edges) \cup {x}) = Cardinality(PairsOf(edges)) + 1
        BY <2>4, FS_AddElement DEF Ledger
      <3> QED  BY <2>1, <2>2, <3>1 DEF Ledger
    <2>7. IsFiniteSet(Gap') /\ Cardinality(Gap') <= crashes'
      BY <2>5 DEF Ledger
    <2> QED  BY <2>1, <2>2, <2>3, <2>4, <2>6, <2>7 DEF Ledger
  <1>3. CASE Failure
    <2>1. pc = "reason" /\ pc' = "raised" /\ UNCHANGED <<fired, edges, visited>>
      BY <1>0, <1>3, CalmFailure
    <2>2. InFlight' = {} /\ Gap' \subseteq Gap
      BY <2>1 DEF InFlight, Gap
    <2> QED  BY <1>0, <2>1, <2>2, LedgerKeeps
  <1>4. CASE \/ OpenSeed \/ OpenSeedFails \/ ScanFirst \/ ScanAgain \/ ReasonAudit \/ ReasonAgain
             \/ ObserveSkip \/ Finish
    <2>1. /\ UNCHANGED <<fired, edges, visited>> /\ pc' # "observe"
          /\ pc \in {"start", "scan", "reason", "end"} \/ (pc = "observe" /\ ~acted)
      BY <1>4, NextActType DEF OpenSeed, OpenSeedFails, ScanFirst, ScanAgain, ScanVisit,
            ReasonAudit, ReasonAgain, ReasonVisit, ObserveSkip, Finish, Superstep, store, browser
    <2>2. InFlight = {} /\ InFlight' = {} /\ Gap' \subseteq Gap
      BY <2>1 DEF InFlight, Gap
    <2> QED  BY <1>0, <2>1, <2>2, LedgerKeeps
  <1>5. CASE UNCHANGED vars
    <2>1. UNCHANGED <<fired, edges, visited, pc, acted, pending>>
      BY <1>5 DEF vars, browser, store, flight
    <2>2. InFlight' = InFlight /\ Gap' = Gap
      BY <2>1 DEF InFlight, Gap
    <2> QED  BY <1>0, <2>1, <2>2, LedgerKeeps DEF Ledger
  <1> QED  BY <1>1, <1>2, <1>3, <1>4, <1>5 DEF Next, Stopped

\* A crash costs one record at most: of what act executed, or of what was in
\* flight.
LEMMA LedgerCrash ==
    ASSUME Calm, CalmBearings, PairsOnce, Ledger, Crash, recovery = "restart"
    PROVE  Ledger'
  <1>0. /\ Obedient /\ Types /\ crashes \in Nat /\ Mapped /\ Whereabouts
        /\ fired \in Seq(Firing) /\ edges \in Seq(Edge)
    BY CalmIsObedient
       DEF CalmBearings, Bearings, RecoveryTypes, Types, TypeOK, BrowserType, StoreType
  <1>1. InFlight' = {} /\ crashes' = crashes + 1
    BY RestartLeaves DEF InFlight
  <1> DEFINE c == PairOf(Candidate)
             x == PairOf(pending)
  <1>2. /\ visited \subseteq visited'
        /\ \/ edges' = edges
           \/ /\ pc = "observe" /\ acted /\ Len(edges') = Len(edges) + 1
              /\ PairsOf(edges') = PairsOf(edges) \cup {x}
    <2>1. CASE edges' = edges
      BY <1>0, <2>1, CrashLeaves
    <2>2. ASSUME NEW e \in Edge, pc = "observe", acted, edges' = Append(edges, e), PairOf(e) = x
          PROVE  Len(edges') = Len(edges) + 1 /\ PairsOf(edges') = PairsOf(edges) \cup {x}
      <3> HIDE DEF x
      <3> QED  BY <1>0, <2>2, PairsAppended
    <2> QED  BY <1>0, <2>1, <2>2, CrashLeaves
  <1>3. /\ PairsOf(edges') \subseteq visited'
        /\ IsFiniteSet(PairsOf(edges')) /\ Cardinality(PairsOf(edges')) = Len(edges')
    <2>1. CASE edges' = edges
      BY <1>2, <2>1 DEF Ledger
    <2>2. CASE pc = "observe" /\ acted /\ Len(edges') = Len(edges) + 1
               /\ PairsOf(edges') = PairsOf(edges) \cup {x}
      <3>1. InFlight = {x} /\ x \notin PairsOf(edges) /\ x \in visited
        BY <2>2 DEF InFlight, Ledger
      <3> HIDE DEF x
      <3>2. /\ IsFiniteSet(PairsOf(edges) \cup {x})
            /\ Cardinality(PairsOf(edges) \cup {x}) = Cardinality(PairsOf(edges)) + 1
        BY <3>1, FS_AddElement DEF Ledger
      <3> QED  BY <1>2, <2>2, <3>1, <3>2 DEF Ledger
    <2> QED  BY <1>2, <2>1, <2>2
  <1>4. \E e : Gap' \subseteq Gap \cup {e}
    <2>1. CASE CrashInScan \/ CrashInReason
      <3>1. fired' = fired /\ edges' = edges /\ pc \in {"scan", "reason"}
        BY <2>1 DEF CrashInScan, CrashInReason
      <3>2. Gap' = Gap
        BY <1>1, <3>1 DEF Gap, InFlight
      <3> QED  BY <3>2
    <2>2. CASE CrashInReplay
      <3>1. pc = "act" /\ edges' = edges
        BY <2>2 DEF CrashInReplay, store
      <3>2. ASSUME NEW n \in DOMAIN Candidate.path, \A i \in 0..n : Replay[i] # NoPage
            PROVE  PairsOf(fired \o Replayed(n)) \subseteq PairsOf(fired) \cup PairsOf(edges)
        <4>1. n \in Nat /\ n <= Len(Candidate.path) /\ n \in 0..Len(Candidate.path)
          <5>1. Candidate.path \in Seq(Actions)
            BY <1>0, <3>1, CandidateNow
          <5> QED  BY <5>1
        <4>2. Replayed(n) \in Seq(Firing)
          BY <1>0, <3>1, <3>2, <4>1, ReplayedType
        <4>3. PairsOf(Replayed(n)) \subseteq PairsOf(edges)
          BY <1>0, <3>1, <4>1, ReplayKnown
        <4>4. PairsOf(fired \o Replayed(n)) \subseteq PairsOf(fired) \cup PairsOf(Replayed(n))
          BY <1>0, <4>2, PairsJoined
        <4> QED  BY <4>3, <4>4
      <3>3. PairsOf(fired') \subseteq PairsOf(fired) \cup PairsOf(edges)
        BY <2>2, <3>2 DEF CrashInReplay
      <3>4. Gap' \subseteq Gap
        BY <1>1, <3>1, <3>3 DEF Gap, InFlight
      <3> QED  BY <3>4
    <2>3. CASE CrashInAct
      <3>1. /\ pc = "act" /\ edges' = edges
            /\ InPlace \/ (/\ \A i \in 0..Len(Candidate.path) : Replay[i] # NoPage
                           /\ Landed = Candidate.from)
            /\ \/ fired' = FiredBefore
               \/ Target # NoPage /\ fired' = Append(FiredBefore, Fires)
        BY <2>3 DEF CrashInAct
      <3>2. PairsOf(FiredBefore) \subseteq PairsOf(fired) \cup PairsOf(edges)
        BY <1>0, <3>1, BeforeKnown
      <3>3. PairsOf(fired') \subseteq PairsOf(fired) \cup PairsOf(edges) \cup {PairOf(Fires)}
        <4>1. CASE fired' = FiredBefore
          BY <3>2, <4>1
        <4>2. CASE Target # NoPage /\ fired' = Append(FiredBefore, Fires)
          <5>1. FiredBefore \in Seq(Firing) /\ Fires \in Firing
            BY <1>0, <3>1, <4>2, BackFires
          <5>2. PairsOf(Append(FiredBefore, Fires)) = PairsOf(FiredBefore) \cup {PairOf(Fires)}
            BY <5>1, PairsAppended
          <5> QED  BY <3>2, <4>2, <5>2
        <4> QED  BY <3>1, <4>1, <4>2
      <3>4. Gap' \subseteq Gap \cup {PairOf(Fires)}
        BY <1>1, <3>1, <3>3 DEF Gap, InFlight
      <3> QED  BY <3>4
    <2>4. CASE CrashInObserve
      <3>1. fired' = fired /\ pc = "observe"
        BY <2>4 DEF CrashInObserve
      <3>2. PairsOf(edges) \subseteq PairsOf(edges')
        BY <1>2
      <3>3. InFlight \subseteq {x}
        BY DEF InFlight
      <3>4. Gap' \subseteq Gap \cup {x}
        BY <1>1, <3>1, <3>2, <3>3 DEF Gap
      <3> QED  BY <3>4
    <2> QED  BY <2>1, <2>2, <2>3, <2>4 DEF Crash
  <1>5. IsFiniteSet(Gap') /\ Cardinality(Gap') <= crashes'
    <2>1. PICK e : Gap' \subseteq Gap \cup {e}
      BY <1>4
    <2>2. IsFiniteSet(Gap) /\ Cardinality(Gap) <= crashes
      BY DEF Ledger
    <2>3. IsFiniteSet(Gap') /\ Cardinality(Gap') <= crashes + 1
      BY <1>0, <2>1, <2>2, OneMoreAtMost
    <2> QED  BY <1>1, <2>3
  <1> QED  BY <1>1, <1>3, <1>5 DEF Ledger

\* The ledger, after any number of restarts.
RestartLedger == recovery = "restart" => Ledger

LEMMA RestartLedgerStep ==
    ASSUME Calm, CalmBearings, RestartSound, RestartLedger, [RecoveryNext]_recoveryVars
    PROVE  RestartLedger'
  <1>0. recovery' = recovery /\ (Crash \/ crashes' = crashes)
    BY DEF RecoveryNext, Run, Crash, CrashInScan, CrashInReason, CrashInReplay, CrashInAct,
           CrashInObserve, Recover, Revive, recoveryVars
  <1> SUFFICES ASSUME recovery = "restart" PROVE Ledger'
    BY <1>0 DEF RestartLedger
  <1>1. PairsOnce /\ Ledger
    BY DEF RestartSound, RestartLedger
  <1>2. CASE Crash
    BY <1>1, <1>2, LedgerCrash
  <1>3. CASE ~Crash
    <2>1. [Next]_vars /\ crashes' = crashes
      BY <1>0, <1>3 DEF RecoveryNext, Run, recoveryVars
    <2> QED  BY <1>1, <2>1, LedgerRun
  <1> QED  BY <1>2, <1>3

\* Claiming first has a price, and this is all of it: with a restart, a crash
\* loses the record of at most one action that was executed, and no edge is
\* recorded twice (ADR-001, decision 3; act and observe, graph_runner.py
\* 233-324), while nothing but perception raises.
THEOREM RestartsLoseOneEach ==
    ASSUME Calm
    PROVE  RecoverySpec => []OneGapPerCrash
  <1> DEFINE I == CalmBearings /\ RestartSound /\ RestartLedger
  <1>1. RecoveryInit => I
    <2> SUFFICES ASSUME RecoveryInit PROVE I
      OBVIOUS
    <2>1. RestartSound
      BY DEF RecoveryInit, Init, RestartSound, Sound, Told, Once, PairsOnce, PairsOf
    <2>2. fired = <<>> /\ edges = <<>> /\ pc = "start" /\ crashes = 0
      BY DEF RecoveryInit, Init
    <2>3. PairsOf(fired) = {} /\ PairsOf(edges) = {} /\ InFlight = {} /\ Len(edges) = 0
      BY <2>2 DEF PairsOf, InFlight
    <2>4. RestartLedger
      BY <2>2, <2>3, FS_EmptySet DEF RestartLedger, Ledger, Gap
    <2> QED  BY <2>1, <2>4, CalmBearingsInit
  <1>2. I /\ [RecoveryNext]_recoveryVars => I'
    <2> SUFFICES ASSUME I, [RecoveryNext]_recoveryVars PROVE I'
      OBVIOUS
    <2>1. CalmBearings'
      BY CalmBearingsStep
    <2>2. RestartSound'
      BY CalmIsObedient, RestartSoundStep DEF CalmBearings
    <2>3. RestartLedger'
      BY RestartLedgerStep
    <2> QED  BY <2>1, <2>2, <2>3
  <1>3. I => OneGapPerCrash
    BY DEF RestartLedger, Ledger, Gap, OneGapPerCrash
  <1> QED  BY <1>1, <1>2, <1>3, PTL DEF RecoverySpec

-----------------------------------------------------------------------------
(* Resumes.                                                                *)

\* The candidate can be reached, and it is the candidate's state that is.
Reachable ==
    InPlace \/ (/\ Replayable(Candidate.path)
                /\ \A i \in 0..Len(Candidate.path) : Replay[i] # NoPage
                /\ Landed = Candidate.from)

\* A pair waits and is claimed only when act was cut short after the claim; it
\* is the candidate, it is reached again, and its claim is counted with that.
Repeats ==
    /\ \A i, j \in DOMAIN frontier : PairOf(frontier[i]) = PairOf(frontier[j]) => i = j
    /\ Waiting \cap visited \subseteq Again
    /\ Waiting \cap OldVisited = {} /\ OldVisited \subseteq visited
    /\ pc = "act" /\ PairOf(Candidate) \in visited => Reachable
    /\ IsFiniteSet(visited \ OldVisited)
    /\ visited_pairs = Cardinality((visited \ OldVisited) \ Again)

\* A node that ran twice counts once, and what is claimed is accounted for.
Tallies ==
    /\ \A i, j \in DOMAIN seen : seen[i] = seen[j] => i = j
    /\ (Settled \cup InFlight) \cap Waiting = {}
    /\ \A x \in Settled \cup Waiting \cup InFlight : Scanned(x[1])
    /\ IsFiniteSet(PairsOf(edges))
    /\ edge_count = Cardinality(PairsOf(edges) \ InFlight)
    /\ visited \subseteq Somewhere

\* Recorded, for a scan that may be cut short after it persisted the state.
Offered ==
    /\ Accounted
    /\ \A s \in DOMAIN nodes :
         \/ Scanned(s) \/ (s = Seed /\ nodes[s] = 0)
         \/ pc = "scan" /\ s = current_bundle /\ nodes[s] = depth
    /\ pc = "start" => depth = 0
    /\ pc = "scan" => Scanned(Seed) \/ (current_bundle = Seed /\ depth = 0)
    /\ pc \in {"reason", "act", "observe"} => Scanned(Seed)

Exact == Repeats /\ Tallies /\ Offered

\* scan enqueues what is not claimed.
LEMMA ScanExact ==
    ASSUME Types, Exact, ScanFirst
    PROVE  Exact'
  <1>1. /\ pc = "scan" /\ pc' = "reason" /\ seen' = Append(seen, current_bundle)
        /\ UNCHANGED <<visited, visited_pairs, edges, edge_count, depth>>
    BY DEF ScanFirst, ScanVisit, Superstep, counts
  <1>2. frontier \in Seq(Pending) /\ seen \in Seq(Pages) /\ current_bundle \in Pages
    BY <1>1 DEF Types, TypeOK, QueueType, Control
  <1>3. /\ Settled' = Settled /\ InFlight = {} /\ InFlight' = {}
        /\ Waiting \subseteq Waiting'
        /\ \A x \in Waiting' : x \in Waiting \/ x[1] = current_bundle
        /\ ~Scanned(current_bundle) /\ \A s : Scanned(s)' <=> Scanned(s) \/ s = current_bundle
    BY ScanWaits
  <1>4. Again = {} /\ Again' = {}
    BY <1>1 DEF Again
  <1>5. Repeats'
    <2>1. Disjoint(frontier, visited)
      BY <1>4 DEF Exact, Repeats, Disjoint, Waiting
    <2>2. Disjoint(frontier', visited)
      <3>1. CASE frontier' = frontier
        BY <2>1, <3>1
      <3>2. CASE Grown(frontier, visited, current_bundle, Enumerate(app, current_bundle),
                       depth + 1, current_path, Len(Enumerate(app, current_bundle)), frontier')
        BY <1>2, <2>1, <3>2, EnqueueKeepsDisjoint
      <3> QED  BY <3>1, <3>2, ScanFrontier
    <2>3. Waiting' \cap visited = {} /\ OldVisited \subseteq visited
      BY <2>2 DEF Disjoint, Waiting, Exact, Repeats
    <2> QED  BY <1>1, <1>4, <2>2, <2>3 DEF Exact, Repeats, Disjoint
  <1>6. Tallies'
    <2>1. \A i, j \in DOMAIN seen' : seen'[i] = seen'[j] => i = j
      <3>1. /\ Len(seen) \in Nat /\ DOMAIN seen = 1..Len(seen)
            /\ DOMAIN seen' = 1..(Len(seen) + 1) /\ seen'[Len(seen) + 1] = current_bundle
            /\ \A k \in 1..Len(seen) : seen'[k] = seen[k]
        BY <1>1, <1>2
      <3>2. \A k \in DOMAIN seen' : k \in DOMAIN seen \/ k = Len(seen) + 1
        BY <3>1
      <3>3. \A k \in DOMAIN seen : seen[k] # current_bundle
        BY <1>3 DEF Scanned
      <3> QED  BY <3>1, <3>2, <3>3 DEF Exact, Tallies
    <2>2. Settled \cap Waiting' = {}
      BY <1>3 DEF Exact, Tallies
    <2>3. \A x \in Settled \cup Waiting' : Scanned(x[1])'
      BY <1>3 DEF Exact, Tallies
    <2>4. visited' \subseteq Somewhere'
      BY <1>1, <1>3 DEF Exact, Tallies, Somewhere
    <2> QED  BY <1>1, <1>3, <2>1, <2>2, <2>3, <2>4 DEF Exact, Tallies
  <1>7. Offered'
    <2>1. current_bundle \in DOMAIN nodes => nodes[current_bundle] = depth
      BY <1>1, <1>3 DEF Exact, Offered
    <2>2. /\ Accounted' /\ DOMAIN nodes' = DOMAIN nodes \cup {current_bundle}
          /\ \A s \in DOMAIN nodes : nodes'[s] = nodes[s]
      BY <2>1, ScanAccounts DEF Exact, Tallies, Offered
    <2>3. Scanned(Seed)'
      BY <1>1, <1>3 DEF Exact, Offered
    <2>4. \A s \in DOMAIN nodes' : Scanned(s)' \/ (s = Seed /\ nodes'[s] = 0)
      BY <1>3, <2>2 DEF Exact, Offered
    <2> QED  BY <1>1, <2>2, <2>3, <2>4 DEF Offered
  <1> QED  BY <1>5, <1>6, <1>7 DEF Exact

\* act takes the candidate and claims it, unless it was claimed already.
LEMMA ActExact ==
    ASSUME Obedient, Types, Mapped, Exact, Act, [Next]_vars
    PROVE  Exact'
  <1> DEFINE x == PairOf(Candidate)
  <1>1. /\ ActStep /\ pc = "act" /\ pc' = "observe"
        /\ UNCHANGED <<nodes, seen, edges, depth, edge_count>>
        /\ frontier \in Seq(Pending) /\ frontier # <<>> /\ frontier' = Tail(frontier)
        /\ Candidate = Head(frontier)
    <2>1. ActStep /\ pc = "act"
      BY ActOutcome DEF ActStep, Superstep
    <2>2. frontier \in Seq(Pending) /\ frontier # <<>>
      BY <2>1, CandidateNow
    <2> QED  BY <2>1, <2>2 DEF ActStep, Candidate
  <1>2. /\ Waiting = Waiting' \cup {x} /\ x \notin Waiting'
        /\ InFlight = {} /\ InFlight' = IF acted' THEN {x} ELSE {}
        /\ \/ Settled' = Settled /\ InFlight' = {x}
           \/ Settled' = Settled \cup {x} /\ InFlight' = {}
    <2>1. Waiting = Waiting' \cup {x} /\ x \notin Waiting'
      BY <1>1, PairsTail DEF Waiting, Exact, Repeats
    <2> QED  BY <2>1, ActSettles
  <1>3. Again = {x} /\ Again' = {}
    BY <1>1 DEF Again
  <1>4. x \in Waiting /\ x \notin OldVisited /\ x \notin Settled /\ Scanned(x[1])
    BY <1>2 DEF Exact, Repeats, Tallies
  <1>5. \/ visited' = visited \cup {x} /\ visited_pairs' = visited_pairs + 1
        \/ visited' = visited /\ visited_pairs' = visited_pairs /\ x \notin visited
    <2>1. CASE Execute \/ SkipActFailed
      BY <2>1 DEF Execute, SkipActFailed, Claim
    <2>2. CASE SkipUnreplayable
      <3>1. ~Reachable /\ visited' = visited /\ visited_pairs' = visited_pairs
        BY <2>2 DEF SkipUnreplayable, Reachable
      <3> QED  BY <1>1, <3>1 DEF Exact, Repeats
    <2> QED  BY <2>1, <2>2, ReplaysSucceed DEF Act
  <1>6. \A s : Scanned(s)' = Scanned(s)
    BY <1>1 DEF Scanned
  <1> HIDE DEF x
  <1>7. Repeats'
    <2>1. \A i, j \in DOMAIN frontier' : PairOf(frontier'[i]) = PairOf(frontier'[j]) => i = j
      <3>1. Disjoint(frontier, {})
        BY DEF Disjoint, Exact, Repeats
      <3>2. Disjoint(frontier', {})
        BY <1>1, <3>1, TailKeepsDisjoint
      <3> QED  BY <3>2 DEF Disjoint
    <2>2. Waiting' \cap visited' = {} /\ Waiting' \cap OldVisited = {} /\ OldVisited \subseteq visited'
      BY <1>2, <1>3, <1>5 DEF Exact, Repeats
    <2>3. /\ IsFiniteSet(visited' \ OldVisited)
          /\ visited_pairs' = Cardinality((visited' \ OldVisited) \ Again')
      <3> DEFINE S == (visited \ OldVisited) \ {x}
      <3>1. IsFiniteSet(S) /\ visited_pairs = Cardinality(S) /\ x \notin S
        <4>1. IsFiniteSet(S)
          BY NoMore DEF Exact, Repeats
        <4> QED  BY <1>3, <4>1 DEF Exact, Repeats
      <3>2. CASE visited' = visited \cup {x} /\ visited_pairs' = visited_pairs + 1
        <4>1. (visited' \ OldVisited) \ Again' = S \cup {x} /\ visited' \ OldVisited = S \cup {x}
          BY <1>3, <1>4, <3>2
        <4> HIDE DEF S
        <4>2. IsFiniteSet(S \cup {x}) /\ Cardinality(S \cup {x}) = Cardinality(S) + 1
          BY <3>1, FS_AddElement
        <4> QED  BY <3>1, <3>2, <4>1, <4>2
      <3>3. CASE visited' = visited /\ visited_pairs' = visited_pairs /\ x \notin visited
        <4>1. (visited' \ OldVisited) \ Again' = S /\ visited' \ OldVisited = S
          BY <1>3, <3>3
        <4> HIDE DEF S
        <4> QED  BY <3>1, <3>3, <4>1
      <3> QED  BY <1>5, <3>2, <3>3
    <2> QED  BY <1>1, <2>1, <2>2, <2>3 DEF Repeats
  <1>8. Somewhere' = Somewhere
    BY <1>2 DEF Somewhere
  <1>9. Tallies'
    <2>1. (Settled' \cup InFlight') \cap Waiting' = {}
      BY <1>2 DEF Exact, Tallies
    <2>2. \A y \in Settled' \cup Waiting' \cup InFlight' : Scanned(y[1])'
      BY <1>2, <1>4, <1>6 DEF Exact, Tallies
    <2>3. PairsOf(edges) \ InFlight' = PairsOf(edges) /\ PairsOf(edges) \ InFlight = PairsOf(edges)
      BY <1>2, <1>4 DEF Settled
    <2>4. edge_count' = Cardinality(PairsOf(edges') \ InFlight')
      BY <1>1, <2>3 DEF Exact, Tallies
    <2>5. visited' \subseteq Somewhere'
      BY <1>4, <1>5, <1>8 DEF Exact, Tallies, Somewhere
    <2> QED  BY <1>1, <2>1, <2>2, <2>4, <2>5 DEF Exact, Tallies
  <1>10. Offered'
    <2>1. app' = app
      BY AppStays
    <2>2. Accounted'
      BY <1>1, <1>6, <1>8, <2>1 DEF Exact, Offered, Accounted
    <2> QED  BY <1>1, <1>6, <2>2 DEF Exact, Offered
  <1> QED  BY <1>7, <1>9, <1>10 DEF Exact

\* observe settles what was in flight, once.
LEMMA EdgeExact ==
    ASSUME Obedient, Types, Exact, ObserveEdge, [Next]_vars
    PROVE  Exact'
  <1> DEFINE x == PairOf(pending)
  <1>1. /\ pc = "observe" /\ pc' = "scan" /\ edge_count' = edge_count + 1
        /\ UNCHANGED <<nodes, seen, frontier, visited, visited_pairs>>
    BY DEF ObserveEdge, Superstep, queues
  <1>2. /\ InFlight = {x} /\ InFlight' = {} /\ Waiting' = Waiting
        /\ Settled' = Settled \cup {x} /\ PairsOf(edges') = PairsOf(edges) \cup {x}
    BY EdgeMoves
  <1>3. Again = {} /\ Again' = {} /\ \A s : Scanned(s)' = Scanned(s)
    BY <1>1 DEF Again, Scanned
  <1>4. app' = app
    BY AppStays
  <1> HIDE DEF x
  <1>5. Repeats'
    BY <1>1, <1>2, <1>3 DEF Exact, Repeats
  <1>6. IsFiniteSet(PairsOf(edges')) /\ edge_count' = Cardinality(PairsOf(edges') \ InFlight')
    <2> DEFINE S == PairsOf(edges) \ {x}
    <2>1. IsFiniteSet(S) /\ x \notin S /\ edge_count = Cardinality(S)
      <3>1. IsFiniteSet(S)
        BY NoMore DEF Exact, Tallies
      <3> QED  BY <1>2, <3>1 DEF Exact, Tallies
    <2>2. PairsOf(edges') = S \cup {x} /\ PairsOf(edges') \ InFlight' = S \cup {x}
      BY <1>2
    <2> HIDE DEF S
    <2>3. IsFiniteSet(S \cup {x}) /\ Cardinality(S \cup {x}) = Cardinality(S) + 1
      BY <2>1, FS_AddElement
    <2> QED  BY <1>1, <2>1, <2>2, <2>3
  <1>7. Somewhere' = Somewhere
    BY <1>2 DEF Somewhere
  <1>8. Tallies'
    BY <1>1, <1>2, <1>3, <1>6, <1>7 DEF Exact, Tallies
  <1>9. Accounted'
    BY <1>1, <1>3, <1>4, <1>7 DEF Exact, Offered, Accounted
  <1>10. Offered'
    BY <1>1, <1>3, <1>9 DEF Exact, Offered
  <1> QED  BY <1>5, <1>8, <1>10 DEF Exact

\* A step that leaves the books alone, with nothing claimed that waits.
LEMMA ExactKeeps ==
    ASSUME Exact, UNCHANGED <<app, nodes, seen, frontier, visited, visited_pairs, edges, skipped,
                              edge_count, depth>>,
           pc # "act", InFlight' = InFlight, frontier \in Seq(Pending),
           pc' = "act" => frontier # <<>>,
           pc' = "scan" => pc = "start" /\ current_bundle' = Seed,
           pc' = "start" => pc = "start",
           pc = "scan" => Scanned(current_bundle),
           pc' \in {"reason", "act", "observe"} => pc \in {"scan", "reason", "act", "observe"}
    PROVE  Exact'
  <1>1. /\ Settled' = Settled /\ Waiting' = Waiting /\ \A s : Scanned(s)' = Scanned(s)
        /\ Again = {}
    BY DEF Settled, Waiting, Scanned, Again
  <1>2. Waiting \cap visited = {}
    BY <1>1 DEF Exact, Repeats
  <1>3. pc' = "act" => PairOf(Candidate') \in Waiting
    <2> SUFFICES ASSUME pc' = "act" PROVE PairOf(Candidate') \in Waiting
      OBVIOUS
    <2>1. Candidate' = frontier[1] /\ 1 \in DOMAIN frontier
      BY DEF Candidate
    <2> QED  BY <2>1 DEF Waiting, PairsOf
  <1>4. Again' \cap visited = {}
    BY <1>2, <1>3 DEF Again
  <1>5. Repeats'
    <2>1. (visited' \ OldVisited) \ Again' = visited \ OldVisited
          /\ (visited \ OldVisited) \ Again = visited \ OldVisited
      BY <1>1, <1>4
    <2>2. visited_pairs' = Cardinality((visited' \ OldVisited) \ Again')
      BY <2>1 DEF Exact, Repeats
    <2>3. ~(pc' = "act" /\ PairOf(Candidate') \in visited')
      BY <1>2, <1>3
    <2> QED  BY <1>1, <1>2, <2>2, <2>3 DEF Exact, Repeats
  <1>6. Somewhere' = Somewhere
    BY <1>1 DEF Somewhere
  <1>7. Tallies'
    BY <1>1, <1>6 DEF Exact, Tallies
  <1>8. Accounted'
    BY <1>1, <1>6 DEF Exact, Offered, Accounted
  <1>9. Offered'
    BY <1>1, <1>8 DEF Exact, Offered
  <1> QED  BY <1>5, <1>7, <1>9 DEF Exact

\* The same books at the same place.
LEMMA ExactSame ==
    ASSUME Exact, UNCHANGED <<app, nodes, seen, frontier, visited, visited_pairs, edges, skipped,
                              edge_count, depth, pc, acted, pending, current_bundle,
                              current_state_id>>
    PROVE  Exact'
  <1>1. /\ Settled' = Settled /\ Waiting' = Waiting /\ InFlight' = InFlight /\ Again' = Again
        /\ \A s : Scanned(s)' = Scanned(s)
    BY DEF Settled, Waiting, InFlight, Scanned, Again, Candidate
  <1>2. Reachable' = Reachable /\ Candidate' = Candidate
    BY DEF Reachable, InPlace, Candidate, Replay, Landed
  <1>3. Somewhere' = Somewhere
    BY <1>1 DEF Somewhere
  <1>4. Repeats' /\ Tallies'
    BY <1>1, <1>2, <1>3 DEF Exact, Repeats, Tallies
  <1>5. Offered'
    BY <1>1, <1>3 DEF Exact, Offered, Accounted
  <1> QED  BY <1>4, <1>5 DEF Exact

\* Every step of the loop keeps the books exact.
LEMMA ExactRun ==
    ASSUME Calm, CalmBearings, Exact, [Next]_vars
    PROVE  Exact'
  <1>0. Obedient /\ Types /\ Mapped /\ Budget /\ frontier \in Seq(Pending)
    BY CalmIsObedient DEF CalmBearings, Bearings, RecoveryTypes, Types, TypeOK, QueueType
  <1>c. pc' = "act" => frontier' # <<>>
    BY <1>0, StepTypes DEF Types, Control
  <1>1. CASE ScanFirst
    BY <1>0, <1>1, ScanExact
  <1>2. CASE Act
    BY <1>0, <1>2, ActExact
  <1>3. CASE ObserveEdge
    BY <1>0, <1>3, EdgeExact
  <1>4. CASE OpenSeed \/ OpenSeedFails
    <2>1. /\ UNCHANGED <<app, nodes, seen, frontier, visited, visited_pairs, edges, skipped,
                         edge_count, depth>>
          /\ pc = "start" /\ pc' \in {"scan", "done"} /\ (pc' = "scan" => current_bundle' = Seed)
      BY <1>4 DEF OpenSeed, OpenSeedFails, store, current, queues, counts
    <2>2. InFlight' = InFlight
      BY <2>1 DEF InFlight
    <2> QED  BY <1>0, <2>1, <2>2, ExactKeeps
  <1>5. CASE ScanAgain
    <2>1. /\ UNCHANGED <<app, nodes, seen, frontier, visited, visited_pairs, edges, skipped,
                         edge_count, depth>>
          /\ pc = "scan" /\ pc' = "reason" /\ Scanned(current_bundle)
      BY <1>5 DEF ScanAgain, ScanVisit, Superstep, browser, counts
    <2>2. InFlight' = InFlight
      BY <2>1 DEF InFlight
    <2> QED  BY <1>0, <2>1, <2>2, ExactKeeps
  <1>6. CASE ReasonAudit \/ ReasonAgain \/ ObserveSkip
    <2>1. /\ UNCHANGED <<app, nodes, seen, frontier, visited, visited_pairs, edges, skipped,
                         edge_count, depth>>
          /\ pc \in {"reason", "observe"} /\ pc' \in {"act", "end"} /\ (pc = "observe" => ~acted)
      BY <1>6, NextActType DEF ReasonAudit, ReasonAgain, ReasonVisit, ObserveSkip, Superstep,
         browser, store, current, queues, counts
    <2>2. InFlight' = InFlight
      BY <2>1 DEF InFlight
    <2> QED  BY <1>0, <1>c, <2>1, <2>2, ExactKeeps
  <1>7. CASE Finish
    <2>1. /\ UNCHANGED <<app, nodes, seen, frontier, visited, visited_pairs, edges, skipped,
                         edge_count, depth>>
          /\ pc = "end" /\ pc' = "done"
      BY <1>7 DEF Finish, store, current, queues, counts
    <2>2. InFlight' = InFlight
      BY <2>1 DEF InFlight
    <2> QED  BY <1>0, <2>1, <2>2, ExactKeeps
  <1>8. CASE Failure
    <2>1. /\ UNCHANGED <<app, nodes, seen, frontier, visited, visited_pairs, edges, skipped,
                         edge_count, depth>>
          /\ pc = "reason" /\ pc' = "raised"
      BY <1>0, <1>8, CalmFailure
    <2>2. InFlight' = InFlight
      BY <2>1 DEF InFlight
    <2> QED  BY <1>0, <2>1, <2>2, ExactKeeps
  <1>9. CASE UNCHANGED vars
    <2>1. UNCHANGED <<app, nodes, seen, frontier, visited, visited_pairs, edges, skipped,
                      edge_count, depth, pc, acted, pending, current_bundle, current_state_id>>
      BY <1>9 DEF vars, browser, store, current, flight, queues, counts
    <2> QED  BY <2>1, ExactSame
  <1> QED  BY <1>1, <1>2, <1>3, <1>4, <1>5, <1>6, <1>7, <1>8, <1>9 DEF Next, Stopped

\* A resume begins with the checkpoint the node began with.
LEMMA ResumeLeaves ==
    ASSUME Crash, recovery = "resume"
    PROVE  UNCHANGED <<pc, current, flight, queues, counts>>
  BY DEF Crash, CrashInScan, CrashInReason, CrashInReplay, CrashInAct, CrashInObserve,
         Recover, Restart, Resume

\* What the node that was cut short has done already is done again, and nothing
\* is counted for it before that.
LEMMA ExactCrash ==
    ASSUME Obedient, Types, Mapped, Exact, Crash, recovery = "resume"
    PROVE  Exact'
  <1> DEFINE c == PairOf(Candidate)
             x == PairOf(pending)
  <1>1. /\ UNCHANGED <<pc, current_bundle, current_state_id, depth, pending, acted,
                       frontier, seen, skipped, edge_count, visited_pairs>>
        /\ app' = app
    BY ResumeLeaves, CrashMapped DEF current, flight, queues, counts
  <1>2. /\ Waiting' = Waiting /\ InFlight' = InFlight /\ Again' = Again
        /\ \A s : Scanned(s)' = Scanned(s)
    BY <1>1 DEF Waiting, InFlight, Again, Scanned, Candidate
  <1>3. Reachable' = Reachable /\ Candidate' = Candidate
    BY <1>1 DEF Reachable, InPlace, Candidate, Replay, Landed
  <1>4. \/ visited' = visited
        \/ pc = "act" /\ visited' = visited \cup {c} /\ Reachable
    BY DEF Crash, CrashInScan, CrashInReason, CrashInReplay, CrashInAct, CrashInObserve, store,
           Reachable
  <1>5. pc = "act" => c \in Waiting /\ Again = {c}
    <2> SUFFICES ASSUME pc = "act" PROVE c \in Waiting /\ Again = {c}
      OBVIOUS
    <2>1. frontier \in Seq(Pending) /\ frontier # <<>> /\ frontier[1] = Candidate
      BY CandidateNow
    <2>2. 1 \in DOMAIN frontier
      BY <2>1
    <2> QED  BY <2>1, <2>2 DEF Waiting, PairsOf, Again
  <1>6. \/ edges' = edges
        \/ pc = "observe" /\ acted /\ PairsOf(edges') = PairsOf(edges) \cup {x}
    <2>1. ASSUME NEW e \in Edge, edges' = Append(edges, e), PairOf(e) = x
          PROVE  PairsOf(edges') = PairsOf(edges) \cup {x}
      <3>1. edges \in Seq(Edge)
        BY DEF Types, TypeOK, StoreType
      <3> HIDE DEF x
      <3> QED  BY <2>1, <3>1, PairsAppended
    <2> QED  BY <2>1, CrashLeaves
  <1>7. \/ nodes' = nodes
        \/ /\ pc = "scan" /\ DOMAIN nodes' = DOMAIN nodes \cup {current_bundle}
           /\ current_bundle \notin DOMAIN nodes => nodes'[current_bundle] = depth
           /\ \A s \in DOMAIN nodes : nodes'[s] = nodes[s]
           /\ ~Scanned(current_bundle)
    BY CrashLeaves DEF PersistState
  <1>8. InFlight = IF pc = "observe" /\ acted THEN {x} ELSE {}
    BY DEF InFlight
  <1> HIDE DEF c, x
  <1>9. Repeats'
    <2>1. (visited' \ OldVisited) \ Again' = (visited \ OldVisited) \ Again
      BY <1>2, <1>4, <1>5
    <2>2. visited_pairs' = Cardinality((visited' \ OldVisited) \ Again')
      BY <1>1, <2>1 DEF Exact, Repeats
    <2>3. IsFiniteSet(visited' \ OldVisited)
      <3>1. CASE visited' = visited
        BY <3>1 DEF Exact, Repeats
      <3>2. CASE visited' = visited \cup {c}
        <4>1. visited' \ OldVisited \subseteq (visited \ OldVisited) \cup {c}
          BY <3>2
        <4>2. IsFiniteSet((visited \ OldVisited) \cup {c})
          BY FS_AddElement DEF Exact, Repeats
        <4> QED  BY <4>1, <4>2, FS_Subset
      <3> QED  BY <1>4, <3>1, <3>2
    <2>4. Waiting' \cap visited' \subseteq Again' /\ OldVisited \subseteq visited'
      BY <1>2, <1>4, <1>5 DEF Exact, Repeats
    <2>5. pc' = "act" /\ PairOf(Candidate') \in visited' => Reachable'
      BY <1>1, <1>3, <1>4 DEF Exact, Repeats
    <2> QED  BY <1>1, <1>2, <2>2, <2>3, <2>4, <2>5 DEF Exact, Repeats
  <1>10. Settled' \cup InFlight' = Settled \cup InFlight
    BY <1>1, <1>2, <1>6, <1>8 DEF Settled
  <1>11. Tallies'
    <2>1. Somewhere' = Somewhere
      BY <1>2, <1>10 DEF Somewhere
    <2>2. visited' \subseteq Somewhere'
      BY <1>4, <1>5, <2>1 DEF Exact, Tallies, Somewhere
    <2>3. IsFiniteSet(PairsOf(edges')) /\ PairsOf(edges') \ InFlight' = PairsOf(edges) \ InFlight
      <3>1. CASE edges' = edges
        BY <1>2, <3>1 DEF Exact, Tallies
      <3>2. CASE pc = "observe" /\ acted /\ PairsOf(edges') = PairsOf(edges) \cup {x}
        <4>1. IsFiniteSet(PairsOf(edges) \cup {x})
          BY FS_AddElement DEF Exact, Tallies
        <4> QED  BY <1>2, <1>8, <3>2, <4>1
      <3> QED  BY <1>6, <3>1, <3>2
    <2>4. edge_count' = Cardinality(PairsOf(edges') \ InFlight')
      BY <1>1, <2>3 DEF Exact, Tallies
    <2>5. (Settled' \cup InFlight') \cap Waiting' = {}
      BY <1>2, <1>10 DEF Exact, Tallies
    <2>6. \A y \in Settled' \cup Waiting' \cup InFlight' : Scanned(y[1])'
      BY <1>2, <1>10 DEF Exact, Tallies
    <2> QED  BY <1>1, <2>2, <2>3, <2>4, <2>5, <2>6 DEF Exact, Tallies
  <1>12. Offered'
    <2>1. Somewhere' = Somewhere
      BY <1>2, <1>10 DEF Somewhere
    <2>2. Accounted'
      BY <1>1, <1>2, <1>7, <2>1 DEF Exact, Offered, Accounted
    <2>3. \A s \in DOMAIN nodes' :
            \/ Scanned(s)' \/ (s = Seed /\ nodes'[s] = 0)
            \/ pc' = "scan" /\ s = current_bundle' /\ nodes'[s] = depth'
      BY <1>1, <1>2, <1>7 DEF Exact, Offered
    <2> QED  BY <1>1, <1>2, <2>2, <2>3 DEF Exact, Offered
  <1> QED  BY <1>9, <1>11, <1>12 DEF Exact

\* The books, after any number of resumes.
ResumeBooks == recovery = "resume" => Exact

LEMMA ResumeBooksStep ==
    ASSUME Calm, CalmBearings, ResumeBooks, [RecoveryNext]_recoveryVars
    PROVE  ResumeBooks'
  <1>0. recovery' = recovery
    BY DEF RecoveryNext, Run, Crash, CrashInScan, CrashInReason, CrashInReplay, CrashInAct,
           CrashInObserve, Recover, Revive, recoveryVars
  <1> SUFFICES ASSUME recovery = "resume" PROVE Exact'
    BY <1>0 DEF ResumeBooks
  <1>1. Exact /\ Obedient /\ Types /\ Mapped
    BY CalmIsObedient DEF ResumeBooks, CalmBearings, Bearings, RecoveryTypes
  <1>2. CASE [Next]_vars
    BY <1>1, <1>2, ExactRun
  <1>3. CASE Crash
    BY <1>1, <1>3, ExactCrash
  <1> QED  BY <1>2, <1>3 DEF RecoveryNext, Run, recoveryVars

\* A run that is resumed at its checkpoint drops no control and counts each
\* claim, edge and state once, although the node that was cut short runs twice
\* (scan, act and observe, graph_runner.py 142-324); while nothing but
\* perception raises, and the store's only old node is the seed.
THEOREM ResumesAreExact ==
    ASSUME Calm, SeedOnly
    PROVE  RecoverySpec => []ResumeExact
  <1> DEFINE I == CalmBearings /\ ResumeBooks
  <1>1. RecoveryInit => I
    <2> SUFFICES ASSUME RecoveryInit PROVE I
      OBVIOUS
    <2>1. /\ nodes = OldNodes /\ visited = OldVisited /\ edges = <<>> /\ skipped = <<>>
          /\ frontier = <<>> /\ seen = <<>> /\ pc = "start" /\ depth = 0
          /\ edge_count = 0 /\ visited_pairs = 0
      BY DEF RecoveryInit, Init
    <2>2. /\ Settled = {} /\ Waiting = {} /\ InFlight = {} /\ Again = {} /\ PairsOf(edges) = {}
          /\ \A s : ~Scanned(s)
      BY <2>1 DEF Settled, Waiting, InFlight, PairsOf, Scanned, Again
    <2>3. (visited \ OldVisited) = {} /\ ((visited \ OldVisited) \ Again) = {}
          /\ PairsOf(edges) \ InFlight = {}
      BY <2>1, <2>2
    <2>4. Repeats
      BY <2>1, <2>2, <2>3, FS_EmptySet DEF Repeats
    <2>5. Tallies
      BY <2>1, <2>2, <2>3, FS_EmptySet DEF Tallies, Somewhere
    <2>6. Offered
      BY <2>1, <2>2 DEF Offered, Accounted, SeedOnly
    <2> QED  BY <2>4, <2>5, <2>6, CalmBearingsInit DEF ResumeBooks, Exact
  <1>2. I /\ [RecoveryNext]_recoveryVars => I'
    BY CalmBearingsStep, ResumeBooksStep
  <1>3. I => ResumeExact
    <2> SUFFICES ASSUME recovery = "resume", Exact PROVE ResumeExact
      BY DEF ResumeBooks, ResumeExact
    <2>1. UNION {{<<s, a>> : a \in Offers(app, s)} :
                   s \in {t \in DOMAIN nodes : Scanned(t) /\ nodes[t] < DepthLimit}}
            \subseteq Somewhere
      BY DEF Exact, Offered, Accounted
    <2>2. /\ visited_pairs = Cardinality((visited \ OldVisited) \ Again)
          /\ edge_count = Cardinality(PairsOf(edges) \ InFlight)
          /\ \A i, j \in DOMAIN seen : seen[i] = seen[j] => i = j
      BY DEF Exact, Repeats, Tallies
    <2> QED  BY <2>1, <2>2 DEF ResumeExact, Somewhere, Settled, Waiting
  <1> QED  BY <1>1, <1>2, <1>3, PTL DEF RecoverySpec

(***************************************************************************)
(* A run that ends with nothing left to do.                                *)
(***************************************************************************)

\* These states, and where one control more leads.
Further(near) == near \cup ({Dest(app, s, a) : s \in near, a \in Actions} \ {NoPage})

\* The states at most n actions away are those at most n - 1 away and what
\* their controls lead to.
LEMMA WithinDef ==
    ASSUME Types
    PROVE  Within = [n \in 0..DepthLimit |->
                       IF n = 0 THEN {Open(app, Seed)}
                       ELSE Further(Within[n - 1])]
  <1> DEFINE V == SUBSET (DOMAIN app \cup {NoPage})
             m == DepthLimit
             F == [x \in V \X (1..m) |-> Further(x[1])]
             first == {Open(app, Seed)}
             Is(w) == w = [n \in 0..m |-> IF n = 0 THEN first ELSE Further(w[n - 1])]
  <1>1. m \in Nat /\ IsApp(app)
    BY AppType, ExplorationAssumption
  <1>2. first \in V
    BY OpenType
  <1>3. F \in [V \X (1..m) -> V]
    <2> SUFFICES ASSUME NEW x \in V \X (1..m) PROVE Further(x[1]) \in V
      OBVIOUS
    <2>1. \A s \in x[1], a \in Actions : Dest(app, s, a) \in DOMAIN app \cup {NoPage}
      BY <1>1, DestType
    <2>2. x[1] \in V
      OBVIOUS
    <2> QED  BY <2>1, <2>2 DEF Further
  <1>4. PICK f \in [0..m -> V] :
          f[0] = first /\ \A i \in 1..m : f[i] = F[<<f[i - 1], i>>]
    <2> HIDE DEF F, V, m, Is, first
    <2>1. Recursion(V, m, first, F)
      BY <1>1, <1>2, <1>3, RecursionExists
    <2> QED  BY <2>1 DEF Recursion
  <1>5. \A i \in 1..m : f[i] = Further(f[i - 1])
    <2> SUFFICES ASSUME NEW i \in 1..m PROVE f[i] = Further(f[i - 1])
      OBVIOUS
    <2>1. i - 1 \in 0..m
      BY <1>1
    <2>2. f[i - 1] \in V
      <3> HIDE DEF V, F, m
      <3> QED  BY <1>4, <2>1
    <2>3. F[<<f[i - 1], i>>] = Further(f[i - 1])
      <3> HIDE DEF V, m
      <3> QED  BY <2>2
    <2> QED  BY <1>4, <2>3
  <1>6. Is(f)
    <2> HIDE DEF F, V, first, m
    <2> QED  BY <1>1, <1>4, <1>5
  <1>7. Within = CHOOSE w : Is(w)
    BY DEF Within, Further
  <1> HIDE DEF Is
  <1>8. Is(Within)
    BY <1>6, <1>7
  <1> QED  BY <1>8 DEF Is

\* The seed is no action away.
LEMMA WithinStart ==
    ASSUME Types
    PROVE  Within[0] = {Open(app, Seed)}
  <1>1. 0 \in 0..DepthLimit
    BY ExplorationAssumption
  <1> DEFINE w == Within
  <1>2. w = [n \in 0..DepthLimit |->
               IF n = 0 THEN {Open(app, Seed)}
               ELSE Further(w[n - 1])]
    BY WithinDef
  <1> HIDE DEF w
  <1>3. w[0] = {Open(app, Seed)}
    BY <1>1, <1>2
  <1> QED  BY <1>3 DEF w

\* A control leads one further.
LEMMA WithinNext ==
    ASSUME Types, NEW n \in Nat, n + 1 <= DepthLimit
    PROVE  Within[n + 1] = Further(Within[n])
  <1>1. n + 1 \in 0..DepthLimit /\ (n + 1) - 1 = n /\ n + 1 # 0
    BY ExplorationAssumption
  <1> DEFINE w == Within
  <1>2. w = [k \in 0..DepthLimit |->
               IF k = 0 THEN {Open(app, Seed)}
               ELSE Further(w[k - 1])]
    BY WithinDef
  <1> HIDE DEF w
  <1>3. w[n + 1] = Further(w[n])
    BY <1>1, <1>2
  <1> QED  BY <1>3 DEF w

LEMMA WithinGrows ==
    ASSUME Types, NEW n \in Nat, NEW k \in Nat, n <= k, k <= DepthLimit
    PROVE  Within[n] \subseteq Within[k]
  <1> DEFINE S == {j \in Nat : n + j <= DepthLimit => Within[n] \subseteq Within[n + j]}
  <1>0. DepthLimit \in Nat
    BY ExplorationAssumption
  <1>1. 0 \in S
    <2>1. n + 0 = n
      OBVIOUS
    <2> QED  BY <2>1
  <1>2. ASSUME NEW j \in S PROVE j + 1 \in S
    <2> SUFFICES ASSUME n + (j + 1) <= DepthLimit PROVE Within[n] \subseteq Within[n + (j + 1)]
      OBVIOUS
    <2>1. n + j \in Nat /\ n + j <= DepthLimit /\ (n + j) + 1 <= DepthLimit
          /\ n + (j + 1) = (n + j) + 1
      BY <1>0
    <2>2. Within[n] \subseteq Within[n + j]
      BY <2>1
    <2>3. Within[n + j] \subseteq Within[(n + j) + 1]
      BY <2>1, WithinNext DEF Further
    <2> QED  BY <2>1, <2>2, <2>3
  <1>3. S = Nat
    <2>1. S \in SUBSET Nat
      OBVIOUS
    <2> HIDE DEF S
    <2> QED  BY <1>1, <1>2, <2>1, InductionOnNat
  <1>4. k - n \in Nat /\ n + (k - n) = k
    OBVIOUS
  <1>5. k - n \in S
    BY <1>3, <1>4
  <1> QED  BY <1>4, <1>5

\* ... in an application that holds still.
LEMMA WithinStays ==
    ASSUME app' = app
    PROVE  Within' = Within
  BY DEF Within

-----------------------------------------------------------------------------
(* Distances, the edges, the dead ends, and how a run ends.                *)

\* A state is recorded with a distance at which it can be reached, and what
\* waits, is in flight or is about to be scanned is one further.
Near ==
    /\ \A s \in DOMAIN nodes : nodes[s] <= DepthLimit /\ s \in Within[nodes[s]]
    /\ Seed \in DOMAIN nodes => nodes[Seed] = 0
    /\ pc = "scan" => depth <= DepthLimit /\ current_bundle \in Within[depth]
    /\ \A i \in DOMAIN frontier : frontier[i].depth = nodes[frontier[i].from] + 1
    /\ pc = "observe" /\ acted =>
         pending.depth = nodes[pending.from] + 1 /\ pending.depth <= DepthLimit

\* An edge is a control of the page it starts from, and leads one further at most.
Followed ==
    \A i \in DOMAIN edges :
      /\ edges[i].to = Dest(app, edges[i].from, edges[i].action)
      /\ \/ /\ edges[i].to \in DOMAIN nodes
            /\ nodes[edges[i].to] <= nodes[edges[i].from] + 1
         \/ /\ pc = "scan" /\ edges[i].to = current_bundle
            /\ depth = nodes[edges[i].from] + 1

\* No control with a side effect leads anywhere, as ExhaustedIsComplete has it.
Safe == \A s \in Within[DepthLimit], a \in Unsafe : Dest(app, s, a) = NoPage

\* What was skipped leads nowhere, for then every path can be replayed.
DeadEnds ==
    Safe => \A i \in DOMAIN skipped : Dest(app, skipped[i].from, skipped[i].action) = NoPage

\* The end is reached with nothing to do or too many states.
Ending ==
    /\ pc \notin {"start", "done", "raised"} => Open(app, Seed) # NoPage
    /\ pc = "end" => Scanned(Seed) /\ (frontier = <<>> \/ Len(seen) >= MaxStates)
    /\ termination_reason = "frontier_exhausted" =>
         pc = "done" /\ frontier = <<>> /\ Scanned(Seed) /\ Open(app, Seed) # NoPage

\* scan records the new state at its distance, and its controls one further.
LEMMA ScanNear ==
    ASSUME Types, Levels, Endpoints, Recorded, Near, ScanFirst
    PROVE  /\ \A s \in DOMAIN nodes' : nodes'[s] <= DepthLimit /\ s \in Within[nodes'[s]]
           /\ Seed \in DOMAIN nodes' => nodes'[Seed] = 0
           /\ \A i \in DOMAIN frontier' : frontier'[i].depth = nodes'[frontier'[i].from] + 1
           /\ DOMAIN nodes' = DOMAIN nodes \cup {current_bundle}
           /\ nodes'[current_bundle] = depth
           /\ \A s \in DOMAIN nodes : nodes'[s] = nodes[s]
  <1> DEFINE s0 == current_bundle
  <1>1. /\ pc = "scan" /\ ~Scanned(s0) /\ nodes' = PersistState(nodes, s0, depth)
    BY DEF ScanFirst, ScanVisit, Superstep
  <1>2. s0 \in DOMAIN nodes => nodes[s0] = depth
    BY <1>1 DEF Recorded
  <1>3. DOMAIN nodes' = DOMAIN nodes \cup {s0} /\ \A s \in DOMAIN nodes : nodes'[s] = nodes[s]
    BY <1>1 DEF PersistState
  <1>4. s0 \notin DOMAIN nodes => nodes'[s0] = depth
    BY <1>1 DEF PersistState
  <1>5. nodes'[s0] = depth
    BY <1>2, <1>3, <1>4
  <1>6. \A s \in DOMAIN nodes' : nodes'[s] <= DepthLimit /\ s \in Within[nodes'[s]]
    BY <1>1, <1>3, <1>5 DEF Near
  <1>7. Seed \in DOMAIN nodes' => nodes'[Seed] = 0
    <2>1. CASE s0 = Seed /\ Seed \notin DOMAIN nodes
      <3>1. ~Scanned(Seed)
        BY <1>1, <2>1
      <3> QED  BY <1>1, <1>5, <2>1, <3>1 DEF Recorded
    <2>2. CASE Seed \in DOMAIN nodes
      BY <1>3, <2>2 DEF Near
    <2> QED  BY <1>3, <2>1, <2>2
  <1>8. \A i \in DOMAIN frontier : /\ frontier[i].from \in DOMAIN nodes
                                   /\ frontier[i].depth = nodes'[frontier[i].from] + 1
    BY <1>3 DEF Endpoints, Near
  <1>9. \A i \in DOMAIN frontier' : frontier'[i].depth = nodes'[frontier'[i].from] + 1
    <2>0. frontier \in Seq(Pending)
      BY DEF Types, TypeOK, QueueType
    <2>1. CASE frontier' = frontier
      BY <1>8, <2>1
    <2>2. CASE Grown(frontier, visited, s0, Enumerate(app, s0), depth + 1, current_path,
                     Len(Enumerate(app, s0)), frontier')
      <3>1. /\ frontier' \in Seq(Pending)
            /\ \A k \in 1..Len(frontier) : frontier'[k] = frontier[k]
            /\ \A k \in (Len(frontier) + 1)..Len(frontier') :
                 frontier'[k].from = s0 /\ frontier'[k].depth = depth + 1
        BY <2>2 DEF Grown
      <3>2. /\ DOMAIN frontier = 1..Len(frontier) /\ DOMAIN frontier' = 1..Len(frontier')
            /\ Len(frontier) \in Nat /\ Len(frontier') \in Nat
        BY <2>0, <3>1
      <3>3. \A k \in 1..Len(frontier') :
              k \in 1..Len(frontier) \/ k \in (Len(frontier) + 1)..Len(frontier')
        BY <3>2
      <3> QED  BY <1>5, <1>8, <3>1, <3>2, <3>3
    <2> QED  BY <2>1, <2>2, ScanFrontier
  <1> QED  BY <1>3, <1>5, <1>6, <1>7, <1>9

\* Every step keeps the distances.
LEMMA NearStep ==
    ASSUME Obedient, Types, Levels, Endpoints, Recorded, Mapped, Near, Open(app, Seed) # NoPage,
           [Next]_vars, pc' # "raised"
    PROVE  Near'
  <1>0. app' = app /\ Within' = Within /\ DepthLimit \in Nat
    BY AppStays, WithinStays, ExplorationAssumption
  <1>1. CASE OpenSeed \/ OpenSeedFails
    <2>1. /\ pc = "start" /\ UNCHANGED <<nodes, frontier, depth>>
          /\ \/ pc' = "scan" /\ current_bundle' = Seed
             \/ pc' = "done"
      BY <1>1 DEF OpenSeed, OpenSeedFails, store, queues, current
    <2>2. depth = 0
      BY <2>1 DEF Recorded
    <2>3. Seed \in Within[0]
      BY WithinStart DEF Open
    <2> QED  BY <1>0, <2>1, <2>2, <2>3 DEF Near
  <1>2. CASE ScanFirst
    <2>1. pc' = "reason"
      BY <1>2 DEF ScanFirst, ScanVisit
    <2> QED  BY <1>0, <1>2, <2>1, ScanNear DEF Near
  <1>3. CASE Act
    <2>1. /\ pc' = "observe" /\ nodes' = nodes /\ pending' = Candidate
          /\ frontier' = Tail(frontier) /\ frontier \in Seq(Pending) /\ frontier # <<>>
          /\ frontier[1] = Candidate
      BY <1>3, ActOutcome, CandidateNow DEF ActStep, Superstep
    <2>2. /\ 1 \in DOMAIN frontier
          /\ \A i \in DOMAIN Tail(frontier) : /\ i + 1 \in DOMAIN frontier
                                              /\ Tail(frontier)[i] = frontier[i + 1]
      BY <2>1
    <2>3. \A i \in DOMAIN frontier' : frontier'[i].depth = nodes[frontier'[i].from] + 1
      BY <2>1, <2>2 DEF Near
    <2>4. Candidate.depth = nodes[Candidate.from] + 1
      BY <2>1, <2>2 DEF Near
    <2>5. Candidate.depth <= DepthLimit
      BY <2>1, <2>2 DEF Levels, Sorted
    <2> QED  BY <1>0, <2>1, <2>3, <2>4, <2>5 DEF Near
  <1>4. CASE ObserveEdge
    <2>1. /\ pc = "observe" /\ acted /\ pc' = "scan" /\ UNCHANGED <<nodes, frontier>>
          /\ depth' = pending.depth /\ current_bundle' = next_bundle
      BY <1>4 DEF ObserveEdge, Superstep, queues
    <2>2. /\ pending.depth = nodes[pending.from] + 1 /\ pending.depth <= DepthLimit
          /\ pending.from \in DOMAIN nodes
      BY <2>1 DEF Near, Endpoints
    <2>3. next_bundle = Dest(app, pending.from, pending.action)
      BY <2>1 DEF Mapped
    <2>4. pending.action \in Actions /\ next_bundle # NoPage
      BY <2>1, CrawlerAssumption DEF Types, Control, Pending
    <2>5. pending.from \in Within[nodes[pending.from]] /\ nodes[pending.from] \in Nat
      BY <2>2 DEF Near, Types, TypeOK, StoreType
    <2> DEFINE n == nodes[pending.from]
    <2>6. n \in Nat /\ n + 1 <= DepthLimit /\ pending.from \in Within[n]
      BY <2>2, <2>5
    <2> HIDE DEF n
    <2>7. Within[n + 1] = Further(Within[n])
      BY <2>6, WithinNext
    <2>8. next_bundle \in Within[n + 1]
      BY <2>3, <2>4, <2>6, <2>7 DEF Further
    <2>9. next_bundle \in Within[pending.depth]
      BY <2>2, <2>8 DEF n
    <2> QED  BY <1>0, <2>1, <2>2, <2>9 DEF Near
  <1>5. CASE ScanAgain \/ ReasonAudit \/ ReasonAgain \/ ObserveSkip \/ Finish
    <2>1. pc' \in {"reason", "act", "end", "done"} /\ UNCHANGED <<nodes, frontier>>
      BY <1>5, NextActType DEF ScanAgain, ScanVisit, ReasonAudit, ReasonAgain, ReasonVisit,
            ObserveSkip, Finish, store, queues
    <2> QED  BY <1>0, <2>1 DEF Near
  <1>6. CASE Failure
    BY <1>6 DEF Failure, OutOfSteps, ScanRaises, ReasonRaises, ActRaises, ObserveRaises, Raise
  <1>7. CASE UNCHANGED vars
    <2>1. UNCHANGED <<nodes, frontier, pc, depth, current_bundle, acted, pending>>
      BY <1>7 DEF vars, store, current, flight, queues
    <2> QED  BY <1>0, <2>1 DEF Near
  <1> QED  BY <1>1, <1>2, <1>3, <1>4, <1>5, <1>6, <1>7 DEF Next, Stopped

\* Every step keeps the edges followed.
LEMMA FollowedStep ==
    ASSUME Obedient, Types, Levels, Endpoints, Recorded, Mapped, Near, Followed,
           [Next]_vars, pc' # "raised"
    PROVE  Followed'
  <1>0. app' = app /\ edges \in Seq(Edge) /\ DOMAIN edges = 1..Len(edges) /\ Len(edges) \in Nat
    <2>1. edges \in Seq(Edge)
      BY DEF Types, TypeOK, StoreType
    <2> QED  BY <2>1, AppStays
  <1>1. CASE ScanFirst
    <2>1. pc = "scan" /\ pc' = "reason" /\ edges' = edges
      BY <1>1 DEF ScanFirst, ScanVisit, Superstep
    <2>2. /\ DOMAIN nodes' = DOMAIN nodes \cup {current_bundle} /\ nodes'[current_bundle] = depth
          /\ \A s \in DOMAIN nodes : nodes'[s] = nodes[s]
      BY <1>1, ScanNear
    <2>3. \A i \in DOMAIN edges : edges[i].from \in DOMAIN nodes
      BY DEF Endpoints, EndsBut
    <2>4. ASSUME NEW i \in DOMAIN edges
          PROVE  /\ edges[i].to \in DOMAIN nodes'
                 /\ nodes'[edges[i].to] <= nodes'[edges[i].from] + 1
      <3>1. nodes'[edges[i].from] = nodes[edges[i].from]
        BY <2>2, <2>3
      <3>2. CASE edges[i].to \in DOMAIN nodes /\ nodes[edges[i].to] <= nodes[edges[i].from] + 1
        BY <2>2, <3>1, <3>2
      <3>3. CASE edges[i].to = current_bundle /\ depth = nodes[edges[i].from] + 1
        <4>1. depth \in Nat
          BY DEF Types, TypeOK, CurrentType
        <4> QED  BY <2>2, <3>1, <3>3, <4>1
      <3> QED  BY <3>2, <3>3 DEF Followed
    <2> QED  BY <1>0, <2>1, <2>4 DEF Followed
  <1>2. CASE ScanAgain
    <2>1. pc = "scan" /\ pc' = "reason" /\ UNCHANGED <<edges, nodes>> /\ Scanned(current_bundle)
      BY <1>2 DEF ScanAgain, ScanVisit, Superstep
    <2>2. current_bundle \in DOMAIN nodes /\ nodes[current_bundle] <= depth
      BY <2>1 DEF Scanned, Endpoints, Levels
    <2>3. \A i \in DOMAIN edges : /\ edges[i].to \in DOMAIN nodes
                                  /\ nodes[edges[i].to] <= nodes[edges[i].from] + 1
      BY <2>2 DEF Followed
    <2> QED  BY <1>0, <2>1, <2>3 DEF Followed
  <1>3. CASE ObserveEdge
    <2> DEFINE e == [from |-> pending.from, to |-> next_bundle,
                     action |-> pending.action, back |-> Scanned(next_bundle)]
    <2>1. /\ pc = "observe" /\ acted /\ pc' = "scan" /\ nodes' = nodes
          /\ edges' = Append(edges, e) /\ depth' = pending.depth /\ current_bundle' = next_bundle
      BY <1>3 DEF ObserveEdge, Superstep
    <2>2. /\ e.from = pending.from /\ e.to = next_bundle /\ e.action = pending.action
      OBVIOUS
    <2>3. /\ next_bundle = Dest(app, pending.from, pending.action)
          /\ pending.depth = nodes[pending.from] + 1
      BY <2>1 DEF Mapped, Near
    <2> HIDE DEF e
    <2>4. /\ DOMAIN edges' = 1..(Len(edges) + 1) /\ edges'[Len(edges) + 1] = e
          /\ \A i \in 1..Len(edges) : edges'[i] = edges[i]
      BY <1>0, <2>1
    <2>5. \A i \in DOMAIN edges' : i \in DOMAIN edges \/ i = Len(edges) + 1
      BY <1>0, <2>4
    <2>6. \A i \in DOMAIN edges :
            /\ edges'[i].to = Dest(app, edges'[i].from, edges'[i].action)
            /\ edges'[i].to \in DOMAIN nodes
            /\ nodes[edges'[i].to] <= nodes[edges'[i].from] + 1
      BY <1>0, <2>1, <2>4 DEF Followed
    <2>7. /\ e.to = Dest(app, e.from, e.action) /\ e.to = current_bundle'
          /\ depth' = nodes[e.from] + 1
      BY <2>1, <2>2, <2>3
    <2> QED  BY <1>0, <2>1, <2>4, <2>5, <2>6, <2>7 DEF Followed
  <1>4. CASE OpenSeed \/ OpenSeedFails \/ ReasonAudit \/ ReasonAgain \/ Act \/ ObserveSkip \/ Finish
    <2>1. pc # "scan" /\ UNCHANGED <<edges, nodes>>
      BY <1>4, ActOutcome DEF OpenSeed, OpenSeedFails, ReasonAudit, ReasonAgain, ReasonVisit,
         ActStep, ObserveSkip, Finish, Superstep, store
    <2> QED  BY <1>0, <2>1 DEF Followed
  <1>5. CASE Failure
    BY <1>5 DEF Failure, OutOfSteps, ScanRaises, ReasonRaises, ActRaises, ObserveRaises, Raise
  <1>6. CASE UNCHANGED vars
    <2>1. UNCHANGED <<nodes, edges, pc, depth, current_bundle>>
      BY <1>6 DEF vars, store, current
    <2> QED  BY <1>0, <2>1 DEF Followed
  <1> QED  BY <1>1, <1>2, <1>3, <1>4, <1>5, <1>6 DEF Next, Stopped

\* No path in the frontier has a side effect, while none leads anywhere.
LEMMA SafePaths ==
    ASSUME Types, Endpoints, Mapped, Near, Followed, Safe, pc = "act"
    PROVE  Replayable(Candidate.path)
  <1> SUFFICES ASSUME NEW i \in DOMAIN Candidate.path, Candidate.path[i] \in Unsafe PROVE FALSE
    BY DEF Replayable
  <1>1. i \in 1..Len(Candidate.path)
    BY CandidateNow
  <1>2. <<Replay[i - 1], Candidate.path[i]>> \in PairsOf(edges)
    BY <1>1, ReplayArrives
  <1>3. PICK j \in DOMAIN edges : edges[j].action = Candidate.path[i]
    BY <1>2 DEF PairsOf, PairOf
  <1> DEFINE s == edges[j].from
             n == nodes[s]
  <1>4. edges \in Seq(Edge) /\ edges[j] \in Edge
    BY DEF Types, TypeOK, StoreType
  <1>5. edges[j].to # NoPage /\ edges[j].to = Dest(app, s, edges[j].action)
    BY <1>4, CrawlerAssumption DEF Followed, Edge
  <1>6. s \in DOMAIN nodes
    BY DEF Endpoints, EndsBut
  <1>7. n \in Nat /\ n <= DepthLimit /\ s \in Within[n] /\ DepthLimit \in Nat
    BY <1>6, ExplorationAssumption DEF Near, Types, TypeOK, StoreType
  <1> HIDE DEF n, s
  <1>8. s \in Within[DepthLimit]
    BY <1>7, WithinGrows
  <1> QED  BY <1>3, <1>5, <1>8 DEF Safe

\* Every step skips dead ends only.
LEMMA DeadEndsStep ==
    ASSUME Obedient, Types, Endpoints, Mapped, Sound, Near, Followed, DeadEnds, [Next]_vars
    PROVE  DeadEnds'
  <1>0. app' = app /\ Within' = Within
    BY AppStays, WithinStays
  <1> SUFFICES ASSUME Safe
               PROVE  \A i \in DOMAIN skipped' :
                        Dest(app, skipped'[i].from, skipped'[i].action) = NoPage
    BY <1>0 DEF DeadEnds, Safe
  <1>1. CASE skipped' = skipped
    BY <1>1 DEF DeadEnds
  <1>2. CASE SkipUnreplayable
    BY <1>2, SafePaths DEF SkipUnreplayable, ActStep, Superstep
  <1>3. CASE SkipActFailed
    <2>1. ActStep /\ Arrived /\ Skip("act failed") /\ pc = "act"
      BY <1>3 DEF SkipActFailed, ActStep, Superstep
    <2>2. Here = Candidate.from
      BY <2>1, ArrivedHere DEF Sound
    <2>3. Target = NoPage
      BY <1>3 DEF SkipActFailed, Raises, Obedient
    <2>4. Dest(app, Candidate.from, Candidate.action) = NoPage
      BY <2>2, <2>3 DEF Target
    <2> DEFINE d == [from |-> Candidate.from, action |-> Candidate.action,
                     reason |-> "act failed"]
    <2>5. /\ d \in Skipped /\ d.from = Candidate.from /\ d.action = Candidate.action
          /\ skipped \in Seq(Skipped) /\ skipped' = Append(skipped, d)
      BY <2>1, CandidateType DEF Skip, Skipped, Types, TypeOK, QueueType
    <2> HIDE DEF d
    <2>6. /\ DOMAIN skipped' = 1..(Len(skipped) + 1) /\ DOMAIN skipped = 1..Len(skipped)
          /\ skipped'[Len(skipped) + 1] = d /\ Len(skipped) \in Nat
          /\ \A i \in 1..Len(skipped) : skipped'[i] = skipped[i]
      BY <2>5
    <2>7. \A i \in DOMAIN skipped' : i \in DOMAIN skipped \/ i = Len(skipped) + 1
      BY <2>6
    <2> QED  BY <2>4, <2>5, <2>6, <2>7 DEF DeadEnds
  <1>4. \/ SkipUnreplayable \/ SkipReplayFailed \/ SkipReplayDiverged \/ SkipActFailed
        \/ skipped' = skipped
    BY DEF Next, Stopped, vars, queues, OpenSeed, OpenSeedFails, ScanFirst, ScanAgain, ScanVisit,
           ReasonAudit, ReasonAgain, ReasonVisit, Act, Execute, ObserveSkip, ObserveEdge, Finish,
           Failure, OutOfSteps, ScanRaises, ReasonRaises, ActRaises, ObserveRaises, Raise
  <1> QED  BY <1>1, <1>2, <1>3, <1>4, ReplaysSucceed

\* Every step keeps what an end needs.
LEMMA EndingStep ==
    ASSUME Obedient, Types, Complete, Ending, [Next]_vars
    PROVE  Ending'
  <1>0. app' = app
    BY AppStays
  <1>1. CASE OpenSeed \/ OpenSeedFails
    <2>1. \/ pc' = "scan" /\ Open(app, Seed) # NoPage /\ pc = "start"
             /\ termination_reason' = termination_reason
          \/ pc' = "done" /\ termination_reason' = "error"
      BY <1>1 DEF OpenSeed, OpenSeedFails
    <2> QED  BY <1>0, <2>1 DEF Ending
  <1>2. CASE ScanFirst \/ ScanAgain \/ Act \/ ObserveEdge
    <2>1. /\ pc \in {"scan", "act", "observe"} /\ pc' \in {"scan", "reason", "observe"}
          /\ termination_reason' = termination_reason
      BY <1>2, ActOutcome DEF ScanFirst, ScanAgain, ScanVisit, ActStep, ObserveEdge, Superstep
    <2> QED  BY <1>0, <2>1 DEF Ending
  <1>3. CASE ReasonAudit \/ ReasonAgain \/ ObserveSkip
    <2>1. /\ pc \in {"reason", "observe"} /\ pc' = NextAct /\ UNCHANGED <<frontier, seen>>
          /\ termination_reason' = termination_reason
      BY <1>3 DEF ReasonAudit, ReasonAgain, ReasonVisit, ObserveSkip, Superstep, queues
    <2>2. Scanned(Seed) /\ Scanned(Seed)'
      BY <2>1 DEF Complete, Recorded, Scanned
    <2>3. pc' = "end" => frontier = <<>> \/ Len(seen) >= MaxStates
      BY <2>1 DEF NextAct, TerminalReason
    <2>4. pc' \in {"act", "end"}
      BY <2>1, NextActType
    <2> QED  BY <1>0, <2>1, <2>2, <2>3, <2>4 DEF Ending
  <1>4. CASE Finish
    <2>1. /\ pc = "end" /\ pc' = "done" /\ UNCHANGED <<frontier, seen>>
          /\ LET reason == TerminalReason(frontier, Len(seen))
             IN  termination_reason' = IF reason = "none" THEN "frontier_exhausted" ELSE reason
      BY <1>4 DEF Finish, queues
    <2>2. /\ frontier = <<>> \/ Len(seen) >= MaxStates
          /\ Scanned(Seed) /\ Open(app, Seed) # NoPage
      BY <2>1 DEF Ending
    <2>3. termination_reason' = "frontier_exhausted" => frontier = <<>>
      BY <2>1, <2>2 DEF TerminalReason
    <2>4. Scanned(Seed)'
      BY <2>1, <2>2 DEF Scanned
    <2> QED  BY <1>0, <2>1, <2>2, <2>3, <2>4 DEF Ending
  <1>5. CASE Failure
    <2>1. pc \in Nodes /\ pc' = "raised" /\ termination_reason' = termination_reason
      BY <1>5 DEF Failure, OutOfSteps, ScanRaises, ReasonRaises, ActRaises, ObserveRaises, Raise,
                  Superstep, Nodes
    <2> QED  BY <2>1 DEF Ending, Nodes
  <1>6. CASE UNCHANGED vars
    <2>1. UNCHANGED <<frontier, seen, pc, termination_reason>>
      BY <1>6 DEF vars, queues
    <2>2. Scanned(Seed)' = Scanned(Seed)
      BY <2>1 DEF Scanned
    <2> QED  BY <1>0, <2>1, <2>2 DEF Ending
  <1> QED  BY <1>1, <1>2, <1>3, <1>4, <1>5, <1>6 DEF Next, Stopped

\* What a control leads to has its edge, once nothing waits and nothing else
\* claimed it.
LEMMA ControlFollowed ==
    ASSUME Types, OldVisited = {}, Outcomes, Accounted, Endpoints, Followed, DeadEnds, Safe,
           pc = "done", frontier = <<>>,
           NEW s \in DOMAIN nodes, Scanned(s), nodes[s] < DepthLimit,
           NEW a \in Actions, Dest(app, s, a) # NoPage
    PROVE  /\ \E i \in DOMAIN edges :
                edges[i].from = s /\ edges[i].action = a /\ edges[i].to = Dest(app, s, a)
           /\ Dest(app, s, a) \in DOMAIN nodes
           /\ nodes[Dest(app, s, a)] <= nodes[s] + 1
  <1>1. a \in Offers(app, s)
    BY DEF Dest, Offers
  <1>2. Waiting = {} /\ InFlight = {}
    BY DEF Waiting, InFlight, PairsOf
  <1>3. <<s, a>> \in PairsOf(edges) \cup PairsOf(skipped)
    BY <1>1, <1>2 DEF Accounted, Somewhere, Settled
  <1>4. <<s, a>> \notin PairsOf(skipped)
    <2> SUFFICES ASSUME NEW i \in DOMAIN skipped, skipped[i].from = s, skipped[i].action = a
                 PROVE  FALSE
      BY DEF PairsOf, PairOf
    <2> QED  BY DEF DeadEnds
  <1>5. PICK i \in DOMAIN edges : edges[i].from = s /\ edges[i].action = a
    BY <1>3, <1>4 DEF PairsOf, PairOf
  <1> QED  BY <1>5 DEF Followed

\* So every state is found, at its distance at most.
LEMMA AllFound ==
    ASSUME Types, OldVisited = {}, Outcomes, Accounted, Recorded, Endpoints, Near, Followed,
           DeadEnds, Safe, pc = "done", frontier = <<>>, Scanned(Seed), Open(app, Seed) # NoPage,
           NEW n \in Nat, n <= DepthLimit
    PROVE  \A s \in Within[n] : s \in DOMAIN nodes /\ nodes[s] <= n
  <1> DEFINE Reached(k) == \A s \in Within[k] : s \in DOMAIN nodes /\ nodes[s] <= k
             S == {k \in Nat : k <= DepthLimit => Reached(k)}
  <1>0. /\ DepthLimit \in Nat /\ \A s \in DOMAIN nodes : nodes[s] \in Nat
        /\ \A s \in DOMAIN nodes : Scanned(s)
    BY ExplorationAssumption DEF Types, TypeOK, StoreType, Recorded
  <1>1. 0 \in S
    <2>1. Seed \in DOMAIN nodes /\ nodes[Seed] = 0
      BY DEF Scanned, Endpoints, Near
    <2>2. Within[0] = {Seed}
      BY WithinStart DEF Open
    <2> QED  BY <2>1, <2>2
  <1>2. ASSUME NEW k \in S PROVE k + 1 \in S
    <2> SUFFICES ASSUME k + 1 <= DepthLimit, NEW s \in Within[k + 1]
                 PROVE  s \in DOMAIN nodes /\ nodes[s] <= k + 1
      OBVIOUS
    <2>1. k \in Nat /\ k < DepthLimit /\ Reached(k)
      BY <1>0
    <2>2. Within[k + 1] = Further(Within[k])
      BY <2>1, WithinNext
    <2>3. CASE s \in Within[k]
      BY <1>0, <2>1, <2>3
    <2>4. CASE s \notin Within[k]
      <3>1. PICK t \in Within[k], a \in Actions : s = Dest(app, t, a) /\ s # NoPage
        BY <2>2, <2>4 DEF Further
      <3>2. t \in DOMAIN nodes /\ nodes[t] <= k /\ nodes[t] \in Nat /\ Scanned(t)
        BY <1>0, <2>1
      <3>3. nodes[t] < DepthLimit
        BY <1>0, <2>1, <3>2
      <3>4. s \in DOMAIN nodes /\ nodes[s] <= nodes[t] + 1
        BY <3>1, <3>2, <3>3, ControlFollowed
      <3> QED  BY <1>0, <2>1, <3>2, <3>4
    <2> QED  BY <2>3, <2>4
  <1>3. S = Nat
    <2>1. S \in SUBSET Nat
      OBVIOUS
    <2> HIDE DEF S
    <2> QED  BY <1>1, <1>2, <2>1, InductionOnNat
  <1>4. n \in S
    BY <1>3
  <1> QED  BY <1>4

\* The invariant of a first run, in which no call to the browser raises by itself.
Whole == /\ Mapped /\ Whereabouts /\ Sound /\ Ending
         /\ pc # "raised" /\ Open(app, Seed) # NoPage => Near /\ Followed /\ DeadEnds

\* frontier_exhausted "is the only one that means `complete`" (contracts.py
\* 152-164): a first run that ends with it has every state within depth_limit, at
\* its distance from the seed, and every edge between them, provided no call to
\* the browser raises by itself, for every application that holds still.
THEOREM ExhaustedMeansComplete ==
    ASSUME Obedient, SeedOnly, OldVisited = {}
    PROVE  Spec => []ExhaustedIsComplete
  <1> DEFINE Books == PairsOnce /\ Endpoints /\ Levels /\ Complete
  <1>0. SameControls
    BY DEF Obedient, SameControls
  <1>1. Init => Books /\ Whole
    <2> SUFFICES ASSUME Init PROVE Books /\ Whole
      OBVIOUS
    <2>1. /\ nodes = OldNodes /\ visited = OldVisited /\ edges = <<>> /\ skipped = <<>>
          /\ frontier = <<>> /\ seen = <<>> /\ pc = "start" /\ depth = 0 /\ fired = <<>>
          /\ current_path = <<>> /\ termination_reason = "none"
      BY DEF Init
    <2>2. Books
      BY <2>1, CompleteInit DEF PairsOnce, PairsOf, Endpoints, Ends, EndsBut, Levels, Sorted,
                                SeedOnly
    <2>3. Mapped /\ Whereabouts /\ Sound /\ Ending /\ Followed /\ DeadEnds
      BY <2>1 DEF Mapped, Whereabouts, Sound, Told, Once, Ending, Followed, DeadEnds
    <2>4. Open(app, Seed) # NoPage => Near
      <3>1. Types
        BY InitTypes
      <3>2. Open(app, Seed) # NoPage => Seed \in Within[0]
        BY <3>1, WithinStart DEF Open
      <3> QED  BY <2>1, <3>2, ExplorationAssumption DEF Near, SeedOnly
    <2> QED  BY <2>2, <2>3, <2>4 DEF Whole
  <1>2. Types /\ Books /\ Whole /\ [Next]_vars => Books' /\ Whole'
    <2> SUFFICES ASSUME Types, Books, Whole, [Next]_vars PROVE Books' /\ Whole'
      OBVIOUS
    <2>1. Books'
      BY <1>0, PairsOnceStep, EndpointsStep, LevelsStep, CompleteStep
    <2>2. Mapped' /\ Whereabouts' /\ Sound' /\ Ending' /\ app' = app
      BY MappedStep, WhereaboutsStep, SoundRun, EndingStep, AppStays DEF Whole
    <2>3. ASSUME pc' # "raised", Open(app, Seed) # NoPage
          PROVE  Near' /\ Followed' /\ DeadEnds'
      <3>1. pc # "raised"
        BY <2>3, RaisedStays
      <3>2. Recorded
        BY <3>1 DEF Complete
      <3> QED  BY <2>3, <3>1, <3>2, NearStep, FollowedStep, DeadEndsStep DEF Whole
    <2> QED  BY <2>1, <2>2, <2>3 DEF Whole
  <1>3. Types /\ Books /\ Whole => ExhaustedIsComplete
    <2> SUFFICES ASSUME Types, Books, Whole, termination_reason = "frontier_exhausted", Safe
                 PROVE  /\ DOMAIN nodes = Within[DepthLimit]
                        /\ \A n \in 0..DepthLimit : \A s \in Within[DepthLimit] :
                             nodes[s] <= n <=> s \in Within[n]
                        /\ \A s \in Within[DepthLimit], a \in Actions :
                             nodes[s] < DepthLimit /\ Dest(app, s, a) # NoPage =>
                               \E i \in DOMAIN edges : edges[i].from = s
                                  /\ edges[i].action = a /\ edges[i].to = Dest(app, s, a)
      BY DEF ExhaustedIsComplete, Safe
    <2>1. /\ pc = "done" /\ frontier = <<>> /\ Scanned(Seed) /\ Open(app, Seed) # NoPage
          /\ Outcomes /\ Accounted /\ Recorded /\ Endpoints /\ Near /\ Followed /\ DeadEnds
      BY DEF Whole, Ending, Complete
    <2>2. \A n \in Nat : n <= DepthLimit =>
            \A s \in Within[n] : s \in DOMAIN nodes /\ nodes[s] <= n
      BY <2>1, AllFound
    <2>3. DepthLimit \in Nat /\ \A s \in DOMAIN nodes : nodes[s] \in Nat
      BY ExplorationAssumption DEF Types, TypeOK, StoreType
    <2>4. ASSUME NEW s \in DOMAIN nodes, NEW n \in Nat, nodes[s] <= n, n <= DepthLimit
          PROVE  s \in Within[n]
      <3>1. s \in Within[nodes[s]] /\ Within[nodes[s]] \subseteq Within[n]
        BY <2>1, <2>3, <2>4, WithinGrows DEF Near
      <3> QED  BY <3>1
    <2>5. \A s \in DOMAIN nodes : nodes[s] <= DepthLimit
      BY <2>1 DEF Near
    <2>6. DOMAIN nodes = Within[DepthLimit]
      <3>1. Within[DepthLimit] \subseteq DOMAIN nodes
        BY <2>2, <2>3
      <3>2. ASSUME NEW s \in DOMAIN nodes PROVE s \in Within[DepthLimit]
        BY <2>3, <2>4, <2>5
      <3> QED  BY <3>1, <3>2
    <2>7. ASSUME NEW n \in 0..DepthLimit, NEW s \in Within[DepthLimit]
          PROVE  nodes[s] <= n <=> s \in Within[n]
      <3>1. n \in Nat /\ n <= DepthLimit
        BY <2>3
      <3>2. s \in DOMAIN nodes
        BY <2>6
      <3>3. nodes[s] <= n => s \in Within[n]
        BY <2>4, <3>1, <3>2
      <3>4. s \in Within[n] => nodes[s] <= n
        BY <2>2, <3>1
      <3> QED  BY <3>3, <3>4
    <2>8. ASSUME NEW s \in Within[DepthLimit], NEW a \in Actions, nodes[s] < DepthLimit,
                 Dest(app, s, a) # NoPage
          PROVE  \E i \in DOMAIN edges : edges[i].from = s
                    /\ edges[i].action = a /\ edges[i].to = Dest(app, s, a)
      <3>1. s \in DOMAIN nodes /\ Scanned(s)
        BY <2>1, <2>6 DEF Recorded
      <3> QED  BY <2>1, <2>8, <3>1, ControlFollowed
    <2> QED  BY <2>6, <2>7, <2>8
  <1> QED  BY <1>1, <1>2, <1>3, Typed, PTL DEF Spec
=============================================================================
