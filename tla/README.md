# StateScout: TLA+ models and proofs

StateScout drives a web application through a browser, one state after the other, and audits every
state against a policy. Its core is a breadth-first loop, Scan, Reason, Act, Observe
(`src/apps/agent/orchestrator`), that has to find its way back to old states, never repeat a side
effect, drop nothing silently, and end. This directory holds TLA+ modules of that loop, of the way
from a document to a verdict, of the browser calls and the entry points around them, TLC
configurations that check them on small instances, and proofs, checked by TLAPS, of what holds for
every application, fault and configuration.

1. [Inventory](#inventory)
2. [Modules](#modules)
3. [Runs](#runs)
4. [Proofs](#proofs)
5. [Where code and documentation differ](#where-code-and-documentation-differ)
6. [What is not covered](#what-is-not-covered)
7. [Plan](#plan)

## Inventory

| Component | State | Operations | Who calls it |
| --- | --- | --- | --- |
| LangGraph loop (`graph_runner.py`, `state.py`) | `ExplorationState`: frontier, seen, order, counters, bundle in hand, action in flight; checkpointed every superstep | nodes `scan`, `reason`, `act`, `observe`; routes `route`, `route_after_act`; `explore` | the service, the tests |
| Plain loop (`explore.py`) | `_Run`: the same lists and a `queued` set that never forgets | `scan`, `reach`, `_skip`, the `while` loop | only tests: it is the parity oracle |
| Crawler port (`FakeCrawler`) | the page the browser is on, `closed` | `open`, `act`, `enumerate_actions`, `close` | the loop, the skeleton |
| Playwright crawler (`crawler/actions.py`, `crawler/capture.py`) | the page, files named by address and second | `execute_action` with its retries, `extract_page_state`, `capture_page` | tests and the command line; the port that wraps it is not written |
| Graph port (`FakeGraph`; `graph/` is a stub) | nodes (first write wins), claimed pairs, edges and violations (append only) | `fingerprint`, `persist_*`, `is_visited`, `mark_visited` | the loop |
| Perception (`perception/`) | the parser's element in hand; one capture's unmatched DOM elements, entries, capabilities | `extract_dom_elements`, `correlate`, `build_semantic_map`, `analyze` | `reason`, through the port |
| Policy audit (`negation/audit.py`) | none: a function of map and policy | `audit` | `reason`, through the port |
| Rate limiter (`ratelimit.py`) | tokens, last refill, totals | `acquire`; `ThrottledPerception` wraps the perception port | `reason`, through the port |
| Configuration (`config.py`) | frozen limits | environment, run ids | all of the above, closed over and never checkpointed |
| Assembly and log (`deps.py`, `runlog.py`) | none that outlives a call | build ports, write a line | start-up, every node |
| Scaffold (`poc.py`) | `PocState`: frontier, trail, capture in hand and to come, counters | `scan`, `reason`, `route`, `act`, `observe` | tests |
| Skeleton (`skeleton.py`) | locals of one pass, the exit code | `run_once`, `main` | by hand, tests, a pipeline that reads the exit code |
| extension, shared types, API, test apps | none | a message, declarations, an empty package, static pages | not part of the loop |

One process runs everything, and nothing in it is concurrent. What makes the loop
hard is that five stateful parties have to agree without a transaction:

* **The browser's position** is state outside the program. `current_state_id` is the
  loop's belief about it, updated by some returns of `act` and not by others.
* **The node split.** The plain loop keeps locals between the claim, the action and
  the edge; the LangGraph loop carries them in `ExplorationState` over a superstep
  boundary, and tests the limits in routing functions one superstep before they
  matter.
* **Failure.** Every port call may raise. `StateScoutError` on the way back and
  `CrawlerError` of the action are skips, everything else leaves `explore`.
* **Crashes.** Store and checkpoint survive, browser and the node's update do not.
* **At most once.** A replay is made of the very calls that must not be repeated.
* **Time.** A timeout says nothing about the page, a file name tells seconds apart, and a page
  goes on while it is captured.
* **Evidence** for a verdict passes through a greedy matching of two incomplete sources, a
  filter and a model before the audit sees it.
* **Termination** rests on a counting argument, and LangGraph adds a limit of its own.

What makes each part correct is stated in `PROJECT.json` as hazards, each at its line,
with the properties that would notice it going wrong.

## Modules

```
Crawler                 the application, the browser's moves, a replay
  Exploration           configuration, frontier entries, Enqueue, the node table, failures
    GraphRunner         graph_runner.py under LangGraph: one action per node outcome
      GraphRunnerParity the refinement mapping to Explore
        MCGraphRunner   applications and bounds for TLC
      CrashRecovery     a crash inside a node; restart or resume
        MCCrashRecovery
    Explore             explore.py, the abstract specification of the loop
    Poc                 poc.py, the scaffold
      MCPoc
DomExtraction           dom.py: what the parser's callbacks make of a document
  Perception            one capture: correlate, semantic map, model, audit
    MCPerception
BrowserActions          crawler/: execute_action, extract_page_state, capture_page
  MCBrowserActions
Skeleton                skeleton.py: one page from argument to exit code
  MCSkeleton
RateLimiter             ratelimit.py

RecursionProofs         induction over naturals, functions defined by recursion
  ExplorationProofs     Dest, Enumerate, Walk (replay) and Enqueue, for all arguments
    GraphRunnerProofs   the loop: types, frontier, claims, records, depths, supersteps, where the
                        browser is, the plain loop, crashes, a complete run
    PocProofs           the scaffold: its edges, what it does how often, why it ends
  PerceptionProofs      the evidence, the leaves of a document, the verdict
BrowserActionsProofs    what an answer tells, what the files show
SkeletonProofs          what one pass stores, and its exit code
RateLimiterProofs       the throttle
```

**Crawler.** A page, the `CaptureBundle` taken of it and its fingerprint are one value:
`fingerprint` normalises volatile markup away and is a function of the page. An action
is its content-addressed id, so one id may be on several pages (and twice on one) and
lead elsewhere from each. `app` maps existing pages to their controls in declaration
order; a link may lead to a page that does not exist. `Dest` is `FakeCrawler.act`,
including the control that is not on the page, the dead link, and the browser that has
no page open. `Walk` is what each call of a replay returns.

**Exploration.** What both loops share, so that a difference between them is a
difference in their control: the constants of `OrchestratorConfig`, `PendingAction`
(with `replayable`), the enqueue loop of `scan`, `FakeGraph.persist_state`,
`_terminal_reason`. `Flaky` names the kinds of port call that may raise by themselves:
`open`, `act`, `late` (the browser has moved already when the call raises), `perception`
and `store`. `Mutable` lets an unsafe action replace the application by another version
of it, so that a path that once worked fails half-way or leads elsewhere.

**GraphRunner.** `pc` is the node LangGraph runs next; a routing function is the value
a node gives to `pc'`. One variable per field of `ExplorationState` that a later step
reads (the verdict is not: `clean` and `violated` route to the same node), the store, the
browser, and `fired`, the log of what the browser did and where, which
`FakeCrawler.acted` keeps in part.

| Action | Code |
| --- | --- |
| `OpenSeed`, `OpenSeedFails`, `Finish` | `explore` before and after `invoke` |
| `ScanFirst`, `ScanAgain` | `scan`, after and before its early return |
| `ReasonAudit`, `ReasonAgain` | `reason`, with `route` |
| `SkipUnreplayable`, `SkipReplayFailed`, `SkipReplayDiverged`, `SkipActFailed`, `Execute` | the five returns of `act` |
| `ObserveEdge`, `ObserveSkip` | the two returns of `observe`, with `route_after_act` |
| `OutOfSteps` | `GraphRecursionError` |
| `ScanRaises`, `ReasonRaises`, `ActRaises`, `ObserveRaises` | the port calls no node catches |

**Explore** has the steps of the plain loop: `Scan` is the whole of `scan`, audit
included; `ReachFails` and `ReachAndAct` one pass of the loop up to the action;
`RecordEdge` what follows it. `GraphRunnerParity` maps the state of GraphRunner to it:
an audit that `reason` still owes counts as made, the frontier and everything dequeued
are `queued`, a routing that ends the run stutters.

**CrashRecovery** adds a crash inside each node, after any of the port calls that change
something. It needs no variable for the checkpoint: LangGraph writes it after every
superstep, every step of GraphRunner is a superstep, so the state before a node *is*
the checkpoint. `Restart` is a new `explore` over the surviving store, which is what the
code can do today; `Resume` invokes the compiled graph without input, as `checkpointer`
is there for. The resume of milestone M4-P1 is not written yet; what LangGraph does is
modelled and marked external.

**RateLimiter** counts the bucket in ticks, a token being `cost` ticks of refill, so that
the float arithmetic is exact; what rounding and a scheduler can do to a sleep is `Hair`
ticks early and `Lag` late. `AcquireNow`, `AcquireSleeps` and `AcquireWakes` are the branches
of `acquire`; `grants` is the history.

**DomExtraction** is a function: `Handle` is the callback of `_DOMParser` for one event, `Parsed`
the parser after each event and `ExtractDom` what it has collected at the end of the document,
`current` and `text` being its fields as sequences of at most one. A start tag is what its
attributes amount to for the modules behind it; `Finished` gives the name `correlate` would compare
(`_dom_name`), so that one value stands for a `DOMElement`. The tokenizer is `html.parser`,
external; an event list is any in which no two texts are adjacent, well nested or not.

**BrowserActions** has the browser's page, the clock as far as a file name can tell it, one call at
a time and the files. `Perform` is one pass through `_perform_action`, which the page takes or
not; its outcome decides among `Performed`, `Retry`, `GiveUp` and `Fail`.

| Action | Code |
| --- | --- |
| `ExecuteAction`, `CapturePage` | the calls, the latter up to its page being loaded |
| `Performed`, `Retry`, `GiveUp`, `Fail` | the branches of the loop of `execute_action` |
| `ReadPage`, `ReadFails`, `TakePicture`, `PictureFails`, `Dump`, `DumpFails`, `ExtractRaises` | `extract_page_state`, stage by stage, each of which may raise |
| `Drift` | the page, between document and picture |
| `ReturnState`, `ReturnCapture` | the rest of the callers |

A click and a navigation may time out after they landed, typing and a missing element only
before. `effects` and `lates` count, `started` remembers which names were handed out: no variable
of the code does, which is why `EvidenceMatches` has to say it.

**Skeleton** has one action for each port call of `run_once` and one for each way `main` ends. Its
policy and the pages are constants; a page is known by what its elements are tagged, and its
fingerprint need not be its own. `landed` is whether the modules `live_ports` imports exist.

**Perception** takes one capture from `correlate` to its violations.

| Action | Code |
| --- | --- |
| `IgnoreNode`, `MatchRoleName`, `MatchName`, `KeepUnmatched` | one turn of `correlate`'s loop over the accessibility nodes |
| `KeepDomOnly` | the DOM elements left over, and `build_semantic_map` over the result |
| `AnalyzeDomOnly`, `AnalyzeModel`, `AnalyzeFails` | the returns of `analyze`: no screenshot or no elements, the merge, `PerceptionError` |
| `Audit` | `audit`: FR-18 over the forbidden clauses, FR-19 over the required ones |

An entry of `correlated` is a pair of indices into the capture, 0 for a missing half. Text is
abstracted to what the two keyword tables, for capabilities and for tags, read off it: `says` for
the texts of an element, `NameSays` for a name, and `seam` for a keyword that only appears where
two texts are joined, which depends on the two halves of the entry and on nothing else. A role is
one value, whether explicit or native. The capture is any that `IsCapture` allows.

**Poc** has the four nodes of the scaffold over the same application, store and failures as
GraphRunner, with its own frontier (newest entry of the current state first), its own
`queued` set (not updated in the loop) and its count of scans. It never goes back, so there
is no replay. An edge is written by the `Scan` after the action; what remembers it is
`last_action`, which a skip leaves at none.

## Runs

| Run | Question | Instance | States |
| --- | --- | --- | --- |
| `graph_runner_apps` | On an application that holds still: is an exhausted run complete, is the recursion limit out of reach of small pages, does it end? | 1,120 applications of three pages with dead links, self loops, shared ids and side effects, and a page of seventy controls; depth 2, 4 states | 16,615 |
| `graph_runner_faults` | Do the invariants survive an application that changes and ports that raise anywhere? | six versions of five pages, unsafe actions switch between them; the store already has a node and a claim; depth 3, 4 states | 1,872 |
| `parity` | Is the LangGraph loop the plain loop? | as above, failures both loops handle, late ones included | 5,402 |
| `crash_recovery` | What do up to two crashes cost, with each way to go on? | three applications of four pages, side effects on the seed and behind it; depth 2 | 25,944 |
| `rate_limiter` | Is every window bounded, does nobody wait in vain or twice? | cost 0 or 3, capacity 0, 3 or 6, Hair 1, Lag 1, 5 calls, 12 ticks | 173,048 |
| `perception` | Does a verdict depend on anything but what the capture shows? | every page of at most three of five DOM elements, and pages where two of them stand inside or behind a tag that gets lost, with every tree of at most two of five nodes, with and without a screenshot and a seam; three answers of the model | 209,696 |
| `poc` | Does the scaffold act no more than it should, write the edges of what it did, and end by itself? | 36 applications of three pages, two controls with one id, cycles, dead links; limits 0, 2 and 8 | 4,744 |
| `browser_actions` | How often is an action performed for an answer? Do a record and its files show one page? Does a call return? | three pages at two addresses, five actions, one malformed and one that cannot be repeated; two calls within 6 seconds | 611,302 |
| `skeleton` | Do exit code, report and store agree, whatever raises where? | four pages, two with one fingerprint, an address without a page; three forbidden clauses and a required one | 431 |
| `recursion_limit`, `stale_location`, `model_decides` | three statements of comments and documentation that do not hold | | counterexamples |

**Bounds.** The hazards of the loop need a second state to come back to (two pages), a path
longer than one step to fail half-way (three pages), a cycle, an id on two pages and a dead
link. Three pages with every menu of at most two controls have all of these in all
combinations. The faults need more depth, a state beyond the cap and versions in which a
replay fails or diverges: five pages, four states. `MaxStates` and `DepthLimit` are both
reached. 70 controls are the fewest, in tens, that exhaust the recursion limit of a small
run. The rate limiter needs more calls than a full bucket holds (two of cost 3 in 6) and time
to refill it in between. Two crashes allow a crash of the recovery from a crash.
Elimination needs two nodes and three elements, two of them alike; the five elements differ in
role alone, in name alone, in both, and include one without a role and one without a name. A
limit of 8 scans is more than the scaffold can make on three pages (`IterationsExact`), so both
ways to end are taken. Two calls of the crawler are what it takes for a capture to overwrite
another's files, and the three attempts of `execute_action` are all there; the clock's last second
is the latest two calls can come to. A document needs one element around two others, or a tag
without an end before them, to lose something; the nesting goes to two.

**Fairness.** `FairSpec` is weak fairness of `Next`: one process runs the loop, and a step that
can happen is taken. No fairness is asked of single outcomes (a call may fail every time)
nor of crashes. The rate limiter assumes only that a sleep ends. BrowserActions is fair to the steps
of a call, not to the caller: every wait the code makes has a timeout. `title`, `content` and the
request for the accessibility tree have none; that the page answers them is an assumption, and a
hazard of its own in `PROJECT.json`. `Terminates` is conditional on
`SmallFanOut`, at most ten controls a page, because without it the recursion limit is
reached (`recursion_limit`).

**What the properties say.** Each has its comment in the module. The ones a reviewer may want
to argue about:

* `NoSilentDrops`: every control of an expanded state is waiting, in flight, settled by
  exactly one edge or one skip, or was claimed by an earlier run. Not after an exception:
  then the update of the node is lost, and the pair with it.
* `BreadthFirst`: depths in the frontier never decrease and span two levels, hence the first
  depth written is the least. It presumes a store whose nodes were recorded at depths this
  run agrees with; `OldNodes` has the seed only.
* `ExhaustedIsComplete`: without faults and side effects, `frontier_exhausted` means every
  state within the depth limit, at its distance, with every edge between them.
* `TruthfulWhileLocated`: as long as no replay failed half-way and no call raised after moving
  the browser, each edge names what the browser did and where, and side effects happen once.
  The condition is needed: see `stale_location`.
* `SameLoop`: `explore.py` is implemented step for step, with every call, list and counter,
  and its fairness.
* `TwinsUnmatched`: candidates shrink while nodes are matched, so what was ambiguous may become
  unique; it never does for two elements of one role and name, because the first of them
  could only leave by a match of its own.
* `SetAlgebra`: matching decides selectors and labels, not verdicts, unless a keyword lies
  across a seam: a dialog with id `inbox` can log in ("dia**log in**box").
* `ForbiddenStands`: the model can add violations and hide missing requirements, but cannot hide
  what is shown and forbidden.
* `ActsBounded`: the scaffold claims a pair and still executes it again if the page shows two
  controls with its id; never more often than that.
* `EdgesAreFirings` presumes that a failed action left the browser where it was. Late failures are
  not in the run: after one the scaffold scans a capture that is not the browser's page, and no
  edge records the move.
* `OneGapPerCrash`, `DanglingPerCrash`: the price of claiming first, and of writing the edge
  before its target, is one record per crash.
* `ResumeExact` is about records, not about reach: after a resume the browser has no page
  while `current_state_id` says it is in place, so `act` claims the next candidate of that
  state and skips it with "cannot act before opening a page". It is not dropped silently, but
  it is not explored either.

* `OnceUnlessLate` is as much as the retry loop can promise. After a failed call an action may have
  been performed as often as timeouts came late and, unless the last one was a timeout, once more;
  the result does not tell. A caller that takes an error for "nothing happened" is wrong.
* `EvidenceMatches` has two conditions, and both are needed: a page that moves on by itself has a
  picture of another state than its document, and a second capture of an address within the
  second replaces the files of the first record, which still points to them.
* `LeavesStand` is what remains true of a document with nesting: a tag with only text inside is an
  element, whatever is around or before it. What is around is lost.
* `PersistedJoins` and `ExitTells` together: what the store has of a run is a prefix of its verdict
  about its own page, and a report is there exactly if the store has all of it.

**Mutants.** For each property of a passing run `PROJECT.json` names a change to a modelled
definition, such as a forgotten test, a limit off by one, a silent skip or a claim after the
action, that makes TLC find it violated. The mutated forms stand before the
definitions they replace, marked "Mutant of".

## Proofs

For every set of pages and actions, every family of applications, every kind of port
failure, every earlier store, depth limit and cap (assumptions
`CrawlerAssumption`, `ExplorationAssumption`, `RateLimiterAssumption`), and any number of crashes
(`CrashAssumption`); for every set of captures, policy and answers of the model
(`PerceptionAssumption`); for every browser, set of actions and number of calls
(`BrowserAssumption`); for every set of iteration limits of the scaffold (`PocAssumption`); for every
policy, set of pages and ways to fail of the skeleton (`SkeletonAssumption`). A theorem that
presumes more says so in its ASSUME; the table names it, and `Obedient`, `Calm`, `SmallPages`,
`SeedOnly` are explained below.

| Theorem | Says | Inductive invariant |
| --- | --- | --- |
| `GraphRunnerProofs!TypeCorrect` | `[]TypeOK` | `Types == TypeOK /\ Control /\ StateCap` |
| `GraphRunnerProofs!StatesCapped` | `[]StateCap`: never more than `max_states` states | `Types` |
| `GraphRunnerProofs!PairsWaitOnce` | `[]PairsOnce` | `Types /\ PairsOnce` |
| `GraphRunnerProofs!ClaimsCounted` | `[]ClaimedOnce` | and `Claims` |
| `GraphRunnerProofs!AuditedOnce` | `[]AuditOncePerState` | and `Audits` |
| `GraphRunnerProofs!EdgesHaveEnds` | `[]EdgeEndpoints` | and `Endpoints` |
| `GraphRunnerProofs!OrderIsAWalk` | `[]OrderFollowsEdges` | and `Walks` |
| `GraphRunnerProofs!LevelByLevel` | `[]BreadthFirst`, if earlier nodes have depth 0 | and `Levels` |
| `GraphRunnerProofs!NothingDropped` | `[]NoSilentDrops`, under `SeedOnly` and `SameControls` | and `PairsOnce`, `Complete` |
| `GraphRunnerProofs!LocatedIsTruthful` | `[]TruthfulWhileLocated` | and `PairsOnce`, `Located => Sound` |
| `GraphRunnerProofs!LimitOutOfReach` | `[]BackstopNeedsFanOut` | `Types`, `PairsOnce`, `SmallFanOut => Budget` |
| `GraphRunnerProofs!ImplementsPlain` | `Spec => Plain!Spec`, if perception and store answer, under `SmallPages` | `Types`, `PairsOnce`, `Audits`, `Known` |
| `GraphRunnerProofs!ExhaustedMeansComplete` | `[]ExhaustedIsComplete`, under `Obedient`, `SeedOnly`, no earlier claims | `Types`, `PairsOnce`, `Endpoints`, `Levels`, `Complete`; and `Whole` |
| `GraphRunnerProofs!DanglingIsBounded` | `RecoverySpec => []DanglingPerCrash` | `RecoveryTypes`, `Dangling` |
| `GraphRunnerProofs!RestartsDoNotRefire` | `RecoverySpec => []RestartCannotRefire`, under `Obedient` | `Bearings`, `RestartSound` |
| `GraphRunnerProofs!RestartsLoseOneEach` | `RecoverySpec => []OneGapPerCrash`, under `Calm` | and `Budget`, `RestartLedger` |
| `GraphRunnerProofs!ResumesAreExact` | `RecoverySpec => []ResumeExact`, under `Calm`, `SeedOnly` | `Bearings`, `Budget`, `ResumeBooks` |
| `PocProofs!TypeCorrect` | `[]TypeOK` | `Steady == TypeOK /\ Place /\ Counted` |
| `PocProofs!EdgesTell` | `[]EdgesAreFirings`, if no failure is late | and `Position`, `Owing` |
| `PocProofs!ActsAreBounded` | `[]ActsBounded`, if no failure is late and nothing is mutable | and `Spending` |
| `PocProofs!RunsOut` | `[]IterationsExact`, if nothing is mutable and pages are finitely many | `Steady`, `Spending` |
| `SkeletonProofs!TypeCorrect`, `StoredJoins`, `ExitCodeTells` | `[]TypeOK`, `[]PersistedJoins`, `[]ExitTells` | `Inv` of SkeletonProofs |
| `PerceptionProofs!TypeCorrect` | `[]TypeOK` | `TypeOK` |
| `PerceptionProofs!TwinsApart`, `VerdictWithoutModel`, `ForbiddenReported` | `[]TwinsUnmatched`, `[]SetAlgebra`, `[]ForbiddenStands` | `IInv` of PerceptionProofs |
| `PerceptionProofs!NothingLostOrDoubled` | `[]EvidenceKept` | and `Once` |
| `PerceptionProofs!LeavesCount` | `[]LeavesStand` | none of its own: `ForbiddenStands` and, by induction over the events, `ElementsStay` |
| `RateLimiterProofs!TypeCorrect`, `Throttled`, `WaitsJustified` | `[]TypeOK`, `[]WindowBound`, `WaitsOnlyWhenSpent` | `IInv` of RateLimiterProofs |
| `BrowserActionsProofs!TypeCorrect` | `[]TypeOK` | `Inv == Typed /\ Paced` |
| `BrowserActionsProofs!RepeatedOnlyWhenLate` | `[]OnceUnlessLate` | and `Tells` |
| `BrowserActionsProofs!FilesMatch` | `[]EvidenceMatches` | and `Kept` |

**Why types are not inductive alone.** `scan` and `act` read a bundle and a frontier that are
there only because of the node before them, and the cap is tested by the routing only.
`Control` says what each node may rely on: a bundle in hand at `scan`, a candidate at `act`, a
page under the browser while the graph runs, an action in flight at `observe`, and fewer
than `max_states` states wherever one more may still come. That last conjunct is the
argument for `StateCap`: the routing tests the cap after `reason` and after a skip, and between
that test and the next `scan` nothing adds a state.

**Frontier and claims.** `queued` is rebuilt from the frontier at every scan, so a pair that was
dequeued is kept out by the visited set alone. `PairsOnce` is inductive on top of `Types`
because `Enqueue` adds only new pairs that differ (`EnqueueGrown`) and a claim is always
of the head of the frontier, which is then gone. The counter follows: each claim is of a
pair that was not claimed.

**Records.** `Audits` adds where an audit is owed: at `reason` on a first visit, or in a run that an
exception ended there. `Endpoints` adds that seen states and the frontier's sources have nodes and
that the node table only grows. `Walks` adds how long the walk is at each node, that the
bundle at `scan` is where the last edge led, and that the scanned states are those of the
walk, which is what makes the back-edge mark right.

**Depths.** `Levels` places the frontier relative to the state in hand: the queue is sorted, everything in
it is at that depth or one deeper, and nothing recorded is deeper. `scan` appends at one level deeper, so
the queue stays sorted. The condition on the store is needed because `persist_state` keeps the
first node it was given: a state an earlier run recorded deeper stays deeper.

**Outcomes.** `Complete` keeps an account of pairs outside of an exception: those settled, waiting and
in flight are disjoint, each settled pair is one edge or one skip, every claim of this run is
settled or in flight (`Outcomes`), and every control of an expanded state is in one of them or
was claimed before the run (`Accounted`). The two conditions are needed. Without
`SameControls`, a side effect can put a control on a page that was scanned before, and `scan`
does not come back to it. Without `SeedOnly`, a node that an earlier run recorded shallower
than this run reaches it counts as expanded by its recorded depth, although `scan`
compares its own. Both hold in the instances TLC checks.

**Location.** `Sound` says that `current_state_id` is the browser's page at every node that relies
on it, that at `observe` the log ends with what is about to be recorded, and that every side
effect in the log is a claimed pair. A replay is harmless because it is only done when no
step of it is unsafe, and an executed pair is fresh because of `PairsOnce`: so no side effect
happens twice. Skips are never taken back, so what is not `Located` stays so.

**Supersteps.** A candidate costs at most four supersteps: `act`, `observe`, and after an edge `scan`
and `reason`. A state brings at most ten of them, no pair twice (`PairsOnce`). So what was used so
far and what the frontier may still cost stay below forty a state and what the pass in hand has
used (`Budget`, `Used`), and `StateCap` bounds the states. The `+ 100` of the code is slack.

**The plain loop.** `PlainInit` and `PlainStep` are the refinement without its fairness: an audit
belongs to the `scan` before it (`Audits`), what `explore.py` keeps in `queued` is what waits, is in
flight or is settled here (`Known`, with `PairsOnce`), and routings to the end stutter. When an
exception of perception or the store leaves a node, the two loops stop with different halves of a
step done; where the recursion limit fires, the plain loop goes on. Hence the two conditions.

**Crashes.** `Dangling` needs no condition: an edge without its target is either the one whose scan
comes next (`Expected`) or the trace of a crash. The others are about what a new process finds.
`Mapped` says that every path in hand is a route of recorded edges, and `Whereabouts` that the
browser is where the loop believes it to be, or new. Together (`Bearings`) they leave a replay
no way to fail half-way or to arrive elsewhere, so `Sound` holds wherever the process
dies: a restart finds every claim in the store and `scan` tests it. `RestartLedger` counts what
fired without an edge or an action in flight (`Gap`), one per crash at most. For resumes `Repeats`
lets exactly one candidate wait although it is claimed, the one at `act` that was cut short
after its claim, and counts it with its repetition; `Tallies` and `Offered` do the same for the edge
that `observe` writes again and the state that `scan` persists again.

* `Obedient`: no browser call raises by itself, and side effects leave the application as it is.
  Otherwise a path that once worked may lead elsewhere, and `stale_location` shows what follows; then
  nothing the store remembers keeps a side effect from happening twice.
* `Calm`: of all calls only those to perception raise, side effects leave the application as it is,
  no page has more than ten controls (`SmallPages`). A store that raises inside `act`, `observe` or
  `scan`, or the recursion limit, ends the process like a crash, but `crashes` does not count it.
* `SeedOnly`: an earlier run left at most the seed's node, at depth 0; see Outcomes.

The instance of `crash_recovery` satisfies all of them (`Flaky` is empty, `Mutable` is FALSE).

**A complete run.** `Within` is a recursive function, the states at most so many actions from the seed;
`Near` places every node, the state at `scan` and the frontier in it, with `Levels`; `Followed` says
that an edge is a control's and leads one further at most. What the walk recorded as skipped is
a dead end (`DeadEnds`): if no control with a side effect leads anywhere (`Safe`, as the property
has it), every path can be replayed and arrives by `Bearings`, so only the control itself can
have failed. When the frontier is empty every control of a state below the limit has its edge or
its skip (`Complete`); by induction over the distance every state of `Within` is scanned
(`AllFound`) and every edge between them recorded. `Obedient` is what "the application holds still
and answers" means; without it a state may be missed. The instance of `graph_runner_apps` satisfies it.

**Scaffold.** `Place` and `Counted` are control and the test of `max_iterations` at each node. `Owing`
says which firing still waits for its edge: none while `last_action` is none, else the last one. A
call that raises after it moved the browser would be a firing without an edge. For the number of
acts and scans a count of controls is needed although ids repeat on a page: `Spending` claims a
charge, every waiting entry and every act to a control of its own, none to both. It is an
existential statement; each action of the scaffold says how the charge goes on. With finitely
many pages the controls are finitely many, and `iterations` is bounded by those spent.

**Skeleton.** `Progress` is what each stage may rely on: the page in hand, its fingerprint, a node
under it, a map with its id. `Returned` says that where nothing was raised everything is stored,
`Accounted` that the crawler is closed exactly once and before the report. `ExitTells` follows for each
way `main` ends, the exceptions no handler takes included.

**Verdict.** `Covered` says that every DOM element is unused or in an entry and that every node
looked at is in an entry or bare structure; `Consistent` that the halves of an entry have one
name; `Phases` that an entry without a node comes only after the tree is finished. From these
follow both directions: what the capture shows is `Present` (`ShownIsPresent`), because the
entry that took it in keeps its name and what it says, and without model and seams what is
`Present` is shown (`PresentIsShown`). `TwinsUnmatched` is inductive with them: a twin that is no
longer unused is in an entry with a node, which it cannot be. That the leftovers all get an
entry is a counting argument (`Ranking`). `Once` adds that no index stands in two entries; the
matching takes an element out of the unused ones with the entry it makes.

**Leaves.** A leaf is a start tag and an end tag with nothing but text in between. Wherever the parser
is, the start tag replaces what it had in hand and the end tag completes the element
(`LeafSpan`); what is collected is never dropped (`ElementsStay`). So the leaf is an element of
every capture of the document (`LeafExtracted`), and `ForbiddenStands` does the rest.

**Recursion.** `Walk`, `Enqueue` and `Parsed` are recursive functions. `RecursionProofs` shows by
induction over a set of naturals that such a function exists, `ExplorationProofs` what `Enqueue`
makes of a frontier (`Grown`), for lists of any length.

**Throttle.** `IInv` keeps an account per past call: the calls since then, and the tokens still in
the bucket, are paid for by a full bucket and the refill since then (`Spent`); and unless the
bucket is full, some account is exact (`Banked`), which is why a wait is never in vain.

**Browser.** `Paced` bounds clock and counters by the calls and attempts made. `Tells` is what
`OnceUnlessLate` says of a call that is still under way: before an attempt the action has landed
as often as a timeout came late, after one that returned once more. `Kept` says that every
record handed out has its slot counted, and that the slot of the record in hand is counted at
least twice if another record has it too; writing its files can then only touch records that are
not `Alone` (`OthersKept`).

Every invariant and every action property that a passing run checks is the subject of a theorem, and
the instance of that run satisfies what the theorem presumes. Left to TLC are:

* liveness (`Terminates`, `RecoveryTerminates`, `CallsAnswered`, `Returns`) and the fairness of
  `SameLoop`, which is `Plain!FairSpec` where `ImplementsPlain` has `Plain!Spec`: out of the prover's
  reach;
* the three violations, which are counterexamples.

Induction over data is done by hand where it was needed, over an index or a depth
(`RecursionProofs`), because the induction theorems of the library cannot be instantiated here.

## Where code and documentation differ

* **The backstop fires** (`recursion_limit`). `40 * max_states + 100` supersteps count ten controls
  a state. One page with 70 controls and `max_states = 2` needs more than its 180:
  `GraphRecursionError` leaves `explore`, with no result and the crawler open. The module
  docstring calls the limit unreachable. With at most ten controls a page it is
  (`BackstopNeedsFanOut`).
* **An edge from the wrong state** (`stale_location`). A replay that fails half-way has moved the
  browser, and its return leaves `current_state_id` as it was. The next candidate of that state
  is acted on in place, on another page, which may have a control of the same id; the edge is
  persisted with the wrong source. The sibling branch for diverged replays does update it.
* **The model decides presence** (`model_decides`). `analyze` merges whatever capabilities the
  model lists into the map (`gemini.py:149`), and `_matches_subject` takes a capability of the
  map as present although no element has it. The docstring of `audit` (`gemini.py:212-214`) says
  that presence "is decided by DOM/AX ground truth". It is without a screenshot
  (`SetAlgebra`); with one, an invented capability satisfies a required clause or violates a
  forbidden one.

Others have no run of their own; the module named has the behaviour, and its properties are stated
with it in mind:

* **Exhausted is not complete** (GraphRunner). `depth_limit` is never reported: a run cut short by
  depth ends with `frontier_exhausted`, which `contracts.py:159` reserves for complete runs and a test
  pins for a depth-limited one. `ExhaustedIsComplete` is complete up to that depth.
* **A resume re-fires** (CrashRecovery). `act` claims and does not test the claim, so LangGraph
  repeats an action whose pair is claimed, against `orchestrator/README.md:64`. A fresh run does
  not (`RestartCannotRefire`), since `scan` tests `is_visited`. M4-P1 has to add the test.
* **A retry after a late timeout repeats the action** (BrowserActions), and with `max_retries` of two
  performs it three times. The port's contract is at most once; whoever wraps `execute_action`
  as `CrawlerPort.act` has to decide.
* **A "unique timestamped filename" is unique per second and address** (BrowserActions,
  `capture.py:14`).
* **Exit code 1 is not only a violation** (Skeleton). An exception that is no `StateScoutError`,
  `close` included, ends Python with 1 and without a report; the docstring of `skeleton.py` has 1
  for "at least one violation".
* **The placeholder passes quietly** (Skeleton). `gemini.py:60-63` expects a forgotten overwrite of the
  state id to fail loudly. It does in the skeleton, which compares; `reason` of the loop does not.
* **Outer elements are lost** (DomExtraction). Of nested tags only the innermost becomes an element.

## What is not covered

* How characters become tags (`html.parser`), the keyword tables, the prompt and the parsing of the
  model's answer: constants of Perception. That keywords across a seam are possible is
  modelled; that they are undesirable is said nowhere in the repository, so no property forbids
  them. `extract.py` is a second way from a capture to elements that nothing in the pipeline calls.
* What a report says of a violation: severity, rationale, selector, and its state id, which is the
  placeholder of `gemini.py` (an open decision of ADR-001). Hidden and disabled elements count as
  present, in the code and in the model: `audit` does not look at `visible`.
* In the loops `Bad` pages stand for all of perception, one violation each; `reason` makes no
  difference between several. Perception is not composed with GraphRunner.
* BrowserActions is not composed with GraphRunner: the port between them (`PlaywrightCrawler`) does
  not exist. The loop's `late` failures are what `execute_action` would hand it.
* `launch_session`, the command line of `capture.py`, and what is in a record beyond the page it was
  read from. An accessibility tree that cannot be read is replaced by an error and is no failure.
* LangGraph's own recursion limit under the scaffold, which sets none.
* Serialisation of checkpoints, the log, run ids, environment parsing, timing in results.
* A store or browser used by two runs at once: nothing in the code provides for it.
* The exact superstep at which LangGraph raises: no property depends on one more or less.
* Pure I/O and declarations: screenshots, page capture, the extension, shared types.

## Plan

In order; each extends what is here.

1. `reason` with several violations and a store that fails between two of them, as the skeleton has
   it; the hand-over of state ids from `gemini` through `reason` to violation ids.
2. `PairLifecycle`: an abstract specification of one pair (unknown, waiting, claimed, settled) that
   GraphRunner implements, first as a property for TLC, then as a theorem from `PairsOnce`.
3. Proofs: weaken `Calm`, by counting a store that raises like a crash, which needs a statement that
   does so; weaken `Obedient` to `Located` in `RestartsDoNotRefire`, as `LocatedIsTruthful` has it; the
   crawler's `late` failures in `ActsAreBounded`.
4. `PlaywrightCrawler`, once it is written: the composition of GraphRunner and BrowserActions, with
   `Flaky` replaced by the outcomes of `execute_action`.

The runs of today are close to as many questions as are worth asking separately; new modules
should share a run with an existing one where they can.
