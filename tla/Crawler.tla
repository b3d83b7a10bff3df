------------------------------ MODULE Crawler ------------------------------
(***************************************************************************)
(* The scripted web application and the browser on it: FakePage, FakeLink  *)
(* and FakeCrawler of apps/agent/orchestrator/fakes.py, the executable     *)
(* meaning of CrawlerPort (apps/agent/contracts.py).                       *)
(*                                                                         *)
(* A page, the CaptureBundle taken of it and the fingerprint of that       *)
(* bundle are one value: fingerprint normalises the volatile markup away   *)
(* and is a function of the page.  An action is its content-addressed id,  *)
(* so one action may appear on several pages and lead elsewhere on each.   *)
(***************************************************************************)
EXTENDS Naturals, Sequences

CONSTANTS
    Pages,      \* pages and link targets; one outside DOMAIN app is a dead link
    Actions,    \* action ids
    Unsafe,     \* the actions whose kind is not in REPLAY_SAFE_KINDS
    NoPage      \* the result of a call that raises

ASSUME CrawlerAssumption == Unsafe \subseteq Actions /\ NoPage \notin Pages

Link == [action : Actions, to : Pages]

\* `app` maps the pages that exist to their controls, in declaration order.
IsApp(app) ==
    /\ DOMAIN app \subseteq Pages
    /\ \A p \in DOMAIN app : app[p] \in Seq(Link)

\* FakeCrawler.open: NavigationError for a page the application does not have.
Open(app, url) == IF url \in DOMAIN app THEN url ELSE NoPage

\* FakeCrawler.act on page p: where the first control with this id leads;
\* ActionError when p has no such control or no page was opened yet (NoPage),
\* NavigationError when the control is dead.
Dest(app, p, action) ==
    LET mine == {i \in DOMAIN app[p] : app[p][i].action = action}
        first == CHOOSE i \in mine : \A j \in mine : i <= j
    IN  IF p \notin DOMAIN app \/ mine = {} THEN NoPage
        ELSE Open(app, app[p][first].to)

\* Mutant of Enumerate: the last control of a page is missed.
EnumerateAllButLast(app, p) ==
    IF p \in DOMAIN app /\ app[p] # <<>>
    THEN [i \in 1..(Len(app[p]) - 1) |-> app[p][i].action] ELSE <<>>

\* FakeCrawler.enumerate_actions, duplicates of an id included.
Enumerate(app, p) ==
    IF p \in DOMAIN app THEN [i \in DOMAIN app[p] |-> app[p][i].action] ELSE <<>>

\* The actions page p offers.
Offers(app, p) == IF p \in DOMAIN app THEN {app[p][i].action : i \in DOMAIN app[p]} ELSE {}

\* Where the replay of `path` from `seed` stands after the open (0) and after
\* each step; NoPage from the first call that raises.
Walk(app, seed, path) ==
    LET at[i \in 0..Len(path)] ==
            IF i = 0 THEN Open(app, seed)
            ELSE LET here == at[i - 1]
                 IN  IF here = NoPage THEN NoPage ELSE Dest(app, here, path[i])
    IN  at
=============================================================================
