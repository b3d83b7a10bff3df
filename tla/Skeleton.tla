------------------------------ MODULE Skeleton ------------------------------
(***************************************************************************)
(* apps/agent/skeleton.py: open, fingerprint, persist, analyze, audit and  *)
(* report, for one page, and what the exit code of the process tells.      *)
(* Any call of a port may raise a StateScoutError ("scout") or something   *)
(* else ("other").  An exception main does not catch ends Python with 1,   *)
(* the code of a violation.                                                *)
(***************************************************************************)
EXTENDS Naturals, SequencesExt

CONSTANTS
    Urls, NoUrl, DefaultUrl,  \* --url; none; DEFAULT_FAKE_URL
    Pages, NoPage, Site,      \* Site[u]: the page at an address, or none
    Ids, Fingerprint,         \* Fingerprint[p]: the state id of page p
    Placeholder,              \* _PENDING_STATE_ID of gemini.py
    Subjects, Tags,           \* Tags[p]: what the elements of page p are tagged
    Role, Forbidden, Required \* --role and the policy: two lists of clauses

Clause == [subject : Subjects, roles : SUBSET {Role, "other"}]

ASSUME SkeletonAssumption ==
    /\ NoUrl \notin Urls /\ DefaultUrl \in Urls /\ NoPage \notin Pages
    /\ Site \in [Urls -> Pages \cup {NoPage}]
    /\ Fingerprint \in [Pages -> Ids] /\ Placeholder \notin Ids
    /\ Tags \in [Pages -> SUBSET Subjects]
    /\ Forbidden \in Seq(Clause) /\ Required \in Seq(Clause)

VARIABLES
    mode, url,
    landed,         \* whether the modules live_ports imports exist; not yet
    bundle, state_id, map_id, violations, \* locals of run_once
    nodes, persisted,                     \* the graph store
    opened, closed,                       \* calls of live_ports or fake_ports, and of close
    raised, report, exit, pc

input == <<mode, url, landed>>
locals == <<bundle, state_id, map_id, violations>>
store == <<nodes, persisted>>
vars == <<input, locals, store, opened, closed, raised, report, exit, pc>>

NoReport == [state |-> Placeholder, violations |-> <<>>]

Init ==
    /\ mode \in {"fake", "live"} /\ url \in Urls \cup {NoUrl} /\ landed \in BOOLEAN
    /\ bundle = NoPage /\ state_id = Placeholder /\ map_id = Placeholder
    /\ violations = <<>>
    /\ nodes = {} /\ persisted = <<>>
    /\ opened = 0 /\ closed = 0
    /\ raised = "none" /\ report = NoReport /\ exit = 0 /\ pc = "start"

-----------------------------------------------------------------------------
(* main: the arguments and the ports                                       *)

\* argparse rejects the arguments, --live has no url, or no implementation.
Refuse ==
    /\ pc = "start"
    /\ exit' = 2 /\ pc' = "ended"
    /\ UNCHANGED <<input, locals, store, opened, closed, raised, report>>

\* Mutant of Start: the default is forgotten.
StartAsGiven ==
    /\ pc = "start"
    /\ mode = "live" => url # NoUrl /\ landed
    /\ opened' = opened + 1
    /\ pc' = "open"
    /\ UNCHANGED <<input, locals, store, closed, raised, report, exit>>

Start ==
    /\ pc = "start"
    /\ mode = "live" => url # NoUrl /\ landed
    /\ url' = IF url = NoUrl THEN DefaultUrl ELSE url
    /\ opened' = opened + 1
    /\ pc' = "open"
    /\ UNCHANGED <<mode, landed, locals, store, closed, raised, report, exit>>

-----------------------------------------------------------------------------
(* run_once: one action per call of a port                                 *)

Stage(here, next) ==
    /\ pc = here /\ pc' = next
    /\ UNCHANGED <<input, opened, closed, report, exit>>

\* The call of this stage raises; the try of main goes on with close.
Raise ==
    /\ \E here \in {"open", "fingerprint", "persist", "analyze", "audit", "record"} :
         Stage(here, "close")
    /\ pc = "record" => Len(persisted) < Len(violations)
    /\ raised' \in {"scout", "other"}
    /\ UNCHANGED <<locals, store>>

Open ==
    /\ Stage("open", "fingerprint")
    /\ Site[url] # NoPage
    /\ bundle' = Site[url]
    /\ UNCHANGED <<state_id, map_id, violations, store, raised>>

TakeFingerprint ==
    /\ Stage("fingerprint", "persist")
    /\ state_id' = Fingerprint[bundle]
    /\ UNCHANGED <<bundle, map_id, violations, store, raised>>

PersistState ==
    /\ Stage("persist", "analyze")
    /\ nodes' = nodes \cup {state_id}
    /\ UNCHANGED <<locals, persisted, raised>>

\* FakePerception takes the fingerprint itself, VLMPerception a placeholder.
AnalyzedId == IF mode = "fake" THEN Fingerprint[bundle] ELSE Placeholder

\* Mutant of Analyze: the ids are not compared.
AnalyzeUnchecked ==
    /\ Stage("analyze", "audit")
    /\ map_id' = AnalyzedId
    /\ UNCHANGED <<bundle, state_id, violations, store, raised>>

Analyze ==
    /\ Stage("analyze", IF AnalyzedId = state_id THEN "audit" ELSE "close")
    /\ map_id' = AnalyzedId
    /\ raised' = IF AnalyzedId = state_id THEN "none" ELSE "scout"
    /\ UNCHANGED <<bundle, state_id, violations, store>>

Applies(clause) == clause.roles = {} \/ Role \in clause.roles

\* The clauses of a list that are violated, in its order.
Kept(clauses, violated) ==
    FlattenSeq([i \in DOMAIN clauses |->
                  IF clauses[i] \in violated THEN <<clauses[i]>> ELSE <<>>])

\* audit: the forbidden clauses with a subject, the required ones without.
Audit ==
    LET applying == {c \in Clause : Applies(c)}
        present == {c \in applying : c.subject \in Tags[bundle]}
    IN  /\ Stage("audit", "record")
        /\ violations' = Kept(Forbidden, present) \o Kept(Required, applying \ present)
        /\ UNCHANGED <<bundle, state_id, map_id, store, raised>>

PersistViolation ==
    LET k == Len(persisted) + 1
    IN  /\ Stage("record", "record")
        /\ k <= Len(violations)
        /\ persisted' = Append(persisted, [state |-> map_id, clause |-> violations[k]])
        /\ UNCHANGED <<locals, nodes, raised>>

Audited ==
    /\ Stage("record", "close")
    /\ Len(persisted) = Len(violations)
    /\ UNCHANGED <<locals, store, raised>>

-----------------------------------------------------------------------------
(* main: the end                                                           *)

ExitOf(kind) == IF kind = "none" THEN 0 ELSE IF kind = "scout" THEN 2 ELSE 1

\* Mutant of Close: close follows the try, it is not its `finally`.
CloseAfterTry ==
    /\ pc = "close"
    /\ closed' = IF raised = "other" THEN closed ELSE closed + 1
    /\ exit' = ExitOf(raised)
    /\ pc' = IF raised = "none" THEN "report" ELSE "ended"
    /\ UNCHANGED <<input, locals, store, opened, raised, report>>

\* The `finally`; the exception in flight ends main, caught or not.
Close ==
    /\ pc = "close"
    /\ closed' = closed + 1
    /\ exit' = ExitOf(raised)
    /\ pc' = IF raised = "none" THEN "report" ELSE "ended"
    /\ UNCHANGED <<input, locals, store, opened, raised, report>>

\* close raises: its exception replaces a return already under way.
CloseRaises ==
    /\ pc = "close"
    /\ closed' = closed + 1
    /\ raised' = "other" /\ exit' = 1 /\ pc' = "ended"
    /\ UNCHANGED <<input, locals, store, opened, report>>

\* The fingerprint is taken a second time, after the try.
ReportRaises ==
    /\ pc = "report"
    /\ raised' = "other" /\ exit' = 1 /\ pc' = "ended"
    /\ UNCHANGED <<input, locals, store, opened, closed, report>>

Report ==
    /\ pc = "report"
    /\ report' = [state |-> Fingerprint[bundle], violations |-> violations]
    /\ exit' = IF violations = <<>> THEN 0 ELSE 1
    /\ pc' = "ended"
    /\ UNCHANGED <<input, locals, store, opened, closed, raised>>

Stopped == pc = "ended" /\ UNCHANGED vars

Next ==
    \/ Refuse \/ Start \/ Raise
    \/ Open \/ TakeFingerprint \/ PersistState \/ Analyze \/ Audit
    \/ PersistViolation \/ Audited
    \/ Close \/ CloseRaises \/ ReportRaises \/ Report
    \/ Stopped

Spec == Init /\ [][Next]_vars

-----------------------------------------------------------------------------
TypeOK ==
    /\ mode \in {"fake", "live"} /\ landed \in BOOLEAN
    /\ url \in Urls \cup {NoUrl} /\ (opened = 1 => url # NoUrl)
    /\ bundle \in Pages \cup {NoPage}
    /\ {state_id, map_id} \subseteq Ids \cup {Placeholder}
    /\ violations \in Seq(Clause)
    /\ nodes \subseteq Ids /\ persisted \in Seq([state : Ids, clause : Clause])
    /\ opened \in 0..1 /\ closed \in 0..1
    /\ raised \in {"none", "scout", "other"} /\ exit \in 0..2
    /\ report \in [state : Ids \cup {Placeholder}, violations : Seq(Clause)]
    /\ pc \in {"start", "open", "fingerprint", "persist", "analyze", "audit",
              "record", "close", "report", "ended"}

\* ADR-001 decision 8, "a report joins to zero rows": whatever is raised when, a
\* violation in the store is of a state in the store, the page's own, and the
\* stored ones are the first of those the audit found, in its order.
PersistedJoins ==
    /\ Len(persisted) <= Len(violations)
    /\ \A i \in DOMAIN persisted :
         /\ persisted[i].state \in nodes
         /\ persisted[i].state = Fingerprint[bundle]
         /\ persisted[i].clause = violations[i]

\* The exit codes of the docstring, as far as main decides them: 0 and 1 come
\* with the report, which tells exactly what was stored, 2 comes without.  Only
\* an exception main does not catch gives 1 without a report.  The crawler is
\* closed once, if there is one.
ExitTells ==
    pc = "ended" =>
      /\ closed = opened
      /\ exit = 2 => report = NoReport
      /\ exit = 1 => (raised = "other" \/ report.violations # <<>>)
      /\ raised = "other" => (exit = 1 /\ report = NoReport)
      /\ (exit = 0 \/ report # NoReport) =>
           /\ report.state \in nodes
           /\ report.violations = [i \in DOMAIN persisted |-> persisted[i].clause]
           /\ exit = IF persisted = <<>> THEN 0 ELSE 1
=============================================================================
