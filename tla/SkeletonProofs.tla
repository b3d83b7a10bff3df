--------------------------- MODULE SkeletonProofs ---------------------------
(***************************************************************************)
(* The skeleton: what is stored joins and the exit code tells, for every   *)
(* site, policy and fault.                                                 *)
(***************************************************************************)
EXTENDS Skeleton, RecursionProofs

\* The clauses kept of a list are a list of clauses.
LEMMA KeptType ==
    ASSUME NEW clauses \in Seq(Clause), NEW violated
    PROVE  Kept(clauses, violated) \in Seq(Clause)
  <1> DEFINE new(i) == IF clauses[i] \in violated THEN <<clauses[i]>> ELSE <<>>
             s == [i \in DOMAIN clauses |-> new(i)]
  <1>1. DOMAIN clauses = 1..Len(clauses) /\ Len(clauses) \in Nat
    OBVIOUS
  <1>2. ASSUME NEW i \in DOMAIN clauses PROVE new(i) \in Seq(Clause)
    <2>1. clauses[i] \in Clause
      BY <1>1
    <2> QED  BY <2>1
  <1>3. s \in Seq(Seq(Clause))
    <2> HIDE DEF new
    <2>1. s \in [1..Len(clauses) -> Seq(Clause)]
      BY <1>1, <1>2
    <2> HIDE DEF s
    <2> QED  BY <1>1, <2>1
  <1>4. Kept(clauses, violated) = FlattenSeq(s)
    BY DEF Kept
  <1> HIDE DEF s
  <1> QED  BY <1>3, <1>4, Flattened

-----------------------------------------------------------------------------
(* What run_once and main know at each stage.                              *)

Stages == {"open", "fingerprint", "persist", "analyze", "audit", "record"}

\* The locals are set in the order of the stages, and the store follows: a
\* bundle, its state id, its node, the id of its map, and only then violations.
Progress ==
    /\ pc \in {"fingerprint", "persist", "analyze", "audit", "record"} => bundle \in Pages
    /\ pc \in {"persist", "analyze", "audit", "record"} => state_id = Fingerprint[bundle]
    /\ pc \in {"analyze", "audit", "record"} => state_id \in nodes
    /\ pc \in {"audit", "record"} => map_id = state_id
    /\ pc \in {"start", "open", "fingerprint", "persist", "analyze", "audit"} =>
         persisted = <<>> /\ violations = <<>>

\* Where nothing was raised main holds the whole result, all of it stored.
Returned ==
    /\ pc \notin {"close", "ended"} => raised = "none"
    /\ pc \in {"close", "report"} /\ raised = "none" =>
         /\ bundle \in Pages /\ Fingerprint[bundle] \in nodes
         /\ Len(persisted) = Len(violations)

\* One crawler, closed at the end; no report before it.
Accounted ==
    /\ pc = "start" => opened = 0 /\ exit = 0
    /\ pc \notin {"start", "ended"} => opened = 1
    /\ pc \notin {"report", "ended"} => closed = 0
    /\ pc = "report" => closed = 1
    /\ pc # "ended" => report = NoReport

Inv == TypeOK /\ PersistedJoins /\ Progress /\ Returned /\ Accounted /\ ExitTells

LEMMA InitInv == Init => Inv
  <1> SUFFICES ASSUME Init PROVE Inv
    OBVIOUS
  <1>1. TypeOK
    BY SkeletonAssumption DEF Init, TypeOK, NoReport
  <1>2. PersistedJoins /\ Progress /\ Returned /\ Accounted /\ ExitTells
    BY DEF Init, PersistedJoins, Progress, Returned, Accounted, ExitTells
  <1> QED  BY <1>1, <1>2 DEF Inv

\* A call of run_once, whatever it does, leaves the end of main alone.
LEMMA StageRests ==
    ASSUME Inv, NEW here \in Stages, NEW next \in Stages \cup {"close"}, Stage(here, next)
    PROVE  /\ mode' \in {"fake", "live"} /\ landed' \in BOOLEAN
           /\ url' \in Urls \cup {NoUrl} /\ (opened' = 1 => url' # NoUrl)
           /\ opened' \in 0..1 /\ closed' \in 0..1 /\ exit' \in 0..2
           /\ report' \in [state : Ids \cup {Placeholder}, violations : Seq(Clause)]
           /\ pc' \in Stages \cup {"close"} /\ pc = here /\ pc' = next
           /\ Accounted' /\ ExitTells'
  BY DEF Inv, TypeOK, Stages, Stage, Accounted, ExitTells, input

\* The calls before the audit: nothing is found yet.
LEMMA EarlyInv ==
    ASSUME Inv, Open \/ TakeFingerprint \/ PersistState \/ Analyze
    PROVE  Inv'
  <1>1. /\ persisted = <<>> /\ violations = <<>> /\ raised = "none"
        /\ UNCHANGED <<persisted, violations>>
    BY DEF Inv, Progress, Returned, Open, TakeFingerprint, PersistState, Analyze, Stage,
           store, locals
  <1>2. PersistedJoins'
    <2>1. Len(<<>>) = 0 /\ DOMAIN <<>> = {}
      OBVIOUS
    <2> QED  BY <1>1, <2>1 DEF PersistedJoins
  <1>3. CASE Open
    <2>1. bundle' = Site[url] /\ Site[url] # NoPage /\ url \in Urls
      BY <1>3 DEF Open, Inv, TypeOK, Accounted, Stage
    <2>2. bundle' \in Pages
      BY <2>1, SkeletonAssumption
    <2>3. TypeOK' /\ Accounted' /\ ExitTells'
      <3>1. Stage("open", "fingerprint")
        BY <1>3 DEF Open
      <3> QED  BY <1>3, <2>2, <3>1, StageRests DEF Open, Inv, TypeOK, Stages, store
    <2>4. Progress' /\ Returned'
      BY <1>1, <1>3, <2>2 DEF Open, Stage, Progress, Returned, Inv, store
    <2> QED  BY <1>2, <2>3, <2>4 DEF Inv
  <1>4. CASE TakeFingerprint
    <2>1. Stage("fingerprint", "persist")
      BY <1>4 DEF TakeFingerprint
    <2>2. /\ bundle \in Pages /\ bundle' = bundle /\ state_id' = Fingerprint[bundle]
          /\ state_id' \in Ids
      BY <1>4, <2>1, SkeletonAssumption DEF TakeFingerprint, Stage, Inv, Progress
    <2>3. TypeOK' /\ Accounted' /\ ExitTells'
      BY <1>4, <2>1, <2>2, StageRests DEF TakeFingerprint, Inv, TypeOK, Stages, store
    <2>4. Progress' /\ Returned'
      BY <1>1, <1>4, <2>1, <2>2 DEF TakeFingerprint, Stage, Progress, Returned, Inv, store
    <2> QED  BY <1>2, <2>3, <2>4 DEF Inv
  <1>5. CASE PersistState
    <2>1. Stage("persist", "analyze")
      BY <1>5 DEF PersistState
    <2>2. /\ bundle \in Pages /\ state_id = Fingerprint[bundle] /\ state_id \in Ids
          /\ nodes' = nodes \cup {state_id} /\ UNCHANGED <<bundle, state_id>>
      BY <1>5, <2>1, SkeletonAssumption DEF PersistState, Stage, Inv, Progress, locals
    <2>3. TypeOK' /\ Accounted' /\ ExitTells'
      BY <1>5, <2>1, <2>2, StageRests DEF PersistState, Inv, TypeOK, Stages, locals
    <2>4. Progress' /\ Returned'
      BY <1>1, <1>5, <2>1, <2>2 DEF PersistState, Stage, Progress, Returned, Inv, locals
    <2> QED  BY <1>2, <2>3, <2>4 DEF Inv
  <1>6. CASE Analyze
    <2>1. /\ Stage("analyze", IF AnalyzedId = state_id THEN "audit" ELSE "close")
          /\ map_id' = AnalyzedId
          /\ raised' = (IF AnalyzedId = state_id THEN "none" ELSE "scout")
          /\ UNCHANGED <<bundle, state_id, nodes>>
      BY <1>6 DEF Analyze, store
    <2>2. /\ bundle \in Pages /\ state_id = Fingerprint[bundle] /\ state_id \in nodes
          /\ AnalyzedId \in Ids \cup {Placeholder}
      BY <2>1, SkeletonAssumption DEF Stage, Inv, Progress, AnalyzedId
    <2>3. TypeOK' /\ Accounted' /\ ExitTells'
      BY <1>1, <1>6, <2>1, <2>2, StageRests DEF Analyze, Inv, TypeOK, Stages, store
    <2>4. Progress' /\ Returned'
      BY <1>1, <2>1, <2>2 DEF Stage, Progress, Returned
    <2> QED  BY <1>2, <2>3, <2>4 DEF Inv
  <1> QED  BY <1>3, <1>4, <1>5, <1>6

\* The audit and the loop that stores what it found.
LEMMA AuditInv ==
    ASSUME Inv, Audit \/ PersistViolation \/ Audited
    PROVE  Inv'
  <1>1. /\ pc \in {"audit", "record"} /\ bundle \in Pages /\ map_id = state_id
        /\ state_id = Fingerprint[bundle] /\ state_id \in nodes /\ raised = "none"
        /\ UNCHANGED <<bundle, state_id, map_id, nodes, raised>>
    BY DEF Inv, Progress, Returned, Audit, PersistViolation, Audited, Stage, locals, store
  <1>2. map_id \in Ids
    BY <1>1, SkeletonAssumption
  <1>3. CASE Audit
    <2>1. Stage("audit", "record") /\ persisted' = <<>>
      BY <1>3 DEF Audit, Stage, Inv, Progress, store
    <2>2. violations' \in Seq(Clause)
      <3>1. PICK k1 \in Seq(Clause), k2 \in Seq(Clause) : violations' = k1 \o k2
        BY <1>3, KeptType, SkeletonAssumption DEF Audit
      <3> QED  BY <3>1
    <2>3. TypeOK' /\ Accounted' /\ ExitTells'
      BY <1>1, <1>3, <2>1, <2>2, StageRests DEF Audit, Inv, TypeOK, Stages, store
    <2>4. PersistedJoins'
      <3>1. Len(violations') \in Nat /\ Len(<<>>) = 0 /\ DOMAIN <<>> = {}
        BY <2>2
      <3> QED  BY <2>1, <3>1 DEF PersistedJoins
    <2>5. Progress' /\ Returned'
      BY <1>1, <2>1 DEF Stage, Progress, Returned
    <2> QED  BY <2>3, <2>4, <2>5 DEF Inv
  <1>4. CASE PersistViolation
    <2> DEFINE k == Len(persisted) + 1
               e == [state |-> map_id, clause |-> violations[k]]
    <2>1. /\ Stage("record", "record") /\ k <= Len(violations)
          /\ persisted' = Append(persisted, e) /\ violations' = violations
      BY <1>4 DEF PersistViolation, locals
    <2>2. /\ violations \in Seq(Clause) /\ persisted \in Seq([state : Ids, clause : Clause])
          /\ Len(persisted) \in Nat /\ Len(violations) \in Nat
      BY DEF Inv, TypeOK
    <2>3. violations[k] \in Clause
      BY <2>1, <2>2
    <2>4. e \in [state : Ids, clause : Clause]
      BY <1>2, <2>3
    <2>5. /\ persisted' \in Seq([state : Ids, clause : Clause])
          /\ Len(persisted') = k /\ DOMAIN persisted' = 1..k /\ DOMAIN persisted = 1..(k - 1)
          /\ persisted'[k] = e /\ \A i \in 1..(k - 1) : persisted'[i] = persisted[i]
      <3> HIDE DEF e
      <3> QED  BY <2>1, <2>2, <2>4
    <2>6. TypeOK' /\ Accounted' /\ ExitTells'
      BY <1>1, <1>4, <2>1, <2>5, StageRests DEF PersistViolation, Inv, TypeOK, Stages, locals
    <2>7. PersistedJoins'
      <3>1. ASSUME NEW i \in 1..k
            PROVE  /\ persisted'[i].state \in nodes' /\ persisted'[i].state = Fingerprint[bundle']
                   /\ persisted'[i].clause = violations'[i]
        <4>1. CASE i = k
          BY <1>1, <2>1, <2>5, <4>1
        <4>2. CASE i \in 1..(k - 1)
          BY <1>1, <2>1, <2>5, <4>2 DEF Inv, PersistedJoins
        <4> QED  BY <2>2, <4>1, <4>2
      <3> QED  BY <2>1, <2>5, <3>1 DEF PersistedJoins
    <2>8. Progress' /\ Returned'
      BY <1>1, <2>1 DEF Stage, Progress, Returned
    <2> QED  BY <2>6, <2>7, <2>8 DEF Inv
  <1>5. CASE Audited
    <2>1. /\ Stage("record", "close") /\ Len(persisted) = Len(violations)
          /\ UNCHANGED <<persisted, violations>>
      BY <1>5 DEF Audited, locals, store
    <2>2. TypeOK' /\ Accounted' /\ ExitTells'
      BY <1>1, <2>1, StageRests DEF Inv, TypeOK, Stages
    <2>3. PersistedJoins' /\ Progress' /\ Returned'
      BY <1>1, <2>1 DEF Stage, Inv, PersistedJoins, Progress, Returned
    <2> QED  BY <2>2, <2>3 DEF Inv
  <1> QED  BY <1>3, <1>4, <1>5

\* A call of run_once raises: what is stored by then still joins.
LEMMA RaiseInv ==
    ASSUME Inv, Raise
    PROVE  Inv'
  <1>1. PICK here \in Stages : Stage(here, "close")
    BY DEF Raise, Stages
  <1>2. raised' \in {"scout", "other"} /\ UNCHANGED <<locals, store>>
    BY DEF Raise
  <1>3. TypeOK' /\ Accounted' /\ ExitTells'
    BY <1>1, <1>2, StageRests DEF Inv, TypeOK, Stages, locals, store
  <1>4. PersistedJoins' /\ Progress' /\ Returned'
    BY <1>1, <1>2 DEF Stage, Inv, PersistedJoins, Progress, Returned, locals, store
  <1> QED  BY <1>3, <1>4 DEF Inv

\* main before and after the try.
LEMMA MainInv ==
    ASSUME Inv, Refuse \/ Start \/ Close \/ CloseRaises \/ ReportRaises \/ Report
    PROVE  Inv'
  <1>1. UNCHANGED <<locals, store>> /\ PersistedJoins'
    BY DEF Inv, PersistedJoins, Refuse, Start, Close, CloseRaises, ReportRaises, Report,
           locals, store
  <1>2. CASE Refuse
    <2>1. TypeOK' /\ Progress' /\ Returned' /\ Accounted'
      BY <1>1, <1>2 DEF Refuse, Inv, TypeOK, Progress, Returned, Accounted, locals, store, input
    <2>2. ExitTells'
      BY <1>1, <1>2 DEF Refuse, Inv, TypeOK, Returned, Accounted, ExitTells
    <2> QED  BY <1>1, <2>1, <2>2 DEF Inv
  <1>3. CASE Start
    <2>1. TypeOK'
      BY <1>1, <1>3, SkeletonAssumption DEF Start, Inv, TypeOK, Accounted, locals, store
    <2>2. Progress' /\ Returned' /\ Accounted' /\ ExitTells'
      BY <1>1, <1>3 DEF Start, Inv, Progress, Returned, Accounted, ExitTells, locals, store
    <2> QED  BY <1>1, <2>1, <2>2 DEF Inv
  <1>4. CASE Close \/ CloseRaises \/ ReportRaises
    <2>1. TypeOK'
      BY <1>1, <1>4 DEF Close, CloseRaises, ReportRaises, ExitOf, Inv, TypeOK, Accounted,
                        locals, store, input
    <2>2. Progress' /\ Returned' /\ Accounted' /\ ExitTells'
      BY <1>1, <1>4 DEF Close, CloseRaises, ReportRaises, ExitOf, Inv, TypeOK, Progress,
                        Returned, Accounted, ExitTells, locals, store
    <2> QED  BY <1>1, <2>1, <2>2 DEF Inv
  <1>5. CASE Report
    <2>1. /\ bundle \in Pages /\ Fingerprint[bundle] \in nodes /\ raised = "none"
          /\ Fingerprint[bundle] \in Ids /\ violations \in Seq(Clause)
          /\ Len(persisted) = Len(violations) /\ closed = opened
      BY <1>5, SkeletonAssumption DEF Report, Inv, TypeOK, Returned, Accounted
    <2>2. TypeOK' /\ Progress' /\ Returned' /\ Accounted'
      BY <1>1, <1>5, <2>1 DEF Report, Inv, TypeOK, Progress, Returned, Accounted, locals,
                              store, input
    <2>3. violations = [i \in DOMAIN persisted |-> persisted[i].clause]
      <3>1. /\ persisted \in Seq([state : Ids, clause : Clause])
            /\ DOMAIN persisted = 1..Len(persisted) /\ DOMAIN violations = 1..Len(violations)
            /\ violations = [i \in DOMAIN violations |-> violations[i]]
        BY <2>1 DEF Inv, TypeOK
      <3>2. \A i \in DOMAIN persisted : persisted[i].clause = violations[i]
        BY DEF Inv, PersistedJoins
      <3> QED  BY <2>1, <3>1, <3>2
    <2>4. (violations = <<>>) <=> (persisted = <<>>)
      BY <2>1 DEF Inv, TypeOK
    <2>5. ExitTells'
      BY <1>1, <1>5, <2>1, <2>3, <2>4 DEF Report, ExitTells, locals, store
    <2> QED  BY <1>1, <2>2, <2>5 DEF Inv
  <1> QED  BY <1>2, <1>3, <1>4, <1>5

\* Inv holds throughout.
LEMMA AlwaysInv == Spec => []Inv
  <1>1. Inv /\ [Next]_vars => Inv'
    <2> SUFFICES ASSUME Inv, [Next]_vars PROVE Inv'
      OBVIOUS
    <2>1. CASE UNCHANGED vars
      BY <2>1 DEF vars, input, locals, store, Inv, TypeOK, PersistedJoins, Progress, Returned,
                  Accounted, ExitTells
    <2> QED  BY <2>1, EarlyInv, AuditInv, RaiseInv, MainInv DEF Next, Stopped
  <1> QED  BY InitInv, <1>1, PTL DEF Spec

\* The locals, the store and the report hold what their types say, and the
\* crawler was opened for an address.
THEOREM TypeCorrect == Spec => []TypeOK
  BY AlwaysInv, PTL DEF Inv

\* No report joins to zero rows, whatever call raises (ADR-001 decision 8).
THEOREM StoredJoins == Spec => []PersistedJoins
  BY AlwaysInv, PTL DEF Inv

\* The exit codes of the docstring, and the close of the `finally`.
THEOREM ExitCodeTells == Spec => []ExitTells
  BY AlwaysInv, PTL DEF Inv
=============================================================================
