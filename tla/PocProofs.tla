------------------------------ MODULE PocProofs ------------------------------
(***************************************************************************)
(* The proof of concept, for every application and configuration.          *)
(***************************************************************************)
EXTENDS Poc, ExplorationProofs, FiniteSetTheorems

-----------------------------------------------------------------------------
(* The inductive invariant.                                                *)

\* What each node finds: a bundle once scan has run, an entry of the current
\* state before act, an edge owing only on the way to the scan that writes it.
Place ==
    /\ bundle # NoPage => page \in Pages
    /\ pc \in {"reason", "act", "observe", "end"} =>
         bundle \in Pages /\ current_state_id = bundle
    /\ pc = "observe" => next_bundle \in Pages
    /\ pc = "scan" /\ last_action # NoAction => bundle \in Pages
    /\ pc \in {"reason", "act", "end"} => last_action = NoAction
    /\ pc = "act" => Mine # {}
    /\ \A i \in DOMAIN frontier : frontier[i].depth <= DepthLimit

\* The limit is tested before every act.
Counted ==
    /\ Len(trail) = iterations
    /\ pc \in {"act", "observe"} => iterations < max_iterations
    /\ pc = "scan" => iterations < max_iterations \/ iterations = 0
    /\ pc \in {"reason", "end"} => iterations <= max_iterations \/ iterations = 1
    /\ pc = "end" => iterations >= max_iterations \/ Mine = {}

\* The browser shows what the run holds in hand.
Position ==
    /\ pc \in {"scan", "reason", "act", "end"} => page = bundle
    /\ pc = "observe" => page = next_bundle

\* The edges are the firings, but for the one that is owing.
Owing ==
    /\ Len(fired) <= Len(edges) + 1
    /\ \A i \in DOMAIN edges :
         /\ i \in DOMAIN fired
         /\ [from |-> edges[i].from, action |-> edges[i].action, to |-> edges[i].to]
              = fired[i]
    /\ pc # "raised" /\ last_action = NoAction => Len(fired) = Len(edges)
    /\ pc # "raised" /\ last_action # NoAction =>
         /\ Len(fired) = Len(edges) + 1
         /\ fired[Len(fired)] = [from |-> last_action.from, action |-> last_action.action,
                                 to |-> IF pc = "observe" THEN next_bundle ELSE bundle]

\* A control is <<page, index>>; its action.
ActionOf(c) == app[c[1]][c[2]].action

\* Every entry that waits is of a control of its own, and so is every act, and
\* none of an act waits: a control is enqueued once and taken once.
Owned(own, spent) ==
    /\ \A i, j \in DOMAIN frontier : own[i] = own[j] => i = j
    /\ \A i \in DOMAIN frontier :
         /\ own[i] \notin spent
         /\ PairOf(frontier[i]) = <<own[i][1], ActionOf(own[i])>>
    /\ \A c \in spent : <<c[1], ActionOf(c)>> \in visited
    /\ IsFiniteSet(spent)
    /\ iterations <= Cardinality(spent) + (IF pc \in {"scan", "observe"} THEN 0 ELSE 1)

\* Every firing is of a spent control of its own.
Performed(by, spent) ==
    /\ \A i, j \in DOMAIN fired : by[i] = by[j] => i = j
    /\ \A i \in DOMAIN fired : fired[i].from = by[i][1] /\ fired[i].action = ActionOf(by[i])

Spending ==
    \E own \in [DOMAIN frontier -> Controls], spent \in SUBSET Controls :
      /\ Owned(own, spent)
      /\ "late" \notin Flaky => \E by \in [DOMAIN fired -> spent] : Performed(by, spent)

Steady == TypeOK /\ Place /\ Counted

-----------------------------------------------------------------------------
(* Operators.                                                              *)

\* A non-empty set of positions has a last one.
LEMMA LastOf ==
    ASSUME NEW n \in Nat, NEW M \in SUBSET (1..n), M # {}
    PROVE  \E i \in M : \A j \in M : j <= i
  <1> DEFINE S == {k \in Nat : \A N \in SUBSET (1..k) :
                      N # {} => \E i \in N : \A j \in N : j <= i}
  <1>1. 0 \in S
    <2>1. 1..0 = {}
      OBVIOUS
    <2> QED  BY <2>1
  <1>2. ASSUME NEW k \in S PROVE k + 1 \in S
    <2>1. SUFFICES ASSUME NEW N \in SUBSET (1..(k + 1)), N # {}
                   PROVE  \E i \in N : \A j \in N : j <= i
      OBVIOUS
    <2>2. CASE k + 1 \in N
      BY <2>1, <2>2
    <2>3. CASE k + 1 \notin N
      <3>1. N \in SUBSET (1..k)
        BY <2>3
      <3> QED  BY <2>1, <3>1
    <2> QED  BY <2>2, <2>3
  <1>3. S = Nat
    <2>1. S \in SUBSET Nat
      OBVIOUS
    <2> HIDE DEF S
    <2> QED  BY <2>1, <1>1, <1>2, InductionOnNat
  <1> QED  BY <1>3

LEMMA Joined ==
    ASSUME NEW T, NEW a \in Seq(T), NEW b \in Seq(T)
    PROVE  /\ a \o b \in Seq(T) /\ Len(a \o b) = Len(a) + Len(b)
           /\ \A j \in 1..Len(a) : (a \o b)[j] = a[j]
           /\ \A j \in 1..Len(b) : (a \o b)[Len(a) + j] = b[j]
  OBVIOUS

\* A list without its element at i.
LEMMA RemovedAt ==
    ASSUME NEW T, NEW s \in Seq(T), NEW i \in 1..Len(s)
    PROVE  /\ RemoveAt(s, i) \in Seq(T) /\ Len(RemoveAt(s, i)) = Len(s) - 1
           /\ \A j \in 1..(Len(s) - 1) :
                RemoveAt(s, i)[j] = IF j < i THEN s[j] ELSE s[j + 1]
  <1> DEFINE n == Len(s)
             a == SubSeq(s, 1, i - 1)
             b == SubSeq(s, i + 1, n)
  <1>1. n \in Nat /\ i \in Nat /\ 1 <= i /\ i <= n
    OBVIOUS
  <1>2. /\ a \in Seq(T) /\ Len(a) = i - 1 /\ \A j \in 1..(i - 1) : a[j] = s[j]
    BY <1>1
  <1>3. /\ b \in Seq(T) /\ Len(b) = n - i /\ \A j \in 1..(n - i) : b[j] = s[i + j]
    BY <1>1
  <1> HIDE DEF a, b, n
  <1>4. a \o b \in Seq(T) /\ Len(a \o b) = n - 1
    <2>1. a \o b \in Seq(T) /\ Len(a \o b) = Len(a) + Len(b)
      BY <1>2, <1>3, Joined
    <2>2. (i - 1) + (n - i) = n - 1
      BY <1>1
    <2> QED  BY <1>2, <1>3, <2>1, <2>2
  <1>5. ASSUME NEW j \in 1..(n - 1)
        PROVE  (a \o b)[j] = IF j < i THEN s[j] ELSE s[j + 1]
    <2>1. CASE j < i
      <3>1. j \in 1..(i - 1)
        BY <1>1, <2>1
      <3>2. (a \o b)[j] = a[j]
        BY <1>1, <1>2, <1>3, <3>1
      <3> QED  BY <1>2, <2>1, <3>1, <3>2
    <2>2. CASE ~(j < i)
      <3>1. j - (i - 1) \in 1..(n - i) /\ i + (j - (i - 1)) = j + 1
        BY <1>1, <2>2
      <3>2. (a \o b)[j] = b[j - (i - 1)]
        BY <1>1, <1>2, <1>3, <2>2
      <3> QED  BY <1>3, <2>2, <3>1, <3>2
    <2> QED  BY <2>1, <2>2
  <1> QED  BY <1>4, <1>5 DEF RemoveAt, a, b, n

\* The enumerate loop adds m entries: what waited stays in its place, and each
\* new entry is of a fresh control of the page, `at`, of its own.
Enlarged(sid, m, at) ==
    /\ Enqueued(sid) \in Seq(Pending) /\ Len(Enqueued(sid)) = Len(frontier) + m
    /\ \A i \in 1..Len(frontier) : Enqueued(sid)[i] = frontier[i]
    /\ \A k, l \in 1..m : at[k] = at[l] => k = l
    /\ \A k \in 1..m : LET e == Enqueued(sid)[Len(frontier) + k]
                       IN  /\ e.from = sid /\ e.action = Enumerate(app, sid)[at[k]]
                           /\ e.depth = depth + 1 /\ Fresh(sid, e.action)

LEMMA EnqueuedIs ==
    ASSUME NEW sid \in Pages, app \in Apps, frontier \in Seq(Pending), depth \in Nat
    PROVE  \E m \in Nat : \E at \in [1..m -> 1..Len(Enumerate(app, sid))] :
             Enlarged(sid, m, at)
  <1> DEFINE ids == Enumerate(app, sid)
             n == Len(ids)
             entry(i) == [from |-> sid, action |-> ids[i], depth |-> depth + 1, path |-> <<>>]
             new(i) == IF Fresh(sid, ids[i]) THEN <<entry(i)>> ELSE <<>>
             s == [i \in DOMAIN ids |-> new(i)]
             list == FlattenSeq(s)
  <1>1. /\ ids \in Seq(Actions) /\ n \in Nat /\ DOMAIN ids = 1..n
        /\ \A i \in 1..n : ids[i] \in Actions
    <2>1. ids \in Seq(Actions)
      BY ExplorationAssumption, EnumerateType
    <2> HIDE DEF ids
    <2> QED  BY <2>1
  <1> HIDE DEF ids
  <1>2. ASSUME NEW i \in 1..n
        PROVE  entry(i) \in Pending /\ new(i) \in Seq(Pending) /\ Len(new(i)) <= 1
    <2>1. entry(i) \in Pending
      <3>1. <<>> \in Seq(Actions)
        OBVIOUS
      <3> QED  BY <1>1, <3>1 DEF Pending
    <2> HIDE DEF entry
    <2>2. <<entry(i)>> \in Seq(Pending) /\ Len(<<entry(i)>>) = 1
          /\ <<>> \in Seq(Pending) /\ Len(<<>>) = 0
      BY <2>1
    <2> QED  BY <2>1, <2>2
  <1> HIDE DEF new
  <1>3. s \in [1..n -> Seq(Pending)] /\ \A i \in 1..n : s[i] = new(i)
    BY <1>1, <1>2
  <1> HIDE DEF s
  <1>4. s \in Seq(Seq(Pending)) /\ Len(s) = n
    BY <1>1, <1>3
  <1>5. list \in Seq(Pending) /\ Placed(s, n, list)
    <2>1. \A i \in 1..Len(s) : Len(s[i]) <= 1
      BY <1>2, <1>3, <1>4
    <2> QED  BY <1>4, <2>1, Flattened
  <1>6. Enqueued(sid) = frontier \o list
    BY DEF Enqueued, s, new, entry, ids
  <1> HIDE DEF list
  <1> DEFINE m == Len(list)
  <1>7. PICK at \in [1..m -> 1..n] :
          /\ \A k, l \in 1..m : at[k] = at[l] => k = l
          /\ \A k \in 1..m : s[at[k]] = <<list[k]>>
    BY <1>5 DEF Placed
  <1>8. ASSUME NEW k \in 1..m
        PROVE  list[k] = entry(at[k]) /\ Fresh(sid, ids[at[k]])
    <2>1. at[k] \in 1..n
      OBVIOUS
    <2>2. new(at[k]) = <<list[k]>>
      BY <1>3, <1>7, <2>1
    <2> HIDE DEF entry
    <2>3. CASE Fresh(sid, ids[at[k]])
      <3>1. new(at[k]) = <<entry(at[k])>>
        BY <2>3 DEF new
      <3> QED  BY <2>2, <2>3, <3>1
    <2>4. CASE ~Fresh(sid, ids[at[k]])
      <3>1. new(at[k]) = <<>>
        BY <2>4 DEF new
      <3>2. Len(<<>>) = 0 /\ Len(<<list[k]>>) = 1
        OBVIOUS
      <3> QED  BY <2>2, <3>1, <3>2
    <2> QED  BY <2>3, <2>4
  <1>9. /\ m \in Nat /\ Enqueued(sid) \in Seq(Pending) /\ Len(Enqueued(sid)) = Len(frontier) + m
        /\ \A i \in 1..Len(frontier) : Enqueued(sid)[i] = frontier[i]
        /\ \A k \in 1..m : Enqueued(sid)[Len(frontier) + k] = list[k]
    BY <1>5, <1>6
  <1>10. ASSUME NEW k \in 1..m
         PROVE  /\ list[k].from = sid /\ list[k].action = ids[at[k]]
                /\ list[k].depth = depth + 1 /\ Fresh(sid, list[k].action)
    <2>1. at[k] \in 1..n
      OBVIOUS
    <2>3. list[k] = entry(at[k]) /\ Fresh(sid, ids[at[k]])
      BY <1>8
    <2>4. /\ entry(at[k]).from = sid /\ entry(at[k]).action = ids[at[k]]
          /\ entry(at[k]).depth = depth + 1
      OBVIOUS
    <2> HIDE DEF entry
    <2> QED  BY <2>3, <2>4
  <1>12. \A k \in 1..m :
           LET e == Enqueued(sid)[Len(frontier) + k]
           IN  /\ e.from = sid /\ e.action = ids[at[k]]
               /\ e.depth = depth + 1 /\ Fresh(sid, e.action)
    BY <1>9, <1>10
  <1> HIDE DEF m
  <1> m \in Nat /\ at \in [1..m -> 1..Len(Enumerate(app, sid))]
    BY <1>9 DEF ids
  <1> WITNESS m \in Nat
  <1> WITNESS at \in [1..m -> 1..Len(Enumerate(app, sid))]
  <1> QED  BY <1>7, <1>9, <1>12 DEF Enlarged, ids

-----------------------------------------------------------------------------
(* Types.                                                                  *)

LEMMA AppLoads ==
    ASSUME Steady
    PROVE  app \in Apps /\ IsApp(app) /\ DOMAIN app \subseteq Pages
  BY ExplorationAssumption DEF Steady, TypeOK, IsApp

\* act has an entry of the current state, the last of them, to take.
LEMMA ActFinds ==
    ASSUME Steady, pc = "act"
    PROVE  /\ Next_index \in 1..Len(frontier) /\ Item \in Pending
           /\ Item.from = current_state_id /\ current_state_id = bundle
           /\ Item.depth \in 0..DepthLimit
           /\ bundle \in Pages /\ page \in Pages /\ Target \in DOMAIN app \cup {NoPage}
           /\ Target # NoPage => Fires \in Firing /\ Target \in Pages
  <1>1. /\ frontier \in Seq(Pending) /\ Len(frontier) \in Nat
        /\ DOMAIN frontier = 1..Len(frontier)
    BY DEF Steady, TypeOK
  <1>2. Mine \in SUBSET (1..Len(frontier)) /\ Mine # {}
    BY <1>1 DEF Mine, Steady, Place
  <1>3. \E i \in Mine : \A j \in Mine : j <= i
    BY <1>1, <1>2, LastOf
  <1>4. Next_index \in Mine
    BY <1>3 DEF Next_index
  <1>5. Next_index \in 1..Len(frontier) /\ Item \in Pending /\ Item.from = current_state_id
    BY <1>1, <1>2, <1>4 DEF Item, Mine
  <1>6. /\ current_state_id = bundle /\ bundle \in Pages /\ page \in Pages
        /\ Item.depth <= DepthLimit
    BY <1>1, <1>5, CrawlerAssumption DEF Steady, Place, Item
  <1>7. Item.depth \in 0..DepthLimit
    BY <1>5, <1>6, ExplorationAssumption DEF Pending
  <1>8. Target \in DOMAIN app \cup {NoPage}
    BY AppLoads, DestType DEF Target
  <1>9. Target # NoPage => Target \in Pages
    BY <1>8, AppLoads
  <1>10. Target # NoPage => Fires \in Firing
    BY <1>5, <1>6, <1>9 DEF Fires, Firing, Pending
  <1> QED  BY <1>5, <1>6, <1>7, <1>8, <1>9, <1>10

\* A side effect leaves one of the versions of the application.
LEMMA AfterLoads ==
    ASSUME Steady, NEW x, NEW v \in After(app, x)
    PROVE  v \in Apps
  BY AppLoads DEF After

LEMMA InitSteady == Init => Steady
  <1> SUFFICES ASSUME Init PROVE Steady
    OBVIOUS
  <1>1. Len(<<>>) = 0 /\ DOMAIN <<>> = {}
    OBVIOUS
  <1>2. TypeOK
    BY ExplorationAssumption, PocAssumption DEF Init, TypeOK
  <1>3. Place /\ Counted
    BY <1>1 DEF Init, Place, Counted
  <1> QED  BY <1>2, <1>3 DEF Steady

\* The page a scan is about, and the edge it writes.
LEMMA ScanType ==
    ASSUME Steady, pc = "scan", Scanned # NoPage
    PROVE  /\ Scanned \in Pages /\ Edges \in Seq(Edge) /\ edges \o Edges \in Seq(Edge)
           /\ LET t == PersistState(nodes, Scanned, depth)
              IN  /\ t \in [DOMAIN t -> Nat] /\ DOMAIN t \subseteq Pages
                  /\ \A s \in DOMAIN t \ DOMAIN OldNodes : t[s] <= DepthLimit
  <1>1. Scanned \in Pages
    BY AppLoads, OpenType DEF Scanned, Steady, TypeOK
  <1>2. Edges \in Seq(Edge)
    <2>1. CASE last_action = NoAction
      BY <2>1 DEF Edges
    <2>2. CASE last_action # NoAction
      <3>1. last_action \in Pending
        BY <2>2 DEF Steady, TypeOK
      <3> DEFINE e == [from |-> last_action.from, to |-> Scanned,
                       action |-> last_action.action,
                       back |-> \E i \in DOMAIN trail : trail[i] = Scanned]
      <3>2. (\E i \in DOMAIN trail : trail[i] = Scanned) \in BOOLEAN
        OBVIOUS
      <3>3. e \in Edge
        BY <1>1, <3>1, <3>2, ZenonT(30) DEF Edge, Pending
      <3>4. Edges = <<e>>
        BY <2>2 DEF Edges
      <3> HIDE DEF e
      <3> QED  BY <3>3, <3>4
    <2> QED  BY <2>1, <2>2
  <1>3. edges \o Edges \in Seq(Edge)
    BY <1>2, Joined DEF Steady, TypeOK
  <1> DEFINE t == PersistState(nodes, Scanned, depth)
  <1>4. /\ depth \in Nat /\ depth <= DepthLimit /\ nodes \in [DOMAIN nodes -> Nat]
        /\ DOMAIN nodes \subseteq Pages
        /\ \A s \in DOMAIN nodes \ DOMAIN OldNodes : nodes[s] <= DepthLimit
    BY ExplorationAssumption DEF Steady, TypeOK
  <1>5. /\ DOMAIN t = DOMAIN nodes \cup {Scanned} /\ t \in [DOMAIN t -> Nat]
        /\ \A s \in DOMAIN nodes : t[s] = nodes[s]
        /\ Scanned \notin DOMAIN nodes => t[Scanned] = depth
    BY <1>4, PersistStateType
  <1> HIDE DEF t
  <1>6. \A s \in DOMAIN t \ DOMAIN OldNodes : t[s] <= DepthLimit
    BY <1>4, <1>5
  <1> QED  BY <1>1, <1>2, <1>3, <1>4, <1>5, <1>6 DEF t

LEMMA ScanSteady ==
    ASSUME Steady, Scan
    PROVE  Steady'
  <1>1. pc = "scan" /\ Scanned \in Pages
    BY ScanType DEF Scan
  <1>2. /\ frontier \in Seq(Pending) /\ depth \in 0..DepthLimit /\ iterations \in Nat
        /\ trail \in Seq(Pages)
    BY DEF Steady, TypeOK
  <1>3. frontier' \in Seq(Pending) /\ \A i \in DOMAIN frontier' : frontier'[i].depth <= DepthLimit
    <2>1. CASE ~(depth < DepthLimit)
      BY <2>1, <1>2 DEF Scan, Steady, Place
    <2>2. CASE depth < DepthLimit
      <3> DEFINE sid == Scanned
      <3>1. frontier' = Enqueued(sid)
        BY <2>2 DEF Scan
      <3>2. PICK m \in Nat : \E at \in [1..m -> 1..Len(Enumerate(app, sid))] :
                             Enlarged(sid, m, at)
        <4> HIDE DEF sid
        <4>1. app \in Apps /\ depth \in Nat /\ sid \in Pages
          BY <1>1, <1>2, AppLoads DEF sid
        <4> QED  BY <1>2, <4>1, EnqueuedIs
      <3>3. /\ Enqueued(sid) \in Seq(Pending) /\ Len(Enqueued(sid)) = Len(frontier) + m
            /\ \A i \in 1..Len(frontier) : Enqueued(sid)[i] = frontier[i]
            /\ \A k \in 1..m : Enqueued(sid)[Len(frontier) + k].depth = depth + 1
        <4> HIDE DEF sid
        <4> QED  BY <3>2 DEF Enlarged
      <3>4. depth + 1 <= DepthLimit
        BY <1>2, <2>2, ExplorationAssumption
      <3>5. ASSUME NEW i \in 1..(Len(frontier) + m) PROVE Enqueued(sid)[i].depth <= DepthLimit
        <4>1. CASE i \in 1..Len(frontier)
          BY <1>2, <3>3, <4>1 DEF Steady, Place
        <4>2. CASE i \notin 1..Len(frontier)
          <5>1. i - Len(frontier) \in 1..m /\ Len(frontier) + (i - Len(frontier)) = i
            BY <1>2, <4>2
          <5> QED  BY <3>4, <3>3, <5>1
        <4> QED  BY <4>1, <4>2
      <3> HIDE DEF sid
      <3>6. DOMAIN frontier' = 1..(Len(frontier) + m)
        BY <3>1, <3>3
      <3> QED  BY <3>1, <3>5, <3>6, <3>3
    <2> QED  BY <2>1, <2>2
  <1>4. page' \in Pages
    BY ExplorationAssumption DEF Scan, Steady, Place
  <1>5. trail' \in Seq(Pages) /\ Len(trail') = Len(trail) + 1
    BY <1>1, <1>2 DEF Scan
  <1>6. TypeOK'
    <2>1. /\ edges' \in Seq(Edge)
          /\ nodes' \in [DOMAIN nodes' -> Nat] /\ DOMAIN nodes' \subseteq Pages
          /\ \A s \in DOMAIN nodes' \ DOMAIN OldNodes : nodes'[s] <= DepthLimit
      BY <1>1, ScanType DEF Scan
    <2> QED  BY <1>1, <1>2, <1>3, <1>4, <1>5, <2>1 DEF Scan, Steady, TypeOK
  <1>7. Place'
    BY <1>1, <1>3, <1>4 DEF Scan, Place
  <1>8. Counted'
    <2>1. max_iterations \in Nat /\ iterations' = iterations + 1 /\ Len(trail) = iterations
      BY PocAssumption DEF Scan, Steady, TypeOK, Counted
    <2> QED  BY <1>1, <1>2, <1>5, <2>1 DEF Scan, Steady, Counted
  <1> QED  BY <1>6, <1>7, <1>8 DEF Steady

\* A list of pages with the violations of one more.
LEMMA FoundType == Found \in Seq(Bad)
  <1>1. CASE bundle \in Bad
    BY <1>1 DEF Found
  <1>2. CASE bundle \notin Bad
    BY <1>2 DEF Found
  <1> QED  BY <1>1, <1>2

LEMMA ReasonSteady ==
    ASSUME Steady, Reason
    PROVE  Steady'
  <1>1. violations' \in Seq(Bad) /\ persisted' \in Seq(Bad)
    BY FoundType, Joined DEF Reason, Steady, TypeOK
  <1>2. pc' \in {"act", "end"} /\ (pc' = "act" => iterations < max_iterations /\ Mine # {})
        /\ (pc' = "end" => iterations >= max_iterations \/ Mine = {})
    <2>1. iterations \in Nat /\ max_iterations \in Nat
      BY PocAssumption DEF Steady, TypeOK
    <2> QED  BY <2>1 DEF Reason, NextNode
  <1>3. TypeOK'
    BY <1>1, <1>2 DEF Reason, Steady, TypeOK, browser
  <1>4. Place' /\ Counted'
    BY <1>2 DEF Reason, Steady, Place, Counted, Mine, browser
  <1> QED  BY <1>3, <1>4 DEF Steady

\* The browser after a call of act that raised.
LEMMA FailedType ==
    ASSUME Steady, pc = "act", Failed
    PROVE  /\ app' \in Apps /\ page' \in Pages /\ fired' \in Seq(Firing)
           /\ "late" \notin Flaky => UNCHANGED <<app, page, fired>>
  <1>1. PICK moved \in BOOLEAN :
          /\ Raises("act", Target, moved)
          /\ page' = IF moved THEN Target ELSE page
          /\ fired' = IF moved THEN Append(fired, Fires) ELSE fired
          /\ app' \in IF moved THEN After(app, Item.action) ELSE {app}
    BY DEF Failed
  <1>2. moved => "late" \in Flaky /\ Target # NoPage
    BY <1>1 DEF Raises
  <1>3. fired \in Seq(Firing) /\ page \in Pages /\ app \in Apps
    BY ActFinds DEF Steady, TypeOK
  <1>4. CASE moved
    <2>1. Fires \in Firing /\ Target \in Pages
      BY <1>2, <1>4, ActFinds
    <2> QED  BY <1>1, <1>2, <1>3, <1>4, <2>1, AfterLoads
  <1>5. CASE ~moved
    BY <1>1, <1>3, <1>5
  <1> QED  BY <1>4, <1>5

LEMMA ActSteady ==
    ASSUME Steady, Execute \/ SkipFailed
    PROVE  Steady'
  <1>1. /\ pc = "act" /\ pc' = "observe" /\ frontier' = RemoveAt(frontier, Next_index)
        /\ visited' = visited \cup {PairOf(Item)}
        /\ UNCHANGED <<nodes, edges, persisted, max_iterations, bundle, current_state_id,
                       trail, violations, iterations>>
    BY DEF Execute, SkipFailed, ActStep, ActReturns
  <1>2. /\ Next_index \in 1..Len(frontier) /\ Item \in Pending
        /\ Item.depth \in 0..DepthLimit /\ bundle \in Pages /\ page \in Pages
        /\ Target # NoPage => Fires \in Firing /\ Target \in Pages
    BY <1>1, ActFinds
  <1>3. frontier' \in Seq(Pending) /\ \A i \in DOMAIN frontier' : frontier'[i].depth <= DepthLimit
    <2>1. frontier \in Seq(Pending) /\ Len(frontier) \in Nat
      BY DEF Steady, TypeOK
    <2>2. /\ frontier' \in Seq(Pending) /\ Len(frontier') = Len(frontier) - 1
          /\ \A j \in 1..(Len(frontier) - 1) :
               frontier'[j] = IF j < Next_index THEN frontier[j] ELSE frontier[j + 1]
      BY <1>1, <1>2, <2>1, RemovedAt
    <2>3. DOMAIN frontier' = 1..(Len(frontier) - 1)
      BY <2>2
    <2>4. ASSUME NEW j \in 1..(Len(frontier) - 1) PROVE frontier'[j].depth <= DepthLimit
      <3>1. j \in DOMAIN frontier /\ j + 1 \in DOMAIN frontier
        BY <2>1
      <3> QED  BY <2>2, <3>1 DEF Steady, Place
    <2> QED  BY <2>2, <2>3, <2>4
  <1>4. visited' \subseteq Pairs
    BY <1>1, <1>2 DEF Steady, TypeOK, PairOf, Pairs, Pending
  <1>5. Counted'
    BY <1>1 DEF Steady, Counted
  <1>6. CASE Execute
    <2>1. /\ Target # NoPage /\ page' = Target /\ fired' = Append(fired, Fires)
          /\ app' \in Apps /\ next_bundle' = Target /\ last_action' = Item
          /\ depth' = Item.depth /\ skipped' = skipped
      BY <1>6, AfterLoads DEF Execute
    <2>2. fired' \in Seq(Firing)
      BY <1>2, <2>1 DEF Steady, TypeOK
    <2>3. TypeOK'
      BY <1>1, <1>2, <1>3, <1>4, <2>1, <2>2 DEF Steady, TypeOK
    <2>4. Place'
      BY <1>1, <1>2, <1>3, <2>1 DEF Steady, Place
    <2> QED  BY <1>5, <2>3, <2>4 DEF Steady
  <1>7. CASE SkipFailed
    <2>1. app' \in Apps /\ page' \in Pages /\ fired' \in Seq(Firing)
      BY <1>1, <1>7, FailedType DEF SkipFailed
    <2>2. /\ next_bundle' = bundle /\ UNCHANGED <<last_action, depth>>
          /\ skipped' = Append(skipped, PairOf(Item))
      BY <1>7 DEF SkipFailed
    <2>3. skipped' \in Seq(Pairs)
      <3>1. PairOf(Item) \in Pairs
        BY <1>2 DEF PairOf, Pairs, Pending
      <3> QED  BY <2>2, <3>1 DEF Steady, TypeOK
    <2>4. TypeOK'
      BY <1>1, <1>2, <1>3, <1>4, <2>1, <2>2, <2>3 DEF Steady, TypeOK
    <2>5. Place'
      BY <1>1, <1>2, <1>3, <2>1, <2>2 DEF Steady, Place
    <2> QED  BY <1>5, <2>4, <2>5 DEF Steady
  <1> QED  BY <1>6, <1>7

\* An exception keeps what the state held, and may leave more in the store.
LEMMA RaiseSteady ==
    ASSUME Steady, OpenRaises \/ ScanRaises \/ ReasonRaises \/ ActRaises \/ ClaimRaises
    PROVE  Steady'
  <1>1. pc' = "raised" /\ UNCHANGED <<PocState, max_iterations>>
    BY DEF OpenRaises, ScanRaises, ReasonRaises, ActRaises, ClaimRaises, Raise
  <1>2. Place' /\ Counted'
    <2>1. bundle # NoPage => page' \in Pages
      <3>1. CASE OpenRaises
        BY <3>1 DEF OpenRaises
      <3>2. CASE ScanRaises
        BY <3>2, ExplorationAssumption DEF ScanRaises, Steady, Place
      <3>3. CASE ReasonRaises \/ ClaimRaises
        BY <3>3 DEF ReasonRaises, ClaimRaises, browser, Steady, Place
      <3>4. CASE ActRaises
        BY <3>4, FailedType DEF ActRaises, ActStep
      <3> QED  BY <3>1, <3>2, <3>3, <3>4
    <2> QED  BY <1>1, <2>1 DEF Steady, Place, Counted, PocState
  <1>3. TypeOK'
    <2>1. CASE OpenRaises
      BY <1>1, <2>1, ExplorationAssumption DEF OpenRaises, Steady, TypeOK, PocState, store
    <2>2. CASE ScanRaises
      <3>1. /\ edges' \in Seq(Edge)
            /\ nodes' \in [DOMAIN nodes' -> Nat] /\ DOMAIN nodes' \subseteq Pages
            /\ \A s \in DOMAIN nodes' \ DOMAIN OldNodes : nodes'[s] <= DepthLimit
        BY <2>2, ScanType DEF ScanRaises, Steady, TypeOK
      <3> QED  BY <1>1, <2>2, <3>1, ExplorationAssumption
               DEF ScanRaises, Steady, TypeOK, PocState
    <2>3. CASE ReasonRaises \/ ClaimRaises
      BY <1>1, <2>3 DEF ReasonRaises, ClaimRaises, Steady, TypeOK, PocState, browser, store
    <2>4. CASE ActRaises
      <3>1. app' \in Apps /\ page' \in Pages /\ fired' \in Seq(Firing)
        BY <2>4, FailedType DEF ActRaises, ActStep
      <3>2. visited' \subseteq Pairs
        <4>1. ActStep /\ visited \subseteq Pairs
          BY <2>4 DEF ActRaises, Steady, TypeOK
        <4>2. visited' = visited \cup {PairOf(Item)} /\ Item \in Pending
          BY <4>1, ActFinds DEF ActStep
        <4>3. PairOf(Item) \in Pairs
          BY <4>2 DEF PairOf, Pairs, Pending
        <4> QED  BY <4>1, <4>2, <4>3
      <3> QED  BY <1>1, <2>4, <3>1, <3>2 DEF ActRaises, ActStep, Steady, TypeOK, PocState
    <2> QED  BY <2>1, <2>2, <2>3, <2>4
  <1> QED  BY <1>2, <1>3 DEF Steady

LEMMA ObserveSteady ==
    ASSUME Steady, Observe
    PROVE  Steady'
  BY DEF Observe, Steady, TypeOK, Place, Counted, browser, store

LEMMA StepSteady ==
    ASSUME Steady, [Next]_vars
    PROVE  Steady'
  <1>1. CASE UNCHANGED vars
    BY <1>1 DEF vars, browser, store, PocState, Steady, TypeOK, Place, Counted, Mine
  <1> QED  BY <1>1, ScanSteady, ReasonSteady, ActSteady, RaiseSteady, ObserveSteady
           DEF Next, Stopped

LEMMA AlwaysSteady == Spec => []Steady
  BY InitSteady, StepSteady, PTL DEF Spec

\* The state of the loop holds what PocState says, and no state is recorded, nor
\* any entry taken, beyond depth_limit.
THEOREM TypeCorrect == Spec => []TypeOK
  BY AlwaysSteady, PTL DEF Steady

-----------------------------------------------------------------------------
(* The edges.                                                              *)

\* What scan writes is the firing that was owing.
LEMMA ScanOwing ==
    ASSUME Steady, Position, Owing, Scan \/ (ScanRaises /\ edges' = edges \o Edges)
    PROVE  /\ Len(fired) <= Len(edges') + 1 /\ Len(fired) = Len(edges')
           /\ \A i \in DOMAIN edges' :
                /\ i \in DOMAIN fired
                /\ [from |-> edges'[i].from, action |-> edges'[i].action, to |-> edges'[i].to]
                     = fired[i]
  <1>1. /\ pc = "scan" /\ Scanned # NoPage /\ edges' = edges \o Edges
        /\ edges \in Seq(Edge) /\ fired \in Seq(Firing)
        /\ Len(edges) \in Nat /\ DOMAIN edges = 1..Len(edges)
        /\ Len(fired) \in Nat /\ DOMAIN fired = 1..Len(fired)
    BY DEF Scan, ScanRaises, Steady, TypeOK
  <1>2. \A i \in 1..Len(edges) :
          /\ i \in DOMAIN fired
          /\ [from |-> edges[i].from, action |-> edges[i].action, to |-> edges[i].to]
               = fired[i]
    BY <1>1 DEF Owing
  <1>3. CASE last_action = NoAction
    <2>1. edges' = edges /\ Len(fired) = Len(edges)
      BY <1>1, <1>3 DEF Edges, Owing
    <2> QED  BY <1>1, <1>2, <2>1
  <1>4. CASE last_action # NoAction
    <2> DEFINE e == [from |-> last_action.from, to |-> Scanned,
                     action |-> last_action.action,
                     back |-> \E i \in DOMAIN trail : trail[i] = Scanned]
               n == Len(edges)
    <2>1. Edges = <<e>> /\ e \in Edge
      <3>1. Edges = <<e>> /\ Edges \in Seq(Edge)
        BY <1>1, <1>4, ScanType DEF Edges
      <3> HIDE DEF e
      <3> QED  BY <3>1
    <2>2. Scanned = bundle
      BY <1>1, <1>4, CrawlerAssumption DEF Steady, Place, Scanned
    <2>3. /\ Len(fired) = n + 1
          /\ fired[n + 1] = [from |-> e.from, action |-> e.action, to |-> e.to]
      BY <1>1, <1>4, <2>2 DEF Owing
    <2> HIDE DEF e, n
    <2>4. /\ Len(edges') = n + 1 /\ DOMAIN edges' = 1..(n + 1)
          /\ edges'[n + 1] = e /\ \A i \in 1..n : edges'[i] = edges[i]
      BY <1>1, <2>1 DEF n
    <2>5. ASSUME NEW i \in 1..(n + 1)
          PROVE  /\ i \in DOMAIN fired
                 /\ [from |-> edges'[i].from, action |-> edges'[i].action, to |-> edges'[i].to]
                      = fired[i]
      <3>1. CASE i = n + 1
        <4>1. i \in DOMAIN fired
          BY <1>1, <2>3
        <4>2. edges'[i] = e
          BY <2>4, <3>1
        <4>3. fired[i] = [from |-> e.from, action |-> e.action, to |-> e.to]
          BY <2>3, <3>1
        <4> QED  BY <4>1, <4>2, <4>3
      <3>2. CASE i \in 1..n
        BY <1>2, <2>4, <3>2 DEF n
      <3>3. i = n + 1 \/ i \in 1..n
        BY <1>1 DEF n
      <3> QED  BY <3>1, <3>2, <3>3
    <2> QED  BY <1>1, <2>3, <2>4, <2>5 DEF n
  <1> QED  BY <1>3, <1>4

LEMMA OwingStep ==
    ASSUME "late" \notin Flaky, Steady, Position, Owing, [Next]_vars
    PROVE  Position' /\ Owing'
  <1>0. /\ edges \in Seq(Edge) /\ fired \in Seq(Firing)
        /\ Len(edges) \in Nat /\ Len(fired) \in Nat
    BY DEF Steady, TypeOK
  <1>1. CASE Scan
    <2>1. Position'
      <3>1. CASE bundle = NoPage
        BY <1>1, <3>1 DEF Scan, Scanned, Open, Position
      <3>2. CASE bundle # NoPage
        BY <1>1, <3>2 DEF Scan, Scanned, Position
      <3> QED  BY <3>1, <3>2
    <2>2. pc' = "reason" /\ last_action' = NoAction /\ fired' = fired
      BY <1>1 DEF Scan
    <2>3. Owing'
      BY <1>0, <1>1, <2>2, ScanOwing DEF Owing
    <2> QED  BY <2>1, <2>3
  <1>2. CASE Reason
    BY <1>2 DEF Reason, NextNode, browser, Steady, Place, Position, Owing
  <1>3. CASE Execute
    <2>1. /\ pc = "act" /\ pc' = "observe" /\ page' = Target /\ next_bundle' = Target
          /\ fired' = Append(fired, Fires) /\ last_action' = Item
          /\ UNCHANGED <<edges, bundle>>
      BY <1>3 DEF Execute, ActStep, ActReturns
    <2>2. /\ Fires \in Firing /\ Item \in Pending /\ page = bundle /\ Item.from = bundle
          /\ Len(fired) = Len(edges) /\ Item # NoAction
      <3>1. Fires \in Firing /\ Item \in Pending /\ Item.from = bundle /\ bundle \in Pages
        BY <1>3, <2>1, ActFinds DEF Execute
      <3>2. Item # NoAction
        BY <3>1, CrawlerAssumption DEF NoAction
      <3> QED  BY <2>1, <3>1, <3>2 DEF Position, Owing, Steady, Place
    <2>3. /\ Len(fired') = Len(fired) + 1 /\ fired'[Len(fired) + 1] = Fires
          /\ \A i \in DOMAIN fired : i \in DOMAIN fired' /\ fired'[i] = fired[i]
      <3> DEFINE x == Fires
      <3>1. x \in Firing /\ fired' = Append(fired, x)
        BY <2>1, <2>2
      <3> HIDE DEF x
      <3>2. /\ Len(fired') = Len(fired) + 1 /\ fired'[Len(fired) + 1] = x
            /\ DOMAIN fired' = 1..(Len(fired) + 1) /\ DOMAIN fired = 1..Len(fired)
            /\ \A i \in 1..Len(fired) : fired'[i] = fired[i]
        BY <1>0, <3>1
      <3> QED  BY <1>0, <3>2 DEF x
    <2>4. Fires = [from |-> Item.from, action |-> Item.action, to |-> Target]
      BY <2>2 DEF Fires
    <2>5. Position'
      BY <2>1 DEF Position
    <2>6. Owing'
      BY <1>0, <2>1, <2>2, <2>3, <2>4 DEF Owing
    <2> QED  BY <2>5, <2>6
  <1>4. CASE SkipFailed
    <2>1. UNCHANGED <<app, page, fired>>
      BY <1>4, FailedType DEF SkipFailed, ActStep
    <2>2. /\ pc = "act" /\ pc' = "observe" /\ next_bundle' = bundle
          /\ UNCHANGED <<edges, last_action>> /\ last_action = NoAction
      BY <1>4 DEF SkipFailed, ActStep, ActReturns, Steady, Place
    <2> QED  BY <2>1, <2>2 DEF Position, Owing
  <1>5. CASE Observe
    <2>1. /\ pc = "observe" /\ pc' = "scan" /\ bundle' = next_bundle
          /\ UNCHANGED <<page, fired, edges, last_action>>
      BY <1>5 DEF Observe, browser, store
    <2> QED  BY <2>1 DEF Position, Owing
  <1>6. CASE OpenRaises \/ ScanRaises \/ ReasonRaises \/ ActRaises \/ ClaimRaises
    <2>1. pc' = "raised" /\ Position'
      BY <1>6 DEF OpenRaises, ScanRaises, ReasonRaises, ActRaises, ClaimRaises, Raise, Position
    <2>2. fired' = fired
      BY <1>6, FailedType
         DEF OpenRaises, ScanRaises, ReasonRaises, ActRaises, ClaimRaises, ActStep, browser
    <2>3. edges' = edges \/ (ScanRaises /\ edges' = edges \o Edges)
      BY <1>6 DEF OpenRaises, ScanRaises, ReasonRaises, ActRaises, ClaimRaises, ActStep, store
    <2>4. Owing'
      <3>1. CASE edges' = edges
        BY <2>1, <2>2, <3>1 DEF Owing
      <3>2. CASE ScanRaises /\ edges' = edges \o Edges
        BY <2>1, <2>2, <3>2, ScanOwing DEF Owing
      <3> QED  BY <2>3, <3>1, <3>2
    <2> QED  BY <2>1, <2>4
  <1>7. CASE UNCHANGED vars
    BY <1>7 DEF vars, browser, store, PocState, Position, Owing
  <1> QED  BY <1>1, <1>2, <1>3, <1>4, <1>5, <1>6, <1>7 DEF Next, Stopped

\* The edges are what the browser did, in order, although they are written a
\* node later and a skip writes none.  A call that raises after it moved the
\* browser would make them lie, so none may.
THEOREM EdgesTell ==
    ASSUME "late" \notin Flaky
    PROVE  Spec => []EdgesAreFirings
  <1>1. Init => Position /\ Owing
    <2>1. Len(<<>>) = 0 /\ DOMAIN <<>> = {}
      OBVIOUS
    <2> QED  BY <2>1 DEF Init, Position, Owing
  <1>2. Steady /\ Position /\ Owing /\ [Next]_vars => Position' /\ Owing'
    BY OwingStep
  <1>3. Steady /\ Owing => EdgesAreFirings
    BY DEF Steady, Place, Owing, EdgesAreFirings
  <1> QED  BY AlwaysSteady, <1>1, <1>2, <1>3, PTL DEF Spec

-----------------------------------------------------------------------------
(* The account of the controls.                                            *)

\* Where nothing is enqueued or taken the account stays.
LEMMA SpendingRests ==
    ASSUME Steady, Spending, UNCHANGED <<app, frontier, iterations>>, visited \subseteq visited',
           "late" \notin Flaky => fired' = fired,
           pc' \in {"scan", "observe"} => pc \in {"scan", "observe"}
    PROVE  Spending'
  <1>1. PICK own \in [DOMAIN frontier -> Controls], spent \in SUBSET Controls :
          /\ Owned(own, spent)
          /\ "late" \notin Flaky => \E by \in [DOMAIN fired -> spent] : Performed(by, spent)
    BY DEF Spending
  <1>2. Controls' = Controls /\ \A c : ActionOf(c)' = ActionOf(c)
    BY DEF Controls, ActionOf
  <1>3. iterations' <= Cardinality(spent) + (IF pc' \in {"scan", "observe"} THEN 0 ELSE 1)
    <2>1. Cardinality(spent) \in Nat /\ iterations \in Nat
      BY <1>1, FS_CardinalityType DEF Owned, Steady, TypeOK
    <2> QED  BY <1>1, <2>1 DEF Owned
  <1>4. Owned(own, spent)'
    <2>1. \A c \in spent : <<c[1], ActionOf(c)'>> \in visited'
      BY <1>1, <1>2 DEF Owned
    <2>2. /\ \A j, k \in DOMAIN frontier' : own[j] = own[k] => j = k
          /\ \A j \in DOMAIN frontier' :
               /\ own[j] \notin spent
               /\ PairOf(frontier'[j]) = <<own[j][1], ActionOf(own[j])'>>
      BY <1>1, <1>2 DEF Owned
    <2>3. IsFiniteSet(spent)
      BY <1>1 DEF Owned
    <2> QED  BY <1>3, <2>1, <2>2, <2>3 DEF Owned
  <1>5. "late" \notin Flaky => \E by \in [DOMAIN fired' -> spent] : Performed(by, spent)'
    <2> SUFFICES ASSUME "late" \notin Flaky
                 PROVE  \E by \in [DOMAIN fired' -> spent] : Performed(by, spent)'
      OBVIOUS
    <2>1. PICK by \in [DOMAIN fired -> spent] : Performed(by, spent)
      BY <1>1
    <2>2. Performed(by, spent)'
      BY <1>2, <2>1 DEF Performed
    <2> QED  BY <2>1, <2>2
  <1>6. own \in [DOMAIN frontier' -> Controls'] /\ spent \in SUBSET Controls'
    BY <1>2
  <1> HIDE DEF Owned, Performed, Controls
  <1> QED  BY <1>4, <1>5, <1>6 DEF Spending

\* scan gives each new entry a control that neither waits nor was spent: its
\* pair is fresh.
LEMMA ScanSpending ==
    ASSUME Steady, Spending, Scan
    PROVE  Spending'
  <1> DEFINE sid == Scanned
             n == Len(frontier)
  <1>0. /\ pc = "scan" /\ pc' = "reason" /\ iterations' = iterations + 1
        /\ UNCHANGED <<app, fired, visited>> /\ iterations \in Nat
        /\ sid \in Pages /\ app \in Apps /\ depth \in Nat
        /\ frontier \in Seq(Pending) /\ n \in Nat /\ DOMAIN frontier = 1..n
    BY ScanType DEF Scan, Steady, TypeOK
  <1>1. PICK own \in [DOMAIN frontier -> Controls], spent \in SUBSET Controls :
          /\ Owned(own, spent)
          /\ "late" \notin Flaky => \E by \in [DOMAIN fired -> spent] : Performed(by, spent)
    BY DEF Spending
  <1>2. Controls' = Controls /\ \A c : ActionOf(c)' = ActionOf(c)
    BY <1>0 DEF Controls, ActionOf
  <1>3. "late" \notin Flaky => \E by \in [DOMAIN fired' -> spent] : Performed(by, spent)'
    <2> SUFFICES ASSUME "late" \notin Flaky
                 PROVE  \E by \in [DOMAIN fired' -> spent] : Performed(by, spent)'
      OBVIOUS
    <2>1. PICK by \in [DOMAIN fired -> spent] : Performed(by, spent)
      BY <1>1
    <2>2. Performed(by, spent)'
      BY <1>0, <1>2, <2>1 DEF Performed
    <2> QED  BY <1>0, <2>1, <2>2
  <1>4. iterations' <= Cardinality(spent) + 1
    <2>1. Cardinality(spent) \in Nat /\ iterations <= Cardinality(spent) + 0
      BY <1>0, <1>1, FS_CardinalityType DEF Owned
    <2> QED  BY <1>0, <2>1
  <1>5. \E new \in [DOMAIN frontier' -> Controls] :
          /\ \A i, j \in DOMAIN frontier' : new[i] = new[j] => i = j
          /\ \A i \in DOMAIN frontier' :
               /\ new[i] \notin spent
               /\ PairOf(frontier'[i]) = <<new[i][1], ActionOf(new[i])>>
    <2>1. CASE frontier' = frontier
      BY <1>1, <2>1 DEF Owned
    <2>2. CASE frontier' = Enqueued(sid)
      <3>1. PICK m \in Nat : \E at \in [1..m -> 1..Len(Enumerate(app, sid))] :
                             Enlarged(sid, m, at)
        <4> HIDE DEF sid
        <4> QED  BY <1>0, EnqueuedIs
      <3>2. PICK at \in [1..m -> 1..Len(Enumerate(app, sid))] : Enlarged(sid, m, at)
        BY <3>1
      <3> HIDE DEF sid
      <3>3. /\ Len(frontier') = n + m /\ frontier' \in Seq(Pending)
            /\ DOMAIN frontier' = 1..(n + m)
            /\ \A i \in 1..n : frontier'[i] = frontier[i]
            /\ \A k, l \in 1..m : at[k] = at[l] => k = l
        BY <2>2, <3>2 DEF Enlarged
      <3>4. ASSUME NEW k \in 1..m
            PROVE  /\ <<sid, at[k]>> \in Controls
                   /\ PairOf(frontier'[n + k]) = <<sid, ActionOf(<<sid, at[k]>>)>>
                   /\ Fresh(sid, ActionOf(<<sid, at[k]>>))
        <4> DEFINE e == Enqueued(sid)[n + k]
                   ids == Enumerate(app, sid)
        <4>1. e.from = sid /\ e.action = ids[at[k]] /\ Fresh(sid, e.action)
          BY <3>2 DEF Enlarged
        <4>2. at[k] \in 1..Len(ids)
          OBVIOUS
        <4>3. sid \in DOMAIN app
          <5>1. CASE sid \notin DOMAIN app
            <6>1. ids = <<>> /\ Len(<<>>) = 0
              BY <5>1 DEF Enumerate
            <6> QED  BY <4>2, <6>1
          <5> QED  BY <5>1
        <4>4. /\ app[sid] \in Seq(Link) /\ Len(ids) = Len(app[sid])
              /\ ids = [i \in 1..Len(app[sid]) |-> app[sid][i].action]
          BY <4>3, AppLoads, EnumerateControls
        <4> HIDE DEF ids, e
        <4>5. at[k] \in DOMAIN app[sid] /\ ids[at[k]] = app[sid][at[k]].action
          BY <4>2, <4>4
        <4>6. ActionOf(<<sid, at[k]>>) = e.action
          BY <4>1, <4>5 DEF ActionOf
        <4>7. frontier'[n + k] = e
          BY <2>2 DEF e
        <4>8. <<sid, at[k]>> \in Controls
          BY <4>3, <4>5 DEF Controls
        <4> QED  BY <4>1, <4>6, <4>7, <4>8 DEF PairOf
      <3>5. ASSUME NEW k \in 1..m, NEW c \in Controls, c = <<sid, at[k]>>
            PROVE  c \notin spent /\ \A i \in 1..n : own[i] # c
        <4>1. <<c[1], ActionOf(c)>> \notin PairsOf(frontier) \cup visited
          BY <3>4, <3>5 DEF Fresh
        <4>2. c \notin spent
          BY <1>1, <4>1 DEF Owned
        <4>3. \A i \in 1..n : own[i] # c
          BY <1>0, <1>1, <4>1 DEF Owned, PairsOf
        <4> QED  BY <4>2, <4>3
      <3> DEFINE new == [i \in 1..(n + m) |-> IF i \in 1..n THEN own[i] ELSE <<sid, at[i - n]>>]
      <3>6. \A i \in 1..(n + m) : i \in 1..n \/ (i - n \in 1..m /\ n + (i - n) = i /\ i \notin 1..n)
        BY <1>0
      <3>7. /\ \A i \in 1..n : new[i] = own[i] /\ i \in 1..(n + m)
            /\ \A i \in 1..(n + m) : i \notin 1..n => new[i] = <<sid, at[i - n]>>
        BY <1>0
      <3>8. new \in [1..(n + m) -> Controls]
        <4>1. \A i \in 1..(n + m) : (IF i \in 1..n THEN own[i] ELSE <<sid, at[i - n]>>) \in Controls
          BY <1>0, <3>4, <3>6
        <4> QED  BY <4>1
      <3> HIDE DEF new, n
      <3>9. ASSUME NEW i \in 1..(n + m), NEW j \in 1..(n + m), new[i] = new[j]
            PROVE  i = j
        <4>1. CASE i \in 1..n /\ j \in 1..n
          BY <1>0, <1>1, <3>7, <3>9, <4>1 DEF Owned
        <4>2. CASE i \in 1..n /\ j \notin 1..n
          <5>1. /\ j - n \in 1..m /\ new[j] = <<sid, at[j - n]>> /\ new[j] \in Controls
                /\ new[i] = own[i]
            BY <3>6, <3>7, <3>8, <4>2
          <5>2. own[i] # new[j]
            BY <3>5, <4>2, <5>1
          <5> QED  BY <3>9, <5>1, <5>2
        <4>3. CASE i \notin 1..n /\ j \in 1..n
          <5>1. /\ i - n \in 1..m /\ new[i] = <<sid, at[i - n]>> /\ new[i] \in Controls
                /\ new[j] = own[j]
            BY <3>6, <3>7, <3>8, <4>3
          <5>2. own[j] # new[i]
            BY <3>5, <4>3, <5>1
          <5> QED  BY <3>9, <5>1, <5>2
        <4>4. CASE i \notin 1..n /\ j \notin 1..n
          <5>1. /\ i - n \in 1..m /\ j - n \in 1..m
                /\ n + (i - n) = i /\ n + (j - n) = j
                /\ <<sid, at[i - n]>> = <<sid, at[j - n]>>
            BY <3>6, <3>7, <3>9, <4>4
          <5>2. at[i - n] = at[j - n]
            BY <5>1
          <5>3. i - n = j - n
            BY <3>3, <5>1, <5>2
          <5> QED  BY <5>1, <5>3
        <4> QED  BY <4>1, <4>2, <4>3, <4>4
      <3>10. ASSUME NEW i \in 1..(n + m)
             PROVE  /\ new[i] \notin spent
                    /\ PairOf(frontier'[i]) = <<new[i][1], ActionOf(new[i])>>
        <4>1. CASE i \in 1..n
          BY <1>0, <1>1, <3>3, <3>7, <4>1 DEF Owned
        <4>2. CASE i \notin 1..n
          <5>1. /\ i - n \in 1..m /\ n + (i - n) = i
                /\ new[i] = <<sid, at[i - n]>> /\ new[i] \in Controls /\ new[i][1] = sid
            BY <3>6, <3>7, <3>8, <4>2
          <5> QED  BY <3>4, <3>5, <5>1
        <4> QED  BY <4>1, <4>2
      <3> QED  BY <3>3, <3>8, <3>9, <3>10
    <2> QED  BY <2>1, <2>2 DEF Scan
  <1>6. PICK new \in [DOMAIN frontier' -> Controls] :
          /\ \A i, j \in DOMAIN frontier' : new[i] = new[j] => i = j
          /\ \A i \in DOMAIN frontier' :
               /\ new[i] \notin spent
               /\ PairOf(frontier'[i]) = <<new[i][1], ActionOf(new[i])>>
    BY <1>5
  <1>7. Owned(new, spent)'
    <2>1. IsFiniteSet(spent) /\ \A c \in spent : <<c[1], ActionOf(c)>> \in visited
      BY <1>1 DEF Owned
    <2>2. iterations' <= Cardinality(spent) + (IF pc' \in {"scan", "observe"} THEN 0 ELSE 1)
      BY <1>0, <1>4
    <2> HIDE DEF ActionOf
    <2> QED  BY <1>0, <1>2, <1>6, <2>1, <2>2 DEF Owned
  <1>8. new \in [DOMAIN frontier' -> Controls'] /\ spent \in SUBSET Controls'
    BY <1>2
  <1> HIDE DEF Owned, Performed, Controls
  <1> QED  BY <1>3, <1>7, <1>8 DEF Spending

\* act spends the control of the entry it takes.
LEMMA ActSpending ==
    ASSUME ~Mutable, Steady, "late" \notin Flaky => Position, Spending,
           Execute \/ SkipFailed
    PROVE  Spending'
  <1> DEFINE n == Len(frontier)
             k == Next_index
             kept(j) == IF j < k THEN j ELSE j + 1
  <1>0. /\ pc = "act" /\ pc' = "observe" /\ iterations' = iterations /\ app' = app
        /\ visited' = visited \cup {PairOf(Item)} /\ frontier' = RemoveAt(frontier, k)
        /\ frontier \in Seq(Pending) /\ n \in Nat /\ DOMAIN frontier = 1..n
        /\ k \in 1..n /\ Item = frontier[k] /\ iterations \in Nat
    <2>1. pc = "act"
      BY DEF Execute, SkipFailed, ActStep
    <2>2. k \in 1..n /\ Item = frontier[k]
      BY <2>1, ActFinds DEF Item
    <2>3. app' = app
      BY DEF Execute, SkipFailed, Failed, After
    <2> QED  BY <2>1, <2>2, <2>3
             DEF Execute, SkipFailed, ActStep, ActReturns, Steady, TypeOK
  <1>1. PICK own \in [DOMAIN frontier -> Controls], spent \in SUBSET Controls :
          /\ Owned(own, spent)
          /\ "late" \notin Flaky => \E by \in [DOMAIN fired -> spent] : Performed(by, spent)
    BY DEF Spending
  <1>2. Controls' = Controls /\ \A c : ActionOf(c)' = ActionOf(c)
    BY <1>0 DEF Controls, ActionOf
  <1>3. /\ DOMAIN frontier' = 1..(n - 1)
        /\ \A j \in 1..(n - 1) : frontier'[j] = frontier[kept(j)]
    <2>1. /\ RemoveAt(frontier, k) \in Seq(Pending) /\ Len(RemoveAt(frontier, k)) = n - 1
          /\ \A j \in 1..(n - 1) :
               RemoveAt(frontier, k)[j] = IF j < k THEN frontier[j] ELSE frontier[j + 1]
      BY <1>0, RemovedAt
    <2> HIDE DEF k
    <2> QED  BY <1>0, <2>1
  <1> HIDE DEF k
  <1>4. /\ \A j \in 1..(n - 1) : kept(j) \in 1..n /\ kept(j) # k
        /\ \A i, j \in 1..(n - 1) : kept(i) = kept(j) => i = j
    BY <1>0
  <1> HIDE DEF kept
  <1> DEFINE c == own[k]
             new == [j \in 1..(n - 1) |-> own[kept(j)]]
             spent2 == spent \cup {c}
  <1>5. /\ c \in Controls /\ c \notin spent /\ PairOf(Item) = <<c[1], ActionOf(c)>>
        /\ \A j \in 1..n : j # k => own[j] # c
    BY <1>0, <1>1 DEF Owned
  <1>6. /\ new \in [1..(n - 1) -> Controls]
        /\ \A j \in 1..(n - 1) : new[j] = own[kept(j)]
    BY <1>0, <1>4
  <1> HIDE DEF new, c, n
  <1>7. \A i, j \in 1..(n - 1) : new[i] = new[j] => i = j
    BY <1>0, <1>1, <1>4, <1>6 DEF Owned
  <1>8. ASSUME NEW j \in 1..(n - 1)
        PROVE  new[j] \notin spent2 /\ PairOf(frontier'[j]) = <<new[j][1], ActionOf(new[j])>>
    BY <1>0, <1>1, <1>3, <1>4, <1>5, <1>6 DEF Owned
  <1>9. \A x \in spent2 : <<x[1], ActionOf(x)>> \in visited'
    BY <1>0, <1>1, <1>5 DEF Owned
  <1>10. IsFiniteSet(spent2) /\ iterations' <= Cardinality(spent2) + 0
    <2>1. IsFiniteSet(spent) /\ iterations <= Cardinality(spent) + 1
      BY <1>0, <1>1 DEF Owned
    <2>2. IsFiniteSet(spent2) /\ Cardinality(spent2) = Cardinality(spent) + 1
      BY <1>5, <2>1, FS_AddElement
    <2>3. Cardinality(spent) \in Nat
      BY <2>1, FS_CardinalityType
    <2> QED  BY <1>0, <2>1, <2>2, <2>3
  <1>11. PICK left \in [1..(n - 1) -> Controls], used \in SUBSET Controls, taken \in Controls :
           /\ left = new /\ used = spent2 /\ taken = c
    <2> HIDE DEF spent2
    <2>1. spent2 \in SUBSET Controls
      BY <1>5 DEF spent2
    <2> QED  BY <1>5, <1>6, <2>1
  <1>12. /\ taken \notin spent /\ PairOf(Item) = <<taken[1], ActionOf(taken)>>
         /\ used = spent \cup {taken}
         /\ \A x, y \in 1..(n - 1) : left[x] = left[y] => x = y
         /\ \A j \in 1..(n - 1) :
              /\ left[j] \notin used
              /\ PairOf(frontier'[j]) = <<left[j][1], ActionOf(left[j])>>
         /\ \A x \in used : <<x[1], ActionOf(x)>> \in visited'
         /\ IsFiniteSet(used) /\ iterations' <= Cardinality(used) + 0
    <2>1. used = spent \cup {taken}
      BY <1>11
    <2> HIDE DEF spent2
    <2> QED  BY <1>5, <1>7, <1>8, <1>9, <1>10, <1>11, <2>1
  <1>13. DOMAIN frontier' = 1..(n - 1) /\ left \in [DOMAIN frontier' -> Controls']
    BY <1>2, <1>3, <1>11
  <1>14. Owned(left, used)'
    <2> HIDE DEF ActionOf, spent2
    <2> QED  BY <1>0, <1>2, <1>12, <1>13 DEF Owned
  <1>15. "late" \notin Flaky => \E by \in [DOMAIN fired' -> used] : Performed(by, used)'
    <2> SUFFICES ASSUME "late" \notin Flaky
                 PROVE  \E by \in [DOMAIN fired' -> used] : Performed(by, used)'
      OBVIOUS
    <2>1. PICK by \in [DOMAIN fired -> spent] : Performed(by, spent)
      BY <1>1
    <2>2. CASE fired' = fired
      <3>1. by \in [DOMAIN fired' -> used]
        BY <1>12, <2>2
      <3>2. Performed(by, used)'
        BY <1>2, <2>1, <2>2 DEF Performed
      <3> QED  BY <3>1, <3>2
    <2>3. CASE fired' = Append(fired, Fires) /\ Fires \in Firing
      <3> DEFINE m == Len(fired)
                 more == [i \in 1..(m + 1) |-> IF i \in 1..m THEN by[i] ELSE taken]
      <3>1. fired \in Seq(Firing) /\ m \in Nat /\ DOMAIN fired = 1..m
        BY DEF Steady, TypeOK
      <3>2. /\ DOMAIN fired' = 1..(m + 1) /\ fired'[m + 1] = Fires
            /\ \A i \in 1..m : fired'[i] = fired[i]
        <4> DEFINE x == Fires
        <4>1. x \in Firing /\ fired' = Append(fired, x)
          BY <2>3
        <4> HIDE DEF x
        <4> QED  BY <3>1, <4>1 DEF x
      <3>3. /\ more \in [1..(m + 1) -> used] /\ more[m + 1] = taken
            /\ \A i \in 1..m : more[i] = by[i] /\ by[i] \in spent
        <4> HIDE DEF spent2
        <4>1. \A i \in 1..m : by[i] \in spent
          BY <2>1, <3>1
        <4>2. spent \subseteq used /\ taken \in used
          BY <1>12
        <4>3. m \in Nat
          BY <3>1
        <4> HIDE DEF m
        <4>4. more \in [1..(m + 1) -> used]
          BY <4>1, <4>2
        <4>5. more[m + 1] = taken
          BY <4>3
        <4>6. \A i \in 1..m : more[i] = by[i]
          BY <4>3
        <4> QED  BY <4>1, <4>4, <4>5, <4>6
      <3>4. Fires.from = taken[1] /\ Fires.action = ActionOf(taken)
        <4>1. Item.from = page
          BY <1>0, ActFinds DEF Position
        <4>2. PairOf(Item)[1] = taken[1] /\ PairOf(Item)[2] = ActionOf(taken)
          BY <1>12
        <4> QED  BY <4>1, <4>2 DEF PairOf, Fires
      <3>5. PICK by2 \in [1..(m + 1) -> used] : by2 = more
        BY <3>3
      <3> HIDE DEF more
      <3>6. by2[m + 1] = taken /\ \A i \in 1..m : by2[i] = by[i] /\ by[i] \in spent
        BY <3>3, <3>5
      <3>7. \A i \in 1..(m + 1) : i \in 1..m \/ i = m + 1
        BY <3>1
      <3> HIDE DEF m
      <3>8. \A i, j \in 1..(m + 1) : by2[i] = by2[j] => i = j
        BY <1>12, <2>1, <3>1, <3>6, <3>7 DEF Performed
      <3>9. \A i \in 1..(m + 1) :
              fired'[i].from = by2[i][1] /\ fired'[i].action = ActionOf(by2[i])
        BY <2>1, <3>1, <3>2, <3>4, <3>6, <3>7 DEF Performed
      <3>10. Performed(by2, used)'
        <4> HIDE DEF ActionOf
        <4> QED  BY <1>2, <3>2, <3>8, <3>9 DEF Performed
      <3> QED  BY <3>2, <3>10
    <2>4. fired' = fired \/ (fired' = Append(fired, Fires) /\ Fires \in Firing)
      BY <1>0, ActFinds, FailedType DEF Execute, SkipFailed
    <2> QED  BY <2>2, <2>3, <2>4
  <1>16. used \in SUBSET Controls'
    BY <1>2
  <1> HIDE DEF Owned, Performed, Controls, spent2
  <1> QED  BY <1>13, <1>14, <1>15, <1>16 DEF Spending

LEMMA SpendingStep ==
    ASSUME ~Mutable, Steady, "late" \notin Flaky => Position, Spending, [Next]_vars
    PROVE  Spending'
  <1>1. CASE Scan
    BY <1>1, ScanSpending
  <1>2. CASE Execute \/ SkipFailed
    BY <1>2, ActSpending
  <1>3. CASE Reason
    BY <1>3, SpendingRests DEF Reason, NextNode, browser
  <1>4. CASE Observe
    BY <1>4, SpendingRests DEF Observe, browser, store
  <1>5. CASE OpenRaises \/ ScanRaises \/ ReasonRaises \/ ActRaises \/ ClaimRaises
    <2>1. /\ pc' = "raised" /\ UNCHANGED <<frontier, iterations>> /\ visited \subseteq visited'
      BY <1>5 DEF OpenRaises, ScanRaises, ReasonRaises, ActRaises, ClaimRaises, Raise,
                  PocState, store, ActStep
    <2>2. app' = app
      BY <1>5 DEF OpenRaises, ScanRaises, ReasonRaises, ActRaises, ClaimRaises, Failed, After,
                  browser
    <2>3. "late" \notin Flaky => fired' = fired
      BY <1>5, FailedType
         DEF OpenRaises, ScanRaises, ReasonRaises, ActRaises, ClaimRaises, ActStep, browser
    <2> QED  BY <2>1, <2>2, <2>3, SpendingRests
  <1>6. CASE UNCHANGED vars
    BY <1>6, SpendingRests DEF vars, browser, store, PocState
  <1> QED  BY <1>1, <1>2, <1>3, <1>4, <1>5, <1>6 DEF Next, Stopped

LEMMA InitSpending == Init => Spending
  <1> SUFFICES ASSUME Init PROVE Spending
    OBVIOUS
  <1> DEFINE none == [i \in {} |-> 0]
  <1>1. frontier = <<>> /\ fired = <<>> /\ iterations = 0 /\ pc = "scan"
    BY DEF Init
  <1>2. DOMAIN <<>> = {}
    OBVIOUS
  <1>3. none \in [DOMAIN frontier -> Controls] /\ none \in [DOMAIN fired -> {}]
    BY <1>1, <1>2
  <1>4. IsFiniteSet({}) /\ Cardinality({}) = 0
    BY FS_EmptySet
  <1>5. Owned(none, {})
    BY <1>1, <1>2, <1>4 DEF Owned
  <1>6. Performed(none, {})
    BY <1>1, <1>2 DEF Performed
  <1>7. {} \in SUBSET Controls
    OBVIOUS
  <1> HIDE DEF none, Controls, Owned, Performed
  <1> QED  BY <1>3, <1>5, <1>6, <1>7 DEF Spending

\* The controls spent are no more than there are.
LEMMA ControlsFinite ==
    ASSUME Steady, IsFiniteSet(DOMAIN app)
    PROVE  IsFiniteSet(Controls)
  <1> DEFINE Of(p) == {p} \X DOMAIN app[p]
             all == {Of(p) : p \in DOMAIN app}
  <1>1. ASSUME NEW p \in DOMAIN app PROVE IsFiniteSet(Of(p))
    <2>1. app[p] \in Seq(Link)
      BY AppLoads DEF IsApp
    <2>2. DOMAIN app[p] = 1..Len(app[p]) /\ Len(app[p]) \in Nat
      BY <2>1
    <2>3. IsFiniteSet(DOMAIN app[p])
      BY <2>2, FS_Interval
    <2>4. IsFiniteSet({p})
      BY FS_Singleton
    <2> QED  BY <2>3, <2>4, FS_Product
  <1> HIDE DEF Of
  <1>2. IsFiniteSet(all)
    <2> DEFINE f == [p \in DOMAIN app |-> Of(p)]
    <2>1. f \in Surjection(DOMAIN app, all)
      BY DEF Surjection
    <2> HIDE DEF f, all
    <2> QED  BY <2>1, FS_Surjection
  <1>3. \A T \in all : IsFiniteSet(T)
    BY <1>1
  <1> HIDE DEF all
  <1>4. IsFiniteSet(UNION all)
    BY <1>2, <1>3, FS_UNION
  <1> QED  BY <1>4 DEF all, Of, Controls

\* The browser performs an action of a page at most as often as the page shows
\* controls with its id.
THEOREM ActsAreBounded ==
    ASSUME ~Mutable, "late" \notin Flaky
    PROVE  Spec => []ActsBounded
  <1>1. Init => Position /\ Owing /\ Spending
    <2>1. Len(<<>>) = 0 /\ DOMAIN <<>> = {}
      OBVIOUS
    <2> QED  BY <2>1, InitSpending DEF Init, Position, Owing
  <1>2. Steady /\ Position /\ Owing /\ Spending /\ [Next]_vars
          => Position' /\ Owing' /\ Spending'
    BY OwingStep, SpendingStep
  <1>3. Steady /\ Spending => ActsBounded
    <2> SUFFICES ASSUME Steady, Spending, NEW p \in DOMAIN app, NEW x \in Actions
                 PROVE  Cardinality({i \in DOMAIN fired :
                                       fired[i].from = p /\ fired[i].action = x})
                          <= Cardinality({i \in DOMAIN app[p] : app[p][i].action = x})
      BY DEF ActsBounded
    <2> DEFINE did == {i \in DOMAIN fired : fired[i].from = p /\ fired[i].action = x}
               shown == {i \in DOMAIN app[p] : app[p][i].action = x}
    <2>0. PICK spent \in SUBSET Controls :
            \E by \in [DOMAIN fired -> spent] : Performed(by, spent)
      BY DEF Spending
    <2>1. PICK by \in [DOMAIN fired -> spent] : Performed(by, spent)
      BY <2>0
    <2> DEFINE f == [i \in did |-> by[i][2]]
    <2>2. ASSUME NEW i \in did
          PROVE  by[i] \in Controls /\ by[i][1] = p /\ ActionOf(by[i]) = x
                 /\ by[i][2] \in shown /\ by[i] = <<p, by[i][2]>>
      <3>1. by[i] \in Controls /\ by[i][1] = p /\ ActionOf(by[i]) = x
        BY <2>1 DEF Performed
      <3>2. by[i][2] \in DOMAIN app[p] /\ by[i] = <<p, by[i][2]>>
        BY <3>1 DEF Controls
      <3> QED  BY <3>1, <3>2 DEF ActionOf
    <2>3. f \in Injection(did, shown)
      <3>1. f \in [did -> shown]
        BY <2>2
      <3>2. \A i, j \in did : f[i] = f[j] => i = j
        BY <2>1, <2>2 DEF Performed
      <3> QED  BY <3>1, <3>2 DEF Injection, IsInjective
    <2>4. IsFiniteSet(shown)
      <3>1. app[p] \in Seq(Link)
        BY AppLoads DEF IsApp
      <3>2. DOMAIN app[p] = 1..Len(app[p]) /\ Len(app[p]) \in Nat
        BY <3>1
      <3>3. IsFiniteSet(DOMAIN app[p])
        BY <3>2, FS_Interval
      <3> QED  BY <3>3, FS_Subset
    <2> HIDE DEF did, shown, f
    <2>5. Cardinality(did) <= Cardinality(shown)
      BY <2>3, <2>4, FS_Injection
    <2> QED  BY <2>5 DEF did, shown
  <1> QED  BY AlwaysSteady, <1>1, <1>2, <1>3, PTL DEF Spec

\* "max_iterations=3 yields exactly three scanned states": a run that ended did
\* so at the limit or had nothing to do where it stood, and no run scans more
\* often than once and once for each control.  The version served must not
\* change in mid-run, nor have infinitely many pages.
THEOREM RunsOut ==
    ASSUME ~Mutable, \A v \in Apps : IsFiniteSet(DOMAIN v)
    PROVE  Spec => []IterationsExact
  <1> DEFINE Lawful == "late" \notin Flaky => Position /\ Owing
  <1>1. Init => Spending /\ Lawful
    <2>1. Len(<<>>) = 0 /\ DOMAIN <<>> = {}
      OBVIOUS
    <2> QED  BY <2>1, InitSpending DEF Init, Position, Owing
  <1>2. Steady /\ Spending /\ Lawful /\ [Next]_vars => Spending' /\ Lawful'
    BY OwingStep, SpendingStep
  <1>3. Steady /\ Spending => IterationsExact
    <2> SUFFICES ASSUME Steady, Spending PROVE IterationsExact
      OBVIOUS
    <2>1. PICK own \in [DOMAIN frontier -> Controls], spent \in SUBSET Controls :
            Owned(own, spent)
      BY DEF Spending
    <2>2. IsFiniteSet(Controls)
      BY AppLoads, ControlsFinite
    <2>3. Cardinality(spent) <= Cardinality(Controls)
      BY <2>2, FS_Subset
    <2>4. /\ iterations \in Nat /\ Cardinality(spent) \in Nat /\ Cardinality(Controls) \in Nat
          /\ iterations <= Cardinality(spent) + 1
      <3>1. iterations \in Nat /\ IsFiniteSet(spent)
        BY <2>1 DEF Owned, Steady, TypeOK
      <3>2. Cardinality(spent) \in Nat /\ Cardinality(Controls) \in Nat
        BY <2>2, <3>1, FS_CardinalityType
      <3> QED  BY <2>1, <3>1, <3>2 DEF Owned
    <2>5. iterations <= 1 + Cardinality(Controls)
      BY <2>3, <2>4
    <2> QED  BY <2>5 DEF Steady, Counted, IterationsExact
  <1> HIDE DEF Lawful
  <1> QED  BY AlwaysSteady, <1>1, <1>2, <1>3, PTL DEF Spec
=============================================================================
