-------------------------- MODULE PerceptionProofs --------------------------
(***************************************************************************)
(* From the capture to the verdict, for every capture and policy.          *)
(***************************************************************************)
EXTENDS Perception, FiniteSetTheorems, RecursionProofs

-----------------------------------------------------------------------------
(* The leftover DOM elements.                                              *)

\* Counting a set of indices in order reaches every index once.
LEMMA Ranking ==
    ASSUME NEW n \in Nat, NEW S \in SUBSET (1..n)
    PROVE  /\ Cardinality(S) \in Nat
           /\ \E rank \in Surjection(S, 1..Cardinality(S)) :
                /\ \A i \in S : rank[i] = Cardinality({j \in S : j <= i})
                /\ \A i, k \in S : rank[i] = rank[k] => i = k
  <1>1. IsFiniteSet(S) /\ Cardinality(S) \in Nat
    <2>1. IsFiniteSet(1..n)
      BY FS_Interval
    <2>2. IsFiniteSet(S)
      BY <2>1, FS_Subset
    <2> QED  BY <2>2, FS_CardinalityType
  <1> DEFINE upTo(i) == {j \in S : j <= i}
             rank == [i \in S |-> Cardinality(upTo(i))]
  <1>2. \A i \in S : /\ IsFiniteSet(upTo(i)) /\ Cardinality(upTo(i)) \in Nat
                     /\ Cardinality(upTo(i)) <= Cardinality(S)
    <2> TAKE i \in S
    <2>1. upTo(i) \in SUBSET S
      OBVIOUS
    <2> HIDE DEF upTo
    <2>2. IsFiniteSet(upTo(i)) /\ Cardinality(upTo(i)) <= Cardinality(S)
      BY <1>1, <2>1, FS_Subset
    <2> QED  BY <2>2, FS_CardinalityType
  <1>3. \A i \in S : rank[i] \in 1..Cardinality(S)
    <2> TAKE i \in S
    <2>1. i \in upTo(i)
      OBVIOUS
    <2>2. Cardinality(upTo(i)) # 0
      BY <1>2, <2>1, FS_EmptySet
    <2> HIDE DEF upTo
    <2> QED  BY <1>1, <1>2, <2>2
  <1>4. ASSUME NEW i \in S, NEW k \in S, rank[i] = rank[k], i < k
        PROVE  FALSE
    <2>1. ASSUME NEW j \in upTo(i)  PROVE j \in upTo(k)
      <3>1. j \in S /\ j <= i
        OBVIOUS
      <3>2. i \in Nat /\ k \in Nat /\ j \in Nat
        BY <3>1
      <3> QED  BY <1>4, <3>1, <3>2
    <2>2. upTo(i) \in SUBSET upTo(k)
      BY <2>1
    <2>3. k \in upTo(k) /\ k \notin upTo(i)
      BY <1>4
    <2> HIDE DEF upTo
    <2>4. Cardinality(upTo(i)) = Cardinality(upTo(k))
      BY <1>4
    <2> QED  BY <1>2, <2>2, <2>3, <2>4, FS_Subset
  <1>5. \A i, k \in S : rank[i] = rank[k] => i = k
    <2> SUFFICES ASSUME NEW i \in S, NEW k \in S, rank[i] = rank[k]  PROVE i = k
      OBVIOUS
    <2> HIDE DEF rank
    <2> QED  BY <1>4
  <1>6. rank \in Injection(S, 1..Cardinality(S))
    <2>1. rank \in [S -> 1..Cardinality(S)]
      BY <1>3
    <2> HIDE DEF rank
    <2> QED  BY <1>5, <2>1 DEF Injection, IsInjective
  <1>7. IsFiniteSet(1..Cardinality(S)) /\ Cardinality(1..Cardinality(S)) = Cardinality(S)
    BY <1>1, FS_Interval
  <1>8. rank \in Surjection(S, 1..Cardinality(S))
    <2> HIDE DEF rank
    <2> QED  BY <1>6, <1>7, <1>1, FS_Injection
  <1>9. \A i \in S : rank[i] = Cardinality({j \in S : j <= i})
    OBVIOUS
  <1> HIDE DEF rank
  <1> QED  BY <1>1, <1>5, <1>8, <1>9

LEMMA IsSeq ==
    ASSUME NEW T, NEW n \in Nat, NEW f \in [1..n -> T]
    PROVE  f \in Seq(T) /\ Len(f) = n /\ DOMAIN f = 1..n
  OBVIOUS

\* dom_only gives each unused element an entry, and nothing else.
LEMMA DomOnlyComplete ==
    ASSUME capture \in Captures, unused \subseteq DOMAIN dom
    PROVE  /\ DomOnly \in Seq([ax : {0}, dom : unused, match : {"dom_only"}])
           /\ \A i \in unused : \E k \in DOMAIN DomOnly : DomOnly[k].dom = i
           /\ \A k, l \in DOMAIN DomOnly : DomOnly[k].dom = DomOnly[l].dom => k = l
  <1>1. Len(dom) \in Nat /\ unused \in SUBSET (1..Len(dom))
    BY PerceptionAssumption DEF dom, IsCapture
  <1> DEFINE n == Cardinality(unused)
             pick(k) == CHOOSE i \in unused : Cardinality({j \in unused : j <= i}) = k
             T == [ax : {0}, dom : unused, match : {"dom_only"}]
  <1>2. n \in Nat
    BY <1>1, Ranking
  <1>3. PICK rank \in Surjection(unused, 1..n) :
          /\ \A i \in unused : rank[i] = Cardinality({j \in unused : j <= i})
          /\ \A i, k \in unused : rank[i] = rank[k] => i = k
    BY <1>1, Ranking
  <1>4. /\ \A i \in unused : rank[i] \in 1..n
        /\ \A k \in 1..n : \E i \in unused : rank[i] = k
    BY <1>3 DEF Surjection
  <1>5. \A k \in 1..n : pick(k) \in unused /\ rank[pick(k)] = k
    <2> TAKE k \in 1..n
    <2>1. \E i \in unused : Cardinality({j \in unused : j <= i}) = k
      BY <1>3, <1>4
    <2>2. pick(k) \in unused /\ Cardinality({j \in unused : j <= pick(k)}) = k
      BY <2>1
    <2> HIDE DEF pick
    <2> QED  BY <1>3, <2>2
  <1>6. DomOnly = [k \in 1..n |-> [ax |-> 0, dom |-> pick(k), match |-> "dom_only"]]
    BY DEF DomOnly
  <1> HIDE DEF pick, n
  <1>7. DomOnly \in [1..n -> T]
    BY <1>5, <1>6
  <1>8. DomOnly \in Seq(T) /\ DOMAIN DomOnly = 1..n
    <2> HIDE DEF T
    <2> QED  BY <1>2, <1>7, IsSeq
  <1>9. ASSUME NEW i \in unused
        PROVE  \E k \in DOMAIN DomOnly : DomOnly[k].dom = i
    <2>1. rank[i] \in 1..n /\ pick(rank[i]) = i
      BY <1>3, <1>4, <1>5
    <2> QED  BY <1>6, <1>8, <2>1
  <1>10. \A k, l \in DOMAIN DomOnly : DomOnly[k].dom = DomOnly[l].dom => k = l
    <2>1. \A k \in 1..n : DomOnly[k].dom = pick(k)
      BY <1>6
    <2> QED  BY <1>5, <1>8, <2>1
  <1> QED  BY <1>8, <1>9, <1>10

-----------------------------------------------------------------------------
(* Types, and what a step does to the list of entries.                     *)

LEMMA CaptureTyped ==
    ASSUME capture \in Captures
    PROVE  /\ dom \in Seq(Element) /\ Len(dom) \in Nat /\ DOMAIN dom = 1..Len(dom)
           /\ ax \in Seq(Node) /\ Len(ax) \in Nat /\ DOMAIN ax = 1..Len(ax)
           /\ \A i \in DOMAIN dom : dom[i] \in Element
           /\ \A j \in DOMAIN ax : ax[j] \in Node
  <1>1. IsCapture(capture)
    BY PerceptionAssumption
  <1>2. dom \in Seq(Element) /\ ax \in Seq(Node)
    BY <1>1 DEF IsCapture, dom, ax
  <1> QED  BY <1>2

LEMMA EntriesAppended ==
    ASSUME NEW T, NEW s \in Seq(T), NEW e \in T
    PROVE  EntriesOf(Append(s, e)) = EntriesOf(s) \cup {e}
  <1> DEFINE u == Append(s, e)
  <1>1. /\ Len(s) \in Nat /\ DOMAIN s = 1..Len(s) /\ DOMAIN u = 1..(Len(s) + 1)
        /\ u[Len(s) + 1] = e /\ \A k \in 1..Len(s) : u[k] = s[k]
    OBVIOUS
  <1> HIDE DEF u
  <1>2. \A k \in DOMAIN u : k \in DOMAIN s \/ k = Len(s) + 1
    BY <1>1
  <1>3. \A k \in DOMAIN s : k \in DOMAIN u
    BY <1>1
  <1>4. Len(s) + 1 \in DOMAIN u
    BY <1>1
  <1>5. EntriesOf(u) = EntriesOf(s) \cup {e}
    BY <1>1, <1>2, <1>3, <1>4 DEF EntriesOf
  <1> QED  BY <1>5 DEF u

LEMMA EntriesJoined ==
    ASSUME NEW T, NEW s \in Seq(T), NEW t \in Seq(T)
    PROVE  EntriesOf(s \o t) = EntriesOf(s) \cup EntriesOf(t)
  <1>1. ASSUME NEW e \in EntriesOf(s \o t)  PROVE e \in EntriesOf(s) \cup EntriesOf(t)
    <2>1. PICK k \in 1..(Len(s) + Len(t)) : e = (s \o t)[k]
      BY <1>1 DEF EntriesOf
    <2>2. CASE k <= Len(s)
      BY <2>1, <2>2 DEF EntriesOf
    <2>3. CASE k > Len(s)
      <3>1. k - Len(s) \in 1..Len(t) /\ e = t[k - Len(s)]
        BY <2>1, <2>3
      <3> QED  BY <3>1 DEF EntriesOf
    <2> QED  BY <2>2, <2>3
  <1>2. ASSUME NEW k \in 1..Len(s)  PROVE s[k] \in EntriesOf(s \o t)
    <2>1. k \in 1..Len(s \o t) /\ (s \o t)[k] = s[k]
      OBVIOUS
    <2> QED  BY <2>1 DEF EntriesOf
  <1>3. ASSUME NEW k \in 1..Len(t)  PROVE t[k] \in EntriesOf(s \o t)
    <2>1. Len(s) + k \in 1..Len(s \o t) /\ (s \o t)[Len(s) + k] = t[k]
      OBVIOUS
    <2> QED  BY <2>1 DEF EntriesOf
  <1>4. EntriesOf(s) \subseteq EntriesOf(s \o t)
    <2>1. ASSUME NEW e \in EntriesOf(s)  PROVE e \in EntriesOf(s \o t)
      <3>1. PICK k \in 1..Len(s) : e = s[k]
        BY DEF EntriesOf
      <3> QED  BY <3>1, <1>2
    <2> QED  BY <2>1
  <1>5. EntriesOf(t) \subseteq EntriesOf(s \o t)
    <2>1. ASSUME NEW e \in EntriesOf(t)  PROVE e \in EntriesOf(s \o t)
      <3>1. PICK k \in 1..Len(t) : e = t[k]
        BY DEF EntriesOf
      <3> QED  BY <3>1, <1>3
    <2> QED  BY <2>1
  <1> QED  BY <1>1, <1>4, <1>5

\* What either kind of match does: one element of the node's name, which no
\* unused element resembles in role and name, leaves unused_dom for an entry.
MatchOf(i, match) ==
    /\ Visit(match, i)
    /\ i \in unused /\ unused' = unused \ {i}
    /\ match \in {"role_name", "name"}
    /\ dom[i].name = ax[at].name /\ dom[i].name # NoName
    /\ \A j \in unused : dom[j].role = dom[i].role /\ dom[j].name = dom[i].name => j = i

LEMMA MatchesAreSole ==
    ASSUME MatchRoleName \/ MatchName
    PROVE  \E i \in DOMAIN dom, match \in {"role_name", "name"} : MatchOf(i, match)
  <1>1. CASE MatchRoleName
    <2>1. PICK i \in DOMAIN dom : /\ Visit("role_name", i) /\ unused' = unused \ {i}
                                  /\ Strong(ax[at]) = {i}
      BY <1>1 DEF MatchRoleName, Sole
    <2>2. MatchOf(i, "role_name")
      BY <2>1 DEF MatchOf, Strong, SameName, SameRole
    <2> QED  BY <2>2
  <1>2. CASE MatchName
    <2>1. PICK i \in DOMAIN dom : /\ Visit("name", i) /\ unused' = unused \ {i}
                                  /\ Named(ax[at]) = {i}
      BY <1>2 DEF MatchName, Sole
    <2>2. MatchOf(i, "name")
      BY <2>1 DEF MatchOf, Named, SameName
    <2> QED  BY <2>2
  <1> QED  BY <1>1, <1>2

\* The entry a visit appends.
EntryOf(i, match) == [ax |-> at, dom |-> i, match |-> match]

LEMMA VisitTypes ==
    ASSUME TypeOK, NEW i \in 0..Len(dom),
           NEW match \in {"role_name", "name", "unmatched"}, Visit(match, i)
    PROVE  /\ correlated' \in Seq(Entry)
           /\ EntriesOf(correlated') = EntriesOf(correlated) \cup {EntryOf(i, match)}
           /\ at' \in 1..(Len(ax) + 1) /\ at \in 1..Len(ax)
  <1>1. at \in 1..Len(ax) /\ at' = at + 1 /\ Len(ax) \in Nat
    BY CaptureTyped DEF TypeOK, Visit
  <1>2. EntryOf(i, match) \in Entry
    BY <1>1 DEF Entry, EntryOf
  <1>3. correlated' = Append(correlated, EntryOf(i, match))
    BY DEF Visit, EntryOf
  <1>4. correlated \in Seq(Entry)
    BY DEF TypeOK
  <1>5. EntriesOf(correlated') = EntriesOf(correlated) \cup {EntryOf(i, match)}
    BY <1>2, <1>3, <1>4, EntriesAppended
  <1> QED  BY <1>1, <1>2, <1>3, <1>4, <1>5

LEMMA KeepTypes ==
    ASSUME TypeOK, KeepDomOnly
    PROVE  /\ correlated' \in Seq(Entry)
           /\ EntriesOf(correlated') = EntriesOf(correlated) \cup EntriesOf(DomOnly)
           /\ \A c \in EntriesOf(DomOnly) : c.ax = 0 /\ c.dom \in unused
           /\ \A i \in unused : \E c \in EntriesOf(DomOnly) : c.dom = i
           /\ at = Len(ax) + 1
  <1>1. capture \in Captures /\ unused \subseteq DOMAIN dom /\ correlated \in Seq(Entry)
    BY DEF TypeOK
  <1> DEFINE T == [ax : {0}, dom : unused, match : {"dom_only"}]
  <1>2. DomOnly \in Seq(T) /\ \A i \in unused : \E k \in DOMAIN DomOnly : DomOnly[k].dom = i
    BY <1>1, DomOnlyComplete
  <1>3. Len(ax) \in Nat /\ DOMAIN ax = 1..Len(ax) /\ DOMAIN dom = 1..Len(dom) /\ Len(dom) \in Nat
    BY <1>1, CaptureTyped
  <1>4. T \subseteq Entry
    BY <1>1, <1>3 DEF Entry
  <1>5. DomOnly \in Seq(Entry)
    <2> HIDE DEF T
    <2> QED  BY <1>2, <1>4
  <1>6. correlated' = correlated \o DomOnly
    BY DEF KeepDomOnly
  <1>7. correlated' \in Seq(Entry)
    BY <1>1, <1>5, <1>6
  <1>8. EntriesOf(correlated') = EntriesOf(correlated) \cup EntriesOf(DomOnly)
    BY <1>1, <1>5, <1>6, EntriesJoined
  <1>9. \A c \in EntriesOf(DomOnly) : c \in T
    <2> HIDE DEF T
    <2> QED  BY <1>2 DEF EntriesOf
  <1>10. \A i \in unused : \E c \in EntriesOf(DomOnly) : c.dom = i
    BY <1>2 DEF EntriesOf
  <1>11. at = Len(ax) + 1
    BY <1>3 DEF TypeOK, KeepDomOnly
  <1> QED  BY <1>7, <1>8, <1>9, <1>10, <1>11

LEMMA NamesTyped ==
    ASSUME capture \in Captures, NEW c \in Entry
    PROVE  /\ NameOf(c) \in Names \cup {NoName}
           /\ Says(c) \subseteq Labels
  <1>1. NameOf(c) \in Names \cup {NoName}
    BY CaptureTyped DEF Entry, NameOf, Element, Node
  <1>2. c.dom # 0 => dom[c.dom].says \subseteq Labels
    BY CaptureTyped DEF Entry, Element
  <1>3. NameOf(c) # NoName => NameSays[NameOf(c)] \subseteq Labels
    BY <1>1, PerceptionAssumption
  <1>4. capture.seam[<<c.ax, c.dom>>] \subseteq Labels
    BY PerceptionAssumption DEF IsCapture, Entry, dom, ax
  <1> QED  BY <1>1, <1>2, <1>3, <1>4 DEF Says

LEMMA EntriesTyped ==
    ASSUME correlated \in Seq(Entry)
    PROVE  EntriesOf(correlated) \subseteq Entry
  BY DEF EntriesOf

\* TypeOK is inductive as it stands.
LEMMA TypesKept ==
    ASSUME TypeOK, [Next]_vars
    PROVE  TypeOK'
  <1> USE DEF TypeOK
  <1>1. CASE IgnoreNode
    <2>1. at' \in 1..(Len(ax) + 1)
      BY <1>1, CaptureTyped DEF IgnoreNode
    <2> QED  BY <1>1, <2>1 DEF IgnoreNode, dom, ax, Entry
  <1>2. CASE MatchRoleName \/ MatchName
    <2>1. PICK i \in DOMAIN dom, match \in {"role_name", "name"} : MatchOf(i, match)
      BY <1>2, MatchesAreSole
    <2>2. Visit(match, i) /\ i \in 0..Len(dom) /\ unused' = unused \ {i}
      BY <2>1, CaptureTyped DEF MatchOf
    <2>3. correlated' \in Seq(Entry) /\ at' \in 1..(Len(ax) + 1)
      BY <2>2, VisitTypes
    <2> QED  BY <2>2, <2>3 DEF Visit, dom, ax, Entry
  <1>3. CASE KeepUnmatched
    <2>1. Visit("unmatched", 0) /\ 0 \in 0..Len(dom) /\ unused' = unused
      BY <1>3, CaptureTyped DEF KeepUnmatched
    <2>2. correlated' \in Seq(Entry) /\ at' \in 1..(Len(ax) + 1)
      BY <2>1, VisitTypes
    <2> QED  BY <2>1, <2>2 DEF Visit, dom, ax, Entry
  <1>4. CASE KeepDomOnly
    <2>1. correlated' \in Seq(Entry)
      BY <1>4, KeepTypes
    <2>2. capabilities' \subseteq Subjects
      BY <1>4 DEF KeepDomOnly, CapabilitiesOf, Subjects, Labels
    <2> QED  BY <1>4, <2>1, <2>2 DEF KeepDomOnly, dom, ax, Entry
  <1>5. CASE AnalyzeDomOnly
    BY <1>5 DEF AnalyzeDomOnly, Analyzed, dom, ax, Entry
  <1>6. CASE AnalyzeModel
    <2>1. PICK answer \in Answers : Analyzed(Merge(answer))
      BY <1>6 DEF AnalyzeModel
    <2>2. Merge(answer) \subseteq Subjects
      BY PerceptionAssumption DEF Merge
    <2> QED  BY <2>1, <2>2 DEF Analyzed, dom, ax, Entry
  <1>7. CASE AnalyzeFails
    BY <1>7 DEF AnalyzeFails, dom, ax, Entry
  <1>8. CASE Audit
    BY <1>8 DEF Audit, dom, ax, Entry
  <1>9. CASE Stopped \/ UNCHANGED vars
    BY <1>9 DEF Stopped, vars, dom, ax, Entry
  <1> QED  BY <1>1, <1>2, <1>3, <1>4, <1>5, <1>6, <1>7, <1>8, <1>9 DEF Next

\* The pipeline's values are well typed for every capture, model and policy:
\* entries point into the capture, verdicts are clauses of the policy.
THEOREM TypeCorrect == Spec => []TypeOK
  <1>1. Init => TypeOK
    BY CaptureTyped DEF Init, TypeOK
  <1>2. TypeOK /\ [Next]_vars => TypeOK'
    BY TypesKept
  <1> QED  BY <1>1, <1>2, PTL DEF Spec

-----------------------------------------------------------------------------
(* The inductive invariant.                                                *)

\* Nothing the capture shows is passed over, bare structure apart.
Covered ==
    /\ \A i \in DOMAIN dom :
         i \in unused \/ \E c \in EntriesOf(correlated) : c.dom = i
    /\ \A j \in 1..(at - 1) :
         Ignored(ax[j]) \/ \E c \in EntriesOf(correlated) : c.ax = j

\* The two halves of an entry have one name.
Consistent ==
    \A c \in EntriesOf(correlated) : c.ax # 0 /\ c.dom # 0 => ax[c.ax].name = dom[c.dom].name

\* While correlate is at the tree, an entry without a node is still to come;
\* afterwards the tree has been seen to its end.
Phases ==
    /\ pc = "correlate" => \A c \in EntriesOf(correlated) : c.ax # 0
    /\ pc # "correlate" => at = Len(ax) + 1

Evidence == CapabilitiesOf(correlated)

\* What the evidence can do is among the capabilities, and without the model
\* nothing else is.
Grounded ==
    pc # "correlate" =>
      /\ Evidence \subseteq capabilities
      /\ pc = "analyze" \/ ~capture.screenshot => capabilities = Evidence

Verdict ==
    pc = "done" =>
      /\ forbidden_present = {c \in Forbidden : Applies(c) /\ Present(c.subject)}
      /\ required_absent = {c \in Required : Applies(c) /\ ~Present(c.subject)}

Correlation == Covered /\ Consistent /\ Phases /\ TwinsUnmatched

IInv == TypeOK /\ Correlation /\ Grounded /\ Verdict

LEMMA InitCorrelated ==
    ASSUME Init
    PROVE  Correlation
  <1>1. EntriesOf(correlated) = {}
    BY DEF Init, EntriesOf
  <1>2. Len(ax) \in Nat
    BY CaptureTyped DEF Init
  <1> QED  BY <1>1, <1>2 DEF Init, Correlation, Covered, Consistent, Phases, TwinsUnmatched

\* A step of correlate at a node of the tree.
LEMMA VisitCorrelated ==
    ASSUME TypeOK, Correlation, NEW i \in 0..Len(dom),
           NEW match \in {"role_name", "name", "unmatched"}, Visit(match, i),
           \/ i = 0 /\ unused' = unused
           \/ MatchOf(i, match)
    PROVE  Correlation'
  <1> DEFINE e == EntryOf(i, match)
  <1>1. /\ EntriesOf(correlated') = EntriesOf(correlated) \cup {e}
        /\ e.ax = at /\ e.dom = i
        /\ at \in 1..Len(ax) /\ at' = at + 1
    BY VisitTypes DEF Visit, EntryOf
  <1>2. dom' = dom /\ ax' = ax /\ pc = "correlate" /\ pc' = "correlate"
    BY DEF Visit, dom, ax
  <1>3. /\ Len(dom) \in Nat /\ DOMAIN dom = 1..Len(dom)
        /\ Len(ax) \in Nat
    BY CaptureTyped DEF TypeOK
  <1> HIDE DEF e
  <1>4. Covered'
    <2>1. \A k \in DOMAIN dom : k \in unused' \/ \E c \in EntriesOf(correlated') : c.dom = k
      <3> TAKE k \in DOMAIN dom
      <3>1. k \in unused \/ \E c \in EntriesOf(correlated) : c.dom = k
        BY DEF Correlation, Covered
      <3>2. CASE k = i
        BY <1>1, <3>2
      <3>3. CASE k # i
        BY <1>1, <3>1, <3>3 DEF MatchOf
      <3> QED  BY <3>2, <3>3
    <2>2. \A j \in 1..at : Ignored(ax[j]) \/ \E c \in EntriesOf(correlated') : c.ax = j
      <3> TAKE j \in 1..at
      <3>1. CASE j = at
        BY <1>1, <3>1
      <3>2. CASE j # at
        <4>1. j \in 1..(at - 1)
          BY <1>1, <3>2
        <4> QED  BY <1>1, <4>1 DEF Correlation, Covered
      <3> QED  BY <3>1, <3>2
    <2>3. at' - 1 = at
      BY <1>1
    <2> QED  BY <1>2, <2>1, <2>2, <2>3 DEF Covered
  <1>5. Consistent'
    <2>1. \A c \in EntriesOf(correlated) :
            c.ax # 0 /\ c.dom # 0 => ax[c.ax].name = dom[c.dom].name
      BY DEF Correlation, Consistent
    <2>2. e.ax # 0 /\ e.dom # 0 => ax[e.ax].name = dom[e.dom].name
      BY <1>1, <1>3 DEF MatchOf
    <2> QED  BY <1>1, <1>2, <2>1, <2>2 DEF Consistent
  <1>6. Phases'
    BY <1>1, <1>2 DEF Correlation, Phases
  <1>7. TwinsUnmatched'
    <2> SUFFICES ASSUME NEW j \in DOMAIN dom, NEW k \in DOMAIN dom, j # k,
                        dom[j].role = dom[k].role, dom[j].name = dom[k].name,
                        NEW c \in EntriesOf(correlated'), c.dom = j
                 PROVE  c.ax = 0
      BY <1>2 DEF TwinsUnmatched
    <2>1. CASE c \in EntriesOf(correlated)
      BY <2>1 DEF Correlation, TwinsUnmatched
    <2>2. CASE c = e
      <3>1. j = i /\ i # 0 /\ MatchOf(i, match)
        BY <1>1, <1>3, <2>2
      <3>2. k \in unused
        <4>1. ASSUME NEW d \in EntriesOf(correlated), d.dom = k  PROVE FALSE
          <5>1. d.ax = 0
            BY <4>1 DEF Correlation, TwinsUnmatched
          <5> QED  BY <1>2, <5>1 DEF Correlation, Phases
        <4> QED  BY <4>1 DEF Correlation, Covered
      <3> QED  BY <3>1, <3>2 DEF MatchOf
    <2> QED  BY <1>1, <2>1, <2>2
  <1> QED  BY <1>4, <1>5, <1>6, <1>7 DEF Correlation

\* The end of correlate.
LEMMA KeepCorrelated ==
    ASSUME TypeOK, Correlation, KeepDomOnly
    PROVE  Correlation' /\ capabilities' = Evidence'
  <1>1. /\ EntriesOf(correlated') = EntriesOf(correlated) \cup EntriesOf(DomOnly)
        /\ \A c \in EntriesOf(DomOnly) : c.ax = 0 /\ c.dom \in unused
        /\ \A i \in unused : \E c \in EntriesOf(DomOnly) : c.dom = i
        /\ at = Len(ax) + 1
    BY KeepTypes
  <1>2. dom' = dom /\ ax' = ax /\ at' = at /\ pc' # "correlate"
    BY DEF KeepDomOnly, dom, ax
  <1>3. Covered'
    BY <1>1, <1>2 DEF Correlation, Covered
  <1>4. Consistent'
    BY <1>1, <1>2 DEF Correlation, Consistent
  <1>5. Phases'
    BY <1>1, <1>2 DEF Phases
  <1>6. TwinsUnmatched'
    BY <1>1, <1>2 DEF Correlation, TwinsUnmatched
  <1>7. \A c : Says(c)' = Says(c)
    BY <1>2 DEF KeepDomOnly, Says, NameOf
  <1>8. capabilities' = CapabilitiesOf(correlated')
    BY DEF KeepDomOnly
  <1>9. capabilities' = Evidence'
    BY <1>7, <1>8 DEF Evidence, CapabilitiesOf
  <1> QED  BY <1>3, <1>4, <1>5, <1>6, <1>9 DEF Correlation

\* What depends on the capture and the entries alone stays with them.
LEMMA CorrelationStays ==
    ASSUME Correlation, UNCHANGED <<capture, at, unused, correlated>>,
           pc # "correlate" <=> pc' # "correlate"
    PROVE  Correlation' /\ Evidence' = Evidence
  <1>1. dom' = dom /\ ax' = ax
    BY DEF dom, ax
  <1>2. \A c : Says(c)' = Says(c)
    BY <1>1 DEF Says, NameOf
  <1>3. Evidence' = Evidence
    BY <1>2 DEF Evidence, CapabilitiesOf
  <1>4. Covered' /\ Consistent' /\ Phases' /\ TwinsUnmatched'
    BY <1>1 DEF Correlation, Covered, Consistent, Phases, TwinsUnmatched
  <1> QED  BY <1>3, <1>4 DEF Correlation

\* audit only reads, so Present means afterwards what it meant before.
LEMMA PresentStays ==
    ASSUME UNCHANGED <<capture, correlated, capabilities>>
    PROVE  \A subject : Present(subject)' = Present(subject)
  <1>1. dom' = dom /\ ax' = ax
    BY DEF dom, ax
  <1>2. \A c : Says(c)' = Says(c) /\ NameOf(c)' = NameOf(c)
    BY <1>1 DEF Says, NameOf
  <1>3. Elements' = Elements
    BY <1>2 DEF Elements
  <1> QED  BY <1>2, <1>3 DEF Present

LEMMA InvariantKept ==
    ASSUME IInv, [Next]_vars
    PROVE  IInv'
  <1>1. TypeOK'
    BY TypesKept DEF IInv
  <1> USE DEF IInv
  <1>2. CASE IgnoreNode
    <2>1. dom' = dom /\ ax' = ax /\ at \in Nat /\ at' = at + 1 /\ correlated' = correlated
      BY <1>2 DEF IgnoreNode, dom, ax, TypeOK
    <2>2. unused' = unused /\ pc = "correlate" /\ pc' = "correlate" /\ Ignored(ax[at])
      BY <1>2 DEF IgnoreNode
    <2>3. \A j \in 1..at : j = at \/ j \in 1..(at - 1)
      BY <2>1
    <2>4. Covered'
      BY <2>1, <2>2, <2>3 DEF Correlation, Covered
    <2>5. Consistent' /\ Phases' /\ TwinsUnmatched'
      BY <2>1, <2>2 DEF Correlation, Consistent, Phases, TwinsUnmatched
    <2> QED  BY <1>1, <2>2, <2>4, <2>5 DEF Correlation, Grounded, Verdict
  <1>3. CASE MatchRoleName \/ MatchName
    <2>1. PICK i \in DOMAIN dom, match \in {"role_name", "name"} : MatchOf(i, match)
      BY <1>3, MatchesAreSole
    <2>2. Visit(match, i) /\ i \in 0..Len(dom)
      BY <2>1, CaptureTyped DEF MatchOf, TypeOK
    <2>3. Correlation'
      BY <2>1, <2>2, VisitCorrelated
    <2> QED  BY <1>1, <2>2, <2>3 DEF Visit, Grounded, Verdict
  <1>4. CASE KeepUnmatched
    <2>1. Visit("unmatched", 0) /\ 0 \in 0..Len(dom) /\ unused' = unused
      BY <1>4, CaptureTyped DEF KeepUnmatched, TypeOK
    <2>2. Correlation'
      BY <2>1, VisitCorrelated
    <2> QED  BY <1>1, <2>1, <2>2 DEF Visit, Grounded, Verdict
  <1>5. CASE KeepDomOnly
    <2>1. Correlation' /\ capabilities' = Evidence' /\ pc' = "analyze"
      BY <1>5, KeepCorrelated DEF KeepDomOnly
    <2> QED  BY <1>1, <2>1 DEF Grounded, Verdict
  <1>6. CASE AnalyzeDomOnly
    <2>1. capabilities' = capabilities /\ pc = "analyze" /\ pc' = "audit"
      BY <1>6 DEF AnalyzeDomOnly, Analyzed
    <2>2. Correlation' /\ Evidence' = Evidence
      BY <1>6, <2>1, CorrelationStays DEF AnalyzeDomOnly, Analyzed
    <2> QED  BY <1>1, <2>1, <2>2 DEF Grounded, Verdict
  <1>7. CASE AnalyzeModel
    <2>1. PICK answer \in Answers : Analyzed(Merge(answer))
      BY <1>7 DEF AnalyzeModel
    <2>2. Correlation' /\ Evidence' = Evidence
      BY <2>1, CorrelationStays DEF Analyzed
    <2>3. Evidence \subseteq capabilities'
      BY <2>1 DEF Analyzed, Merge, Grounded
    <2>4. capture' = capture /\ capture.screenshot /\ pc' = "audit"
      BY <1>7, <2>1 DEF AnalyzeModel, Analyzed
    <2> QED  BY <1>1, <2>2, <2>3, <2>4 DEF Grounded, Verdict
  <1>8. CASE AnalyzeFails
    <2>1. Correlation' /\ Evidence' = Evidence
      BY <1>8, CorrelationStays DEF AnalyzeFails
    <2> QED  BY <1>1, <1>8, <2>1 DEF AnalyzeFails, Grounded, Verdict
  <1>9. CASE Audit
    <2>1. Correlation' /\ Evidence' = Evidence
      BY <1>9, CorrelationStays DEF Audit
    <2>2. \A subject : Present(subject)' = Present(subject)
      BY <1>9, PresentStays DEF Audit
    <2>3. Verdict'
      BY <1>9, <2>2 DEF Audit, Verdict
    <2>4. Grounded'
      BY <1>9, <2>1 DEF Audit, Grounded
    <2> QED  BY <1>1, <2>1, <2>3, <2>4
  <1>10. CASE Stopped \/ UNCHANGED vars
    <2>1. UNCHANGED vars
      BY <1>10 DEF Stopped
    <2>2. Correlation' /\ Evidence' = Evidence
      BY <2>1, CorrelationStays DEF vars
    <2>3. \A subject : Present(subject)' = Present(subject)
      BY <2>1, PresentStays DEF vars
    <2>4. Grounded' /\ Verdict'
      BY <2>1, <2>2, <2>3 DEF vars, Grounded, Verdict
    <2> QED  BY <1>1, <2>2, <2>4
  <1> QED  BY <1>2, <1>3, <1>4, <1>5, <1>6, <1>7, <1>8, <1>9, <1>10 DEF Next

LEMMA InvariantHolds == Spec => []IInv
  <1>1. Init => IInv
    <2> SUFFICES ASSUME Init PROVE IInv
      OBVIOUS
    <2>1. TypeOK
      BY CaptureTyped DEF Init, TypeOK
    <2>2. Grounded /\ Verdict
      BY DEF Init, Grounded, Verdict
    <2> QED  BY <2>1, <2>2, InitCorrelated DEF IInv
  <1>2. IInv /\ [Next]_vars => IInv'
    BY InvariantKept
  <1> QED  BY <1>1, <1>2, PTL DEF Spec

-----------------------------------------------------------------------------
(* What follows for the verdict.                                           *)

\* What the capture shows is found by audit, through whatever entries correlate
\* made of it.
LEMMA ShownIsPresent ==
    ASSUME IInv, pc # "correlate", NEW s \in Shown, s # NoName
    PROVE  Present(s)
  <1>1. /\ \A i \in DOMAIN dom : \E c \in EntriesOf(correlated) : c.dom = i
        /\ \A j \in DOMAIN ax : Ignored(ax[j]) \/ \E c \in EntriesOf(correlated) : c.ax = j
        /\ \A i \in DOMAIN dom : i # 0
        /\ \A j \in DOMAIN ax : j # 0
    <2>1. unused = {} /\ at - 1 = Len(ax) /\ DOMAIN ax = 1..Len(ax) /\ DOMAIN dom = 1..Len(dom)
      BY CaptureTyped DEF IInv, TypeOK, Correlation, Phases
    <2> QED  BY <2>1 DEF IInv, Correlation, Covered
  <1>2. ASSUME NEW c \in EntriesOf(correlated), c.dom # 0 \/ NameOf(c) # NoName, s \in Says(c)
        PROVE  Present(s)
    <2>1. s \in Labels
      BY <1>2, EntriesTyped, NamesTyped DEF IInv, TypeOK
    <2>2. CASE s \in Capabilities
      BY <1>2, <2>2 DEF IInv, Grounded, Evidence, CapabilitiesOf, Present
    <2>3. CASE s \in Tags
      BY <1>2, <2>3 DEF Elements, Present
    <2> QED  BY <2>1, <2>2, <2>3 DEF Labels
  <1>3. ASSUME NEW i \in DOMAIN dom, s \in dom[i].says  PROVE Present(s)
    <2>1. PICK c \in EntriesOf(correlated) : c.dom = i
      BY <1>1
    <2>2. c.dom # 0 /\ s \in Says(c)
      BY <1>1, <1>3, <2>1 DEF Says
    <2> QED  BY <1>2, <2>2
  <1>4. ASSUME NEW i \in DOMAIN dom, s = dom[i].name  PROVE Present(s)
    <2>1. PICK c \in EntriesOf(correlated) : c.dom = i
      BY <1>1
    <2>2. NameOf(c) = s
      BY <1>1, <1>4, <2>1 DEF IInv, Correlation, Consistent, NameOf
    <2> QED  BY <1>1, <2>1, <2>2 DEF Elements, Present
  <1>5. ASSUME NEW j \in DOMAIN ax, ax[j].name # NoName,
               s = ax[j].name \/ s \in NameSays[ax[j].name]
        PROVE  Present(s)
    <2>1. PICK c \in EntriesOf(correlated) : c.ax = j
      BY <1>1, <1>5 DEF Ignored
    <2>2. NameOf(c) = ax[j].name
      BY <1>1, <1>5, <2>1 DEF NameOf
    <2>3. CASE s = ax[j].name
      BY <1>5, <2>2, <2>3 DEF Elements, Present
    <2>4. CASE s \in NameSays[ax[j].name]
      <3>1. s \in Says(c) /\ NameOf(c) # NoName
        BY <1>5, <2>2, <2>4 DEF Says
      <3> QED  BY <1>2, <3>1
    <2> QED  BY <1>5, <2>3, <2>4
  <1> QED  BY <1>3, <1>4, <1>5 DEF Shown

\* The converse: an entry says nothing but what its halves show.
LEMMA EntryIsShown ==
    ASSUME TypeOK, Seamless, NEW c \in EntriesOf(correlated)
    PROVE  Says(c) \cup ({NameOf(c)} \ {NoName}) \subseteq Shown
  <1>1. c \in Entry
    BY EntriesTyped DEF TypeOK
  <1>2. /\ c.ax # 0 => c.ax \in DOMAIN ax
        /\ c.dom # 0 => c.dom \in DOMAIN dom
    BY <1>1, CaptureTyped DEF Entry, TypeOK
  <1>3. \A i \in DOMAIN dom : dom[i].name # NoName => NameSays[dom[i].name] \subseteq dom[i].says
    BY PerceptionAssumption DEF TypeOK, IsCapture, dom
  <1>4. c.dom # 0 => dom[c.dom].says \subseteq Shown /\ dom[c.dom].name \in Shown
    BY <1>2 DEF Shown
  <1>5. c.ax # 0 /\ ax[c.ax].name # NoName =>
          ax[c.ax].name \in Shown /\ NameSays[ax[c.ax].name] \subseteq Shown
    BY <1>2 DEF Shown
  <1>6. NameOf(c) # NoName => NameOf(c) \in Shown /\ NameSays[NameOf(c)] \subseteq Shown
    BY <1>2, <1>3, <1>4, <1>5 DEF NameOf
  <1>7. capture.seam[<<c.ax, c.dom>>] = {}
    BY <1>1 DEF Entry, Seamless
  <1> QED  BY <1>4, <1>6, <1>7 DEF Says

LEMMA PresentIsShown ==
    ASSUME IInv, pc = "done", ~capture.screenshot, Seamless, NEW s, Present(s), s # NoName
    PROVE  s \in Shown
  <1>1. capabilities = Evidence
    BY DEF IInv, Grounded
  <1>2. CASE s \in capabilities
    <2>1. PICK c \in EntriesOf(correlated) : s \in Says(c)
      BY <1>1, <1>2 DEF Evidence, CapabilitiesOf
    <2> QED  BY <2>1, EntryIsShown DEF IInv
  <1>3. ASSUME NEW c \in Elements, s = NameOf(c) \/ s \in Says(c)  PROVE s \in Shown
    BY <1>3, EntryIsShown DEF IInv, Elements
  <1> QED  BY <1>2, <1>3 DEF Present

LEMMA SubjectsNamed ==
    \A c \in Forbidden \cup Required : c.subject # NoName
  BY PerceptionAssumption DEF Clause

\* correlate never guesses between two elements of one role and name, however
\* the nodes before have thinned out the candidates.
THEOREM TwinsApart == Spec => []TwinsUnmatched
  <1>1. IInv => TwinsUnmatched
    BY DEF IInv, Correlation
  <1> QED  BY <1>1, InvariantHolds, PTL

\* Without the model, and without a keyword across a seam, the verdict is FR-18
\* and FR-19 over what the capture shows.
THEOREM VerdictWithoutModel == Spec => []SetAlgebra
  <1>1. ASSUME IInv  PROVE SetAlgebra
    <2> SUFFICES ASSUME pc = "done", ~capture.screenshot, Seamless
                 PROVE  forbidden_present = ForbiddenShown /\ required_absent = RequiredNotShown
      BY DEF SetAlgebra
    <2>1. \A c \in Forbidden \cup Required : Present(c.subject) <=> c.subject \in Shown
      BY <1>1, ShownIsPresent, PresentIsShown, SubjectsNamed
    <2> QED  BY <1>1, <2>1 DEF IInv, Verdict, ForbiddenShown, RequiredNotShown
  <1> QED  BY <1>1, InvariantHolds, PTL

\* With any model at all, what is shown and forbidden is reported, and nothing
\* shown is reported as absent.
THEOREM ForbiddenReported == Spec => []ForbiddenStands
  <1>1. ASSUME IInv  PROVE ForbiddenStands
    <2> SUFFICES ASSUME pc = "done"
                 PROVE  /\ ForbiddenShown \subseteq forbidden_present
                        /\ required_absent \subseteq RequiredNotShown
      BY DEF ForbiddenStands
    <2>1. \A c \in Forbidden \cup Required : c.subject \in Shown => Present(c.subject)
      BY <1>1, ShownIsPresent, SubjectsNamed
    <2> QED  BY <1>1, <2>1 DEF IInv, Verdict, ForbiddenShown, RequiredNotShown
  <1> QED  BY <1>1, InvariantHolds, PTL

-----------------------------------------------------------------------------
(* Every piece of evidence, once.                                          *)

\* No two entries share an element or a node, and what they hold has been
\* taken: an element from unused_dom, a node by the loop, which kept it.
Once ==
    /\ \A k, l \in DOMAIN correlated : k # l =>
         /\ correlated[k].dom = correlated[l].dom => correlated[k].dom = 0
         /\ correlated[k].ax = correlated[l].ax => correlated[k].ax = 0
    /\ \A k \in DOMAIN correlated :
         /\ correlated[k].dom \notin unused
         /\ correlated[k].ax # 0 => /\ correlated[k].ax < at
                                   /\ ~Ignored(ax[correlated[k].ax])

LEMMA VisitOnce ==
    ASSUME TypeOK, Once, NEW i \in 0..Len(dom),
           NEW match \in {"role_name", "name", "unmatched"}, Visit(match, i),
           \/ i = 0 /\ unused' = unused
           \/ MatchOf(i, match)
    PROVE  Once'
  <1> DEFINE n == Len(correlated)
             e == EntryOf(i, match)
             new == correlated'
  <1>1. /\ correlated \in Seq(Entry) /\ n \in Nat /\ DOMAIN correlated = 1..n
        /\ new = Append(correlated, e) /\ at \in Nat /\ at # 0 /\ at' = at + 1
        /\ ~Ignored(ax[at]) /\ ax' = ax /\ dom' = dom /\ unused \subseteq 1..Len(dom)
    BY CaptureTyped DEF TypeOK, Visit, EntryOf, ax, dom
  <1>2. e \in Entry /\ e.ax = at /\ e.dom = i
    BY VisitTypes DEF Entry, EntryOf
  <1>3. /\ DOMAIN new = 1..(n + 1) /\ new[n + 1] = e
        /\ \A k \in 1..n : new[k] = correlated[k]
    <2> HIDE DEF e
    <2> QED  BY <1>1, <1>2
  <1>4. \A k \in 1..n : correlated[k] \in Entry
    BY <1>1
  <1>5. \A k \in 1..n : correlated[k].ax \in Nat /\ correlated[k].dom \in Nat
    BY <1>4, CaptureTyped DEF TypeOK, Entry
  <1> HIDE DEF new, e, n
  <1>6. unused' \subseteq unused /\ i \notin unused' /\ (i # 0 => i \in unused)
    BY <1>1 DEF MatchOf
  <1>7. \A k \in 1..n : correlated[k].ax # at /\ (correlated[k].dom = i => i = 0)
    <2> TAKE k \in 1..n
    <2>1. correlated[k].dom \notin unused /\ (correlated[k].ax # 0 => correlated[k].ax < at)
      BY <1>1 DEF Once
    <2> QED  BY <1>1, <1>5, <1>6, <2>1
  <1>8. \A k \in 1..(n + 1) : k = n + 1 \/ k \in 1..n
    BY <1>1
  <1>9. ASSUME NEW k \in 1..(n + 1), NEW l \in 1..(n + 1), k # l
        PROVE  /\ new[k].dom = new[l].dom => new[k].dom = 0
               /\ new[k].ax = new[l].ax => new[k].ax = 0
    <2>1. CASE k \in 1..n /\ l \in 1..n
      BY <1>1, <1>3, <1>9, <2>1 DEF Once
    <2>2. CASE k = n + 1 \/ l = n + 1
      BY <1>2, <1>3, <1>7, <1>8, <1>9, <2>2
    <2> QED  BY <1>8, <2>1, <2>2
  <1>10. ASSUME NEW k \in 1..(n + 1)
         PROVE  /\ new[k].dom \notin unused'
                /\ new[k].ax # 0 => new[k].ax < at + 1 /\ ~Ignored(ax[new[k].ax])
    <2>1. CASE k = n + 1
      BY <1>1, <1>2, <1>3, <1>6, <2>1
    <2>2. CASE k \in 1..n
      <3>1. /\ correlated[k].dom \notin unused
            /\ correlated[k].ax # 0 => /\ correlated[k].ax < at
                                      /\ ~Ignored(ax[correlated[k].ax])
        BY <1>1, <2>2 DEF Once
      <3> QED  BY <1>1, <1>3, <1>5, <1>6, <2>2, <3>1
    <2> QED  BY <1>8, <2>1, <2>2
  <1> QED  BY <1>1, <1>3, <1>9, <1>10 DEF Once, new, Ignored

LEMMA KeepOnce ==
    ASSUME TypeOK, Once, KeepDomOnly
    PROVE  Once'
  <1> DEFINE n == Len(correlated)
             m == Len(DomOnly)
             new == correlated'
             T == [ax : {0}, dom : unused, match : {"dom_only"}]
  <1>1. /\ DomOnly \in Seq(T)
        /\ \A k, l \in DOMAIN DomOnly : DomOnly[k].dom = DomOnly[l].dom => k = l
    BY DomOnlyComplete DEF TypeOK
  <1>2. \A k \in 1..m : DomOnly[k] \in T
    <2> HIDE DEF T
    <2> QED  BY <1>1
  <1>3. \A k \in 1..m : DomOnly[k].ax = 0 /\ DomOnly[k].dom \in unused
    BY <1>2
  <1> HIDE DEF T
  <1>4. /\ m \in Nat /\ DOMAIN DomOnly = 1..m /\ n \in Nat /\ DOMAIN correlated = 1..n
        /\ new = correlated \o DomOnly /\ correlated \in Seq(Entry)
    BY <1>1 DEF TypeOK, KeepDomOnly
  <1>5. /\ DOMAIN new = 1..(n + m) /\ \A k \in 1..n : new[k] = correlated[k]
        /\ \A k \in (n + 1)..(n + m) : k - n \in 1..m /\ new[k] = DomOnly[k - n]
    BY <1>1, <1>4
  <1>6. unused' = {} /\ at' = at /\ ax' = ax
    BY DEF KeepDomOnly, ax
  <1> HIDE DEF new, m, n
  <1>7. \A k \in 1..(n + m) : k \in 1..n \/ k \in (n + 1)..(n + m)
    BY <1>4
  <1>8. \A k \in 1..n : correlated[k].dom \notin unused
    BY <1>4 DEF Once
  <1>9. \A k \in (n + 1)..(n + m) : new[k].ax = 0 /\ new[k].dom \in unused
    BY <1>3, <1>5
  <1>10. ASSUME NEW k \in 1..(n + m), NEW l \in 1..(n + m), k # l
         PROVE  /\ new[k].dom = new[l].dom => new[k].dom = 0
                /\ new[k].ax = new[l].ax => new[k].ax = 0
    <2>1. CASE k \in 1..n /\ l \in 1..n
      BY <1>4, <1>5, <1>10, <2>1 DEF Once
    <2>2. CASE k \in (n + 1)..(n + m) /\ l \in (n + 1)..(n + m)
      <3>1. k - n # l - n
        BY <1>4, <1>10, <2>2
      <3>2. k - n \in DOMAIN DomOnly /\ l - n \in DOMAIN DomOnly
        BY <1>4, <1>5, <2>2
      <3>3. DomOnly[k - n].dom # DomOnly[l - n].dom
        BY <1>1, <3>1, <3>2
      <3>4. new[k].dom # new[l].dom
        BY <1>5, <2>2, <3>3
      <3> QED  BY <1>9, <2>2, <3>4
    <2>3. CASE k \in 1..n /\ l \in (n + 1)..(n + m)
      <3>1. new[k].dom \notin unused /\ new[l].dom \in unused /\ new[l].ax = 0
        BY <1>5, <1>8, <1>9, <2>3
      <3> QED  BY <3>1
    <2>4. CASE l \in 1..n /\ k \in (n + 1)..(n + m)
      <3>1. new[l].dom \notin unused /\ new[k].dom \in unused /\ new[k].ax = 0
        BY <1>5, <1>8, <1>9, <2>4
      <3> QED  BY <3>1
    <2> QED  BY <1>7, <2>1, <2>2, <2>3, <2>4
  <1>11. ASSUME NEW k \in 1..(n + m)
         PROVE  new[k].ax # 0 => new[k].ax < at /\ ~Ignored(ax[new[k].ax])
    <2>1. CASE k \in 1..n
      BY <1>4, <1>5, <2>1 DEF Once
    <2>2. CASE k \in (n + 1)..(n + m)
      BY <1>9, <2>2
    <2> QED  BY <1>7, <2>1, <2>2
  <1> QED  BY <1>5, <1>6, <1>10, <1>11 DEF Once, new, Ignored

LEMMA OnceKept ==
    ASSUME TypeOK, Once, [Next]_vars
    PROVE  Once'
  <1>1. CASE IgnoreNode
    <2>1. ax' = ax /\ at \in Nat /\ at' = at + 1 /\ UNCHANGED <<correlated, unused>>
      BY <1>1 DEF IgnoreNode, ax, TypeOK
    <2>2. \A k \in DOMAIN correlated : correlated[k].ax \in Nat
      <3>1. \A k \in DOMAIN correlated : correlated[k] \in Entry
        BY DEF TypeOK
      <3> QED  BY <3>1, CaptureTyped DEF Entry, TypeOK
    <2>3. \A k \in DOMAIN correlated : correlated[k].ax < at => correlated[k].ax < at + 1
      BY <2>1, <2>2
    <2> QED  BY <2>1, <2>3 DEF Once, Ignored
  <1>2. CASE MatchRoleName \/ MatchName
    <2>1. PICK i \in DOMAIN dom, match \in {"role_name", "name"} : MatchOf(i, match)
      BY <1>2, MatchesAreSole
    <2>2. Visit(match, i) /\ i \in 0..Len(dom)
      BY <2>1, CaptureTyped DEF MatchOf, TypeOK
    <2> QED  BY <2>1, <2>2, VisitOnce
  <1>3. CASE KeepUnmatched
    <2>1. Visit("unmatched", 0) /\ 0 \in 0..Len(dom) /\ unused' = unused
      BY <1>3, CaptureTyped DEF KeepUnmatched, TypeOK
    <2> QED  BY <2>1, VisitOnce
  <1>4. CASE KeepDomOnly
    BY <1>4, KeepOnce
  <1>5. CASE UNCHANGED <<capture, at, unused, correlated>>
    BY <1>5 DEF Once, Ignored, ax
  <1> QED  BY <1>1, <1>2, <1>3, <1>4, <1>5
           DEF Next, AnalyzeDomOnly, AnalyzeModel, AnalyzeFails, Analyzed, Audit, Stopped, vars

\* How many of a set satisfy what at most one does.
LEMMA OneOrNone ==
    ASSUME NEW D, NEW P \in SUBSET D, \A k, l \in P : k = l
    PROVE  Cardinality(P) = IF P = {} THEN 0 ELSE 1
  <1>1. CASE P = {}
    BY <1>1, FS_EmptySet
  <1>2. CASE P # {}
    <2>1. PICK k \in P : TRUE
      BY <1>2
    <2>2. P = {k}
      BY <2>1
    <2> QED  BY <1>2, <2>2, FS_Singleton
  <1> QED  BY <1>1, <1>2

\* correlate neither loses a piece of evidence nor uses one twice: elements and
\* nodes are in one entry each once they are taken, for captures of any size
\* (correlate.py 123-206).
THEOREM NothingLostOrDoubled == Spec => []EvidenceKept
  <1>1. Init => Once
    BY DEF Init, Once
  <1>2. TypeOK /\ Once /\ [Next]_vars => Once'
    BY OnceKept
  <1>3. Spec => []Once
    BY <1>1, <1>2, TypeCorrect, PTL DEF Spec
  <1>4. IInv /\ Once => EvidenceKept
    <2> SUFFICES ASSUME IInv, Once PROVE EvidenceKept
      OBVIOUS
    <2>1. /\ Len(dom) \in Nat /\ DOMAIN dom = 1..Len(dom) /\ Len(ax) \in Nat
          /\ at \in Nat /\ Covered /\ Consistent
      BY CaptureTyped DEF IInv, TypeOK, Correlation
    <2>2. ASSUME NEW i \in DOMAIN dom
          PROVE  Cardinality({k \in DOMAIN correlated : correlated[k].dom = i})
                   = IF i \in unused THEN 0 ELSE 1
      <3> DEFINE P == {k \in DOMAIN correlated : correlated[k].dom = i}
      <3>1. i # 0
        BY <2>1
      <3>2. \A k, l \in P : k = l
        BY <3>1 DEF Once
      <3>3. i \in unused <=> P = {}
        BY <2>1 DEF Once, Covered, EntriesOf
      <3>4. P \in SUBSET (DOMAIN correlated)
        OBVIOUS
      <3> HIDE DEF P
      <3>5. Cardinality(P) = IF P = {} THEN 0 ELSE 1
        BY <3>2, <3>4, OneOrNone
      <3> QED  BY <3>3, <3>5 DEF P
    <2>3. ASSUME NEW j \in 1..(at - 1)
          PROVE  Cardinality({k \in DOMAIN correlated : correlated[k].ax = j})
                   = IF Ignored(ax[j]) THEN 0 ELSE 1
      <3> DEFINE P == {k \in DOMAIN correlated : correlated[k].ax = j}
      <3>1. j # 0
        BY <2>1
      <3>2. \A k, l \in P : k = l
        BY <3>1 DEF Once
      <3>3. Ignored(ax[j]) <=> P = {}
        BY <2>1, <3>1 DEF Once, Covered, EntriesOf
      <3>4. P \in SUBSET (DOMAIN correlated)
        OBVIOUS
      <3> HIDE DEF P
      <3>5. Cardinality(P) = IF P = {} THEN 0 ELSE 1
        BY <3>2, <3>4, OneOrNone
      <3> QED  BY <3>3, <3>5 DEF P
    <2> QED  BY <2>1, <2>2, <2>3 DEF EvidenceKept, Consistent
  <1> QED  BY <1>3, <1>4, InvariantHolds, PTL

-----------------------------------------------------------------------------
(* The document.                                                           *)

Parser == [elements : Seq(Element), current : Seq(StartTag), text : Seq(Data)]

\* The element in hand is one, and has text only if it is there.
InHand(parser) ==
    /\ parser \in Parser
    /\ Len(parser.current) <= 1 /\ (parser.current = <<>> => parser.text = <<>>)

Parsers == {p \in Parser : InHand(p)}

\* What handle_endtag makes is an element.
LEMMA FinishedType ==
    ASSUME NEW start \in StartTag, NEW text \in Seq(Data)
    PROVE  Finished(start, text) \in Element
  <1>1. DomName(start, text) \in Names \cup {NoName}
    <2>1. start.label \in Names \cup {NoName} /\ start.id \in Names \cup {NoName}
      BY DEF StartTag
    <2>2. CASE text # <<>>
      <3>1. text[1] \in Data
        BY <2>2
      <3>2. text[1].text \in Names
        BY <3>1 DEF Data
      <3> QED  BY <2>1, <3>2 DEF DomName
    <2>3. CASE text = <<>>
      BY <2>1, <2>3 DEF DomName
    <2> QED  BY <2>2, <2>3
  <1>2. ASSUME NEW i \in DOMAIN text PROVE text[i].says \in SUBSET Labels
    <2>1. text[i] \in Data
      OBVIOUS
    <2> QED  BY <2>1 DEF Data
  <1>3. start.role \in Roles \cup {NoRole} /\ start.says \in SUBSET Labels
    BY DEF StartTag
  <1>4. UNION {text[i].says : i \in DOMAIN text} \in SUBSET Labels
    BY <1>2, Zenon
  <1>5. start.says \cup UNION {text[i].says : i \in DOMAIN text} \in SUBSET Labels
    BY <1>3, <1>4
  <1> DEFINE said == start.says \cup UNION {text[i].says : i \in DOMAIN text}
             name == DomName(start, text)
  <1>6. Finished(start, text) = [role |-> start.role, name |-> name, says |-> said]
    BY DEF Finished
  <1>7. name \in Names \cup {NoName} /\ said \in SUBSET Labels
    BY <1>1, <1>5
  <1> HIDE DEF said, name
  <1> QED  BY <1>3, <1>6, <1>7 DEF Element

LEMMA NothingYet ==
    <<>> \in Seq(Element) /\ <<>> \in Seq(StartTag) /\ <<>> \in Seq(Data) /\ Len(<<>>) = 0
  OBVIOUS

LEMMA ParserType ==
    ASSUME NEW E \in Seq(Element), NEW C \in Seq(StartTag), NEW T \in Seq(Data),
           Len(C) <= 1, C = <<>> => T = <<>>
    PROVE  [elements |-> E, current |-> C, text |-> T] \in Parsers
  <1> DEFINE p == [elements |-> E, current |-> C, text |-> T]
  <1>1. p \in Parser
    BY DEF Parser
  <1>2. p.current = C /\ p.text = T
    OBVIOUS
  <1>3. p \in Parsers
    <2> HIDE DEF p
    <2> QED  BY <1>1, <1>2 DEF Parsers, InHand
  <1> QED  BY <1>3

LEMMA HandleType ==
    ASSUME NEW p \in Parsers, NEW e \in Event
    PROVE  /\ Handle(p, e) \in Parsers
           /\ \A i \in DOMAIN p.elements :
                /\ i \in DOMAIN Handle(p, e).elements
                /\ Handle(p, e).elements[i] = p.elements[i]
  <1>1. /\ p.elements \in Seq(Element) /\ p.current \in Seq(StartTag) /\ p.text \in Seq(Data)
        /\ Len(p.current) <= 1 /\ (p.current = <<>> => p.text = <<>>) /\ p \in Parser
    BY DEF Parsers, InHand, Parser
  <1>a. p = [elements |-> p.elements, current |-> p.current, text |-> p.text]
    BY <1>1 DEF Parser
  <1>2. CASE e \in StartTag
    <2>1. Handle(p, e) = HandleStart(p, e)
      BY <1>2 DEF Handle, StartTag
    <2>2. Handle(p, e) = [elements |-> p.elements, current |-> <<e>>, text |-> <<>>]
      BY <1>a, <2>1 DEF HandleStart
    <2>3. <<e>> \in Seq(StartTag) /\ Len(<<e>>) = 1 /\ <<>> \in Seq(Data)
      BY <1>2
    <2>4. <<e>> \in Seq(StartTag) /\ Len(<<e>>) <= 1
      BY <2>3
    <2>5. Handle(p, e) \in Parsers
      BY <1>1, <2>2, <2>4, NothingYet, ParserType, Zenon
    <2> QED  BY <2>2, <2>5
  <1>3. CASE e \in Data
    <2>1. Handle(p, e) = HandleData(p, e)
      BY <1>3 DEF Handle, Data
    <2>2. CASE p.current = <<>>
      BY <2>1, <2>2 DEF HandleData
    <2>3. CASE p.current # <<>>
      <3>1. Handle(p, e) = [elements |-> p.elements, current |-> p.current,
                             text |-> Append(p.text, e)]
        BY <1>a, <2>1, <2>3 DEF HandleData
      <3>2. Append(p.text, e) \in Seq(Data)
        BY <1>1, <1>3
      <3>3. Handle(p, e) \in Parsers
        BY <1>1, <2>3, <3>1, <3>2, ParserType
      <3> QED  BY <3>1, <3>3
    <2> QED  BY <2>2, <2>3
  <1>4. CASE e = EndTag
    <2>1. Handle(p, e) = HandleEnd(p)
      BY <1>4 DEF Handle, EndTag
    <2>2. CASE p.current = <<>>
      BY <2>1, <2>2 DEF HandleEnd
    <2>3. CASE p.current # <<>>
      <3> DEFINE new == Finished(p.current[1], p.text)
      <3>1. new \in Element
        BY <1>1, <2>3, FinishedType
      <3>2. Handle(p, e) = [elements |-> Append(p.elements, new), current |-> <<>>,
                             text |-> <<>>]
        BY <2>1, <2>3 DEF HandleEnd, Idle
      <3> HIDE DEF new
      <3>3. Append(p.elements, new) \in Seq(Element)
        BY <1>1, <3>1
      <3>4. Handle(p, e) \in Parsers
        <4>1. Len(<<>>) <= 1
          BY NothingYet
        <4> QED  BY <4>1, <3>2, <3>3, NothingYet, ParserType, Zenon
      <3>5. Handle(p, e).elements = Append(p.elements, new)
        BY <3>2
      <3> QED  BY <1>1, <3>1, <3>4, <3>5
    <2> QED  BY <2>2, <2>3
  <1> QED  BY <1>2, <1>3, <1>4 DEF Event

\* Parsed is the parser after each event.
LEMMA ParsedDef ==
    ASSUME NEW html \in Seq(Event)
    PROVE  /\ \A k \in 0..Len(html) : Parsed(html)[k] \in Parsers
           /\ \A k \in 1..Len(html) :
                Parsed(html)[k] = Handle(Parsed(html)[k - 1], html[k])
  <1> DEFINE n == Len(html)
             F == [x \in Parsers \X (1..n) |-> Handle(x[1], html[x[2]])]
             Is(w) == w = [k \in 0..n |-> IF k = 0 THEN Idle ELSE Handle(w[k - 1], html[k])]
  <1>1. n \in Nat /\ \A k \in 1..n : html[k] \in Event
    OBVIOUS
  <1>2. Idle \in Parsers
    <2>1. Len(<<>>) <= 1
      BY NothingYet
    <2>2. Idle = [elements |-> <<>>, current |-> <<>>, text |-> <<>>]
      BY DEF Idle
    <2> QED  BY <2>1, <2>2, NothingYet, ParserType, Zenon
  <1>3. F \in [Parsers \X (1..n) -> Parsers]
    <2> HIDE DEF n
    <2> QED  BY <1>1, HandleType
  <1>4. PICK f \in [0..n -> Parsers] :
          f[0] = Idle /\ \A k \in 1..n : f[k] = F[<<f[k - 1], k>>]
    <2> HIDE DEF F, n
    <2>1. Recursion(Parsers, n, Idle, F)
      BY <1>1, <1>2, <1>3, RecursionExists
    <2> QED  BY <2>1 DEF Recursion
  <1>5. \A k \in 1..n : f[k] = Handle(f[k - 1], html[k])
    <2> SUFFICES ASSUME NEW k \in 1..n PROVE f[k] = Handle(f[k - 1], html[k])
      OBVIOUS
    <2>1. k - 1 \in 0..n /\ f[k - 1] \in Parsers
      BY <1>1, <1>4
    <2>2. F[<<f[k - 1], k>>] = Handle(f[k - 1], html[k])
      BY <2>1
    <2> QED  BY <1>4, <2>2
  <1>6. Is(f)
    <2> HIDE DEF F
    <2> QED  BY <1>1, <1>4, <1>5
  <1>7. Parsed(html) = CHOOSE w : Is(w)
    BY DEF Parsed
  <1> DEFINE g == Parsed(html)
  <1> HIDE DEF Is
  <1>8. Is(g)
    BY <1>6, <1>7
  <1> HIDE DEF g
  <1>9. /\ g[0] = Idle
        /\ \A k \in 1..n : k - 1 \in 0..n /\ g[k] = Handle(g[k - 1], html[k])
    <2> HIDE DEF n, F
    <2>1. g = [k \in 0..n |-> IF k = 0 THEN Idle ELSE Handle(g[k - 1], html[k])]
      BY <1>8 DEF Is
    <2>2. 0 \in 0..n /\ \A k \in 1..n : k \in 0..n /\ k - 1 \in 0..n /\ k # 0
      BY <1>1
    <2> HIDE DEF Is
    <2> QED  BY <2>1, <2>2
  <1>10. \A k \in 0..n : g[k] \in Parsers
    <2> DEFINE S == {k \in Nat : k <= n => g[k] \in Parsers}
    <2>1. 0 \in S
      BY <1>2, <1>9
    <2>2. ASSUME NEW k \in S PROVE k + 1 \in S
      <3> SUFFICES ASSUME k + 1 <= n PROVE g[k + 1] \in Parsers
        OBVIOUS
      <3>1. k + 1 \in 1..n /\ (k + 1) - 1 = k /\ g[k] \in Parsers
        BY <1>1, <2>2
      <3>2. g[k + 1] = Handle(g[k], html[k + 1])
        BY <1>9, <3>1
      <3> QED  BY <1>1, <3>1, <3>2, HandleType
    <2> HIDE DEF S
    <2>3. S = Nat
      <3>1. S \in SUBSET Nat
        BY DEF S
      <3> QED  BY <3>1, <2>1, <2>2, InductionOnNat
    <2> QED  BY <1>1, <2>3 DEF S
  <1> QED  BY <1>9, <1>10 DEF g

\* What has been found stays where it is.
LEMMA ElementsStay ==
    ASSUME NEW html \in Seq(Event), NEW n \in 0..Len(html),
           NEW i \in DOMAIN Parsed(html)[n].elements
    PROVE  /\ i \in DOMAIN ExtractDom(html)
           /\ ExtractDom(html)[i] = Parsed(html)[n].elements[i]
  <1> DEFINE P == Parsed(html)
             N == Len(html)
             Stays(m) == /\ i \in DOMAIN P[m].elements
                         /\ P[m].elements[i] = P[n].elements[i]
             S == {d \in Nat : n + d <= N => Stays(n + d)}
  <1>1. N \in Nat /\ n \in Nat /\ n <= N /\ \A k \in 1..N : html[k] \in Event
    OBVIOUS
  <1>2. /\ \A k \in 0..N : P[k] \in Parsers
        /\ \A k \in 1..N : P[k] = Handle(P[k - 1], html[k])
    BY ParsedDef
  <1> HIDE DEF P, N
  <1>3. 0 \in S
    <2>1. n + 0 = n /\ i \in DOMAIN P[n].elements
      BY <1>1 DEF P
    <2> QED  BY <2>1
  <1>4. ASSUME NEW d \in S PROVE d + 1 \in S
    <2> SUFFICES ASSUME n + (d + 1) <= N PROVE Stays(n + (d + 1))
      OBVIOUS
    <2> DEFINE m == n + d
    <2>1. m \in 0..N /\ m + 1 \in 1..N /\ n + (d + 1) = m + 1 /\ (m + 1) - 1 = m
      BY <1>1
    <2>2. Stays(m)
      BY <1>1, <2>1
    <2> HIDE DEF m
    <2>3. P[m] \in Parsers /\ html[m + 1] \in Event /\ P[m + 1] = Handle(P[m], html[m + 1])
      BY <1>1, <1>2, <2>1
    <2>4. /\ i \in DOMAIN P[m + 1].elements
          /\ P[m + 1].elements[i] = P[m].elements[i]
      BY <2>2, <2>3, HandleType
    <2> QED  BY <2>1, <2>2, <2>4
  <1> HIDE DEF S
  <1>5. S = Nat
    <2>1. S \in SUBSET Nat
      BY DEF S
    <2> QED  BY <2>1, <1>3, <1>4, InductionOnNat
  <1>6. N - n \in S /\ n + (N - n) = N
    BY <1>1, <1>5
  <1>7. Stays(N)
    BY <1>1, <1>6 DEF S
  <1> QED  BY <1>7 DEF P, N, ExtractDom

\* Between a leaf's start and its end lies one text at most.
LEMMA LeafSpan ==
    ASSUME NEW html, IsHtml(html), NEW k \in DOMAIN html, NEW n \in DOMAIN html,
           IsLeaf(html, k, n)
    PROVE  n = k + 1 \/ (n = k + 2 /\ html[k + 1].kind = "data")
  <1>1. /\ html \in Seq(Event) /\ k \in Nat /\ n \in Nat /\ k < n /\ k >= 1 /\ n <= Len(html)
        /\ Len(html) \in Nat /\ DOMAIN html = 1..Len(html)
    BY DEF IsHtml, IsLeaf
  <1>2. \A i \in 1..Len(html) : k < i /\ i < n => html[i].kind = "data"
    BY <1>1 DEF IsLeaf
  <1>3. \A j \in 2..Len(html) : html[j].kind = "data" => html[j - 1].kind # "data"
    BY DEF IsHtml
  <1>4. CASE n > k + 2
    <2>1. k + 2 \in 2..Len(html) /\ k + 1 \in 1..Len(html) /\ (k + 2) - 1 = k + 1
      BY <1>1, <1>4
    <2>2. html[k + 1].kind = "data" /\ html[k + 2].kind = "data"
      BY <1>1, <1>2, <1>4, <2>1
    <2> QED  BY <1>3, <2>1, <2>2
  <1>5. CASE n = k + 2
    <2>1. k + 1 \in 1..Len(html) /\ k < k + 1 /\ k + 1 < n
      BY <1>1, <1>5
    <2> QED  BY <1>2, <1>5, <2>1
  <1> QED  BY <1>1, <1>4, <1>5

\* Every leaf is one of the elements that are extracted.
LEMMA LeafExtracted ==
    ASSUME NEW html, IsHtml(html), NEW k \in DOMAIN html, NEW n \in DOMAIN html,
           IsLeaf(html, k, n)
    PROVE  \E i \in DOMAIN ExtractDom(html) :
             ExtractDom(html)[i] = Finished(html[k], SubSeq(html, k + 1, n - 1))
  <1> DEFINE P == Parsed(html)
             text == SubSeq(html, k + 1, n - 1)
  <1>1. /\ html \in Seq(Event) /\ k \in 1..Len(html) /\ n \in 1..Len(html)
        /\ k \in Nat /\ n \in Nat /\ Len(html) \in Nat /\ k < n
        /\ html[k].kind = "start" /\ html[n].kind = "end"
    BY DEF IsHtml, IsLeaf
  <1>2. /\ \A j \in 0..Len(html) : P[j] \in Parsers
        /\ \A j \in 1..Len(html) : P[j] = Handle(P[j - 1], html[j])
    BY <1>1, ParsedDef
  <1> HIDE DEF P
  <1>3. P[k].current = <<html[k]>> /\ P[k].text = <<>>
    <2>1. k - 1 \in 0..Len(html)
      BY <1>1
    <2>2. P[k] = HandleStart(P[k - 1], html[k]) /\ P[k - 1] \in Parser
      BY <1>1, <1>2, <2>1 DEF Handle, Parsers
    <2> QED  BY <2>2 DEF HandleStart, Parser
  <1>4. P[n - 1].current = <<html[k]>> /\ P[n - 1].text = text
    <2>1. CASE n = k + 1
      <3>1. n - 1 = k /\ text = <<>>
        BY <1>1, <2>1
      <3> QED  BY <1>3, <3>1
    <2>2. CASE n = k + 2 /\ html[k + 1].kind = "data"
      <3>1. k + 1 \in 1..Len(html) /\ (k + 1) - 1 = k /\ n - 1 = k + 1 /\ k \in 0..Len(html)
        BY <1>1, <2>2
      <3>2. P[k + 1] = HandleData(P[k], html[k + 1]) /\ P[k] \in Parser
        BY <1>2, <2>2, <3>1 DEF Handle, Parsers
      <3>3. P[k].current # <<>>
        BY <1>3
      <3>4. P[k + 1] = [P[k] EXCEPT !.text = Append(@, html[k + 1])]
        BY <3>2, <3>3 DEF HandleData
      <3>5. P[k + 1].current = <<html[k]>> /\ P[k + 1].text = Append(<<>>, html[k + 1])
        BY <1>3, <3>2, <3>4 DEF Parser
      <3>6. SubSeq(html, k + 1, k + 1) = <<html[k + 1]>>
        <4> DEFINE m == k + 1
                   t == SubSeq(html, m, m)
        <4>1. m \in Nat /\ 1 <= m /\ m <= Len(html)
          BY <1>1, <3>1
        <4> HIDE DEF m
        <4>2. t \in Seq(Event) /\ Len(t) = 1 /\ t[1] = html[m]
          BY <1>1, <4>1
        <4> HIDE DEF t
        <4>3. t = <<t[1]>>
          BY <4>2
        <4> QED  BY <4>2, <4>3 DEF t, m
      <3>7. Append(<<>>, html[k + 1]) = <<html[k + 1]>>
        OBVIOUS
      <3>8. text = SubSeq(html, k + 1, k + 1)
        BY <3>1
      <3> HIDE DEF text
      <3> QED  BY <3>1, <3>5, <3>6, <3>7, <3>8
    <2> QED  BY <2>1, <2>2, LeafSpan
  <1> DEFINE new == Finished(html[k], text)
  <1>5. P[n].elements = Append(P[n - 1].elements, new) /\ P[n - 1] \in Parsers
    <2>1. n - 1 \in 0..Len(html)
      BY <1>1
    <2>2. P[n] = HandleEnd(P[n - 1]) /\ P[n - 1] \in Parsers
      BY <1>1, <1>2, <2>1 DEF Handle
    <2>3. P[n - 1].current # <<>> /\ P[n - 1].current[1] = html[k]
      BY <1>4
    <2> HIDE DEF text
    <2>4. P[n] = [Idle EXCEPT !.elements = Append(P[n - 1].elements, new)]
      BY <1>4, <2>2, <2>3 DEF HandleEnd
    <2> QED  BY <2>2, <2>4 DEF Idle
  <1> HIDE DEF new
  <1>6. PICK i \in DOMAIN P[n].elements : P[n].elements[i] = new
    <2> DEFINE old == P[n - 1].elements
    <2>1. old \in Seq(Element)
      BY <1>5 DEF Parsers, Parser
    <2> HIDE DEF old
    <2>2. Len(old) + 1 \in DOMAIN Append(old, new) /\ Append(old, new)[Len(old) + 1] = new
      BY <2>1
    <2> QED  BY <1>5, <2>2 DEF old
  <1>7. i \in DOMAIN ExtractDom(html) /\ ExtractDom(html)[i] = P[n].elements[i]
    BY <1>1, <1>6, ElementsStay DEF P
  <1> QED  BY <1>6, <1>7 DEF new

\* What a leaf of the document says is reported when it is forbidden and never
\* reported absent, whatever surrounds the leaf, whatever the matching does with
\* it and whatever the model answers (dom.py 49-81, correlate.py, audit.py).
THEOREM LeavesCount == Spec => []LeavesStand
  <1>1. IInv /\ ForbiddenStands => LeavesStand
    <2> SUFFICES ASSUME IInv, ForbiddenStands, pc = "done",
                        NEW leaf \in Leaves(capture.page.html)
                 PROVE  /\ \A c \in Forbidden :
                             Applies(c) /\ c.subject \in leaf.says \cup {leaf.name}
                               => c \in forbidden_present
                        /\ \A c \in required_absent :
                             c.subject \notin leaf.says \cup {leaf.name}
      BY DEF LeavesStand
    <2> DEFINE html == capture.page.html
    <2>1. IsHtml(html) /\ dom = ExtractDom(html)
      BY PerceptionAssumption DEF IInv, TypeOK, IsCapture, dom
    <2>2. PICK k \in DOMAIN html, n \in DOMAIN html :
            IsLeaf(html, k, n) /\ leaf = Finished(html[k], SubSeq(html, k + 1, n - 1))
      BY DEF Leaves
    <2> HIDE DEF html
    <2>3. PICK i \in DOMAIN dom : dom[i] = leaf
      BY <2>1, <2>2, LeafExtracted
    <2>4. leaf.says \cup {leaf.name} \subseteq Shown
      BY <2>3 DEF Shown
    <2> QED  BY <2>4 DEF ForbiddenStands, ForbiddenShown, RequiredNotShown
  <1> QED  BY <1>1, InvariantHolds, ForbiddenReported, PTL
=============================================================================
