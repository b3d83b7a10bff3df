----------------------------- MODULE Perception -----------------------------
(***************************************************************************)
(* What becomes of one capture on its way to a verdict: the correlation of *)
(* the DOM elements (DomExtraction) and the accessibility tree             *)
(* (perception/correlate.py), the semantic map (semantic_map.py), the      *)
(* model's part in it (gemini.py) and the audit (negation/audit.py).       *)
(*                                                                         *)
(* A name is normalised, so equal names are equal values.  Two keyword     *)
(* tables turn text into capabilities and into tags: `says` is what the    *)
(* texts of a DOM element (id, classes, text, label) amount to, NameSays   *)
(* what a name does.  They are applied to all texts of an entry joined by  *)
(* blanks, so a keyword can also lie across the seam of two of them        *)
(* ("dialog" and "inbox" make "log in"): `seam` is what that adds to an    *)
(* entry with a given AX and a given DOM half.                             *)
(***************************************************************************)
EXTENDS DomExtraction, FiniteSets

CONSTANTS
    Structural,         \* roles of the tree's own structure
    NameSays,           \* what they read off a name
    Captures,           \* the captures that may be handed to analyze
    Answers,            \* what the model may answer: sets of any strings
    Role,               \* the role the run is pinned to
    Forbidden, Required \* the policy: sets of clauses

Subjects == Labels \cup Names

Node == [role : Roles \cup {NoRole}, name : Names \cup {NoName}]
IsCapture(c) ==
    /\ IsHtml(c.page.html) /\ c.page.dom = ExtractDom(c.page.html)
    /\ c.page.dom \in Seq(Element) /\ c.ax \in Seq(Node) /\ c.screenshot \in BOOLEAN
    /\ \A j \in 0..Len(c.ax), i \in 0..Len(c.page.dom) : c.seam[<<j, i>>] \subseteq Labels
    /\ \A i \in DOMAIN c.page.dom :
         c.page.dom[i].name # NoName =>
           NameSays[c.page.dom[i].name] \subseteq c.page.dom[i].says
Clause == [subject : Subjects, roles : SUBSET {Role, "other"}]

ASSUME PerceptionAssumption ==
    /\ NoName \notin Subjects /\ NoRole \notin Roles
    /\ Structural \subseteq Roles
    /\ NameSays \in [Names -> SUBSET Labels]
    /\ \A c \in Captures : IsCapture(c)
    /\ Answers \subseteq SUBSET Subjects
    /\ Forbidden \subseteq Clause /\ Required \subseteq Clause

VARIABLES
    capture,
    at,             \* the AX node correlate looks at next
    unused,         \* unused_dom, as indices
    correlated,     \* result: pairs of indices, 0 for a missing half
    capabilities,   \* SemanticUIMap.capabilities
    forbidden_present, required_absent, \* the violations, by clause
    pc

vars == <<capture, at, unused, correlated, capabilities, forbidden_present,
          required_absent, pc>>

dom == capture.page.dom
ax == capture.ax

Init ==
    /\ capture \in Captures
    /\ at = 1 /\ unused = DOMAIN dom /\ correlated = <<>>
    /\ capabilities = {} /\ forbidden_present = {} /\ required_absent = {}
    /\ pc = "correlate"

-----------------------------------------------------------------------------
(* correlate: one AX node after the other, then the DOM that is left.      *)

SameRole(role, e) == role = NoRole \/ role = e.role
SameName(name, e) == name # NoName /\ name = e.name

\* The document's own structure, unless it has a name.
Ignored(n) == n.name = NoName /\ n.role \in Structural \cup {NoRole}

\* `strong` and `name_matches`.
Strong(n) == {i \in unused : SameRole(n.role, dom[i]) /\ SameName(n.name, dom[i])}
Named(n) == {i \in unused : SameName(n.name, dom[i])}

\* Mutant of Sole: the first of several will do.
FirstOf(candidates, i) == i \in candidates /\ \A j \in candidates : i <= j

\* Exactly one candidate, and this is it.
Sole(candidates, i) == candidates = {i}

\* The next node is looked at and gets an entry.
Visit(match, i) ==
    /\ pc = "correlate" /\ at \in DOMAIN ax
    /\ ~Ignored(ax[at])
    /\ correlated' = Append(correlated, [ax |-> at, dom |-> i, match |-> match])
    /\ at' = at + 1
    /\ UNCHANGED <<capture, capabilities, forbidden_present, required_absent, pc>>

IgnoreNode ==
    /\ pc = "correlate" /\ at \in DOMAIN ax
    /\ Ignored(ax[at])
    /\ at' = at + 1
    /\ UNCHANGED <<capture, unused, correlated, capabilities,
                   forbidden_present, required_absent, pc>>

MatchRoleName ==
    \E i \in DOMAIN dom :
      /\ Visit("role_name", i)
      /\ Sole(Strong(ax[at]), i)
      /\ unused' = unused \ {i}

\* Mutant of MatchName: the element is not removed from unused_dom.
MatchNameAgain ==
    \E i \in DOMAIN dom :
      /\ Visit("name", i)
      /\ \A j \in DOMAIN dom : ~Sole(Strong(ax[at]), j)
      /\ Sole(Named(ax[at]), i)
      /\ UNCHANGED unused

MatchName ==
    \E i \in DOMAIN dom :
      /\ Visit("name", i)
      /\ \A j \in DOMAIN dom : ~Sole(Strong(ax[at]), j)
      /\ Sole(Named(ax[at]), i)
      /\ unused' = unused \ {i}

KeepUnmatched ==
    /\ Visit("unmatched", 0)
    /\ \A i \in DOMAIN dom : ~Sole(Strong(ax[at]), i) /\ ~Sole(Named(ax[at]), i)
    /\ UNCHANGED unused

NameOf(c) == IF c.ax # 0 /\ ax[c.ax].name # NoName THEN ax[c.ax].name
             ELSE IF c.dom # 0 THEN dom[c.dom].name ELSE NoName

\* _semantic_text through the keyword tables: capabilities and tags.
Says(c) == (IF c.dom # 0 THEN dom[c.dom].says ELSE {})
             \cup (IF NameOf(c) # NoName THEN NameSays[NameOf(c)] ELSE {})
             \cup capture.seam[<<c.ax, c.dom>>]

EntriesOf(list) == {list[k] : k \in DOMAIN list}

\* The capabilities build_semantic_map collects, from named and unnamed evidence.
CapabilitiesOf(list) == Capabilities \cap UNION {Says(c) : c \in EntriesOf(list)}

\* The entries the leftover DOM elements get, in document order.
DomOnly ==
    LET rank(i) == Cardinality({j \in unused : j <= i})
    IN  [k \in 1..Cardinality(unused) |->
           [ax |-> 0, dom |-> CHOOSE i \in unused : rank(i) = k, match |-> "dom_only"]]

\* Mutant of KeepDomOnly: what the AX tree does not show is forgotten.
DropDomOnly ==
    /\ pc = "correlate" /\ at \notin DOMAIN ax
    /\ capabilities' = CapabilitiesOf(correlated)
    /\ pc' = "analyze"
    /\ UNCHANGED <<capture, at, unused, correlated, forbidden_present,
                   required_absent>>

\* The end of correlate, and build_semantic_map over its result.
KeepDomOnly ==
    /\ pc = "correlate" /\ at \notin DOMAIN ax
    /\ correlated' = correlated \o DomOnly
    /\ unused' = {}
    /\ capabilities' = CapabilitiesOf(correlated')
    /\ pc' = "analyze"
    /\ UNCHANGED <<capture, at, forbidden_present, required_absent>>

-----------------------------------------------------------------------------
(* analyze: the model may add to what the evidence says.                   *)

\* The UIElements: correlated evidence with a name or a DOM element.
Elements == {c \in EntriesOf(correlated) : NameOf(c) # NoName \/ c.dom # 0}

Analyzed(merged) ==
    /\ pc = "analyze"
    /\ capabilities' = merged
    /\ pc' = "audit"
    /\ UNCHANGED <<capture, at, unused, correlated, forbidden_present,
                   required_absent>>

\* No screenshot or nothing to ask about: the model is not called.
AnalyzeDomOnly ==
    /\ ~capture.screenshot \/ Elements = {}
    /\ Analyzed(capabilities)

\* Mutant of Merge: the model's answer replaces what the evidence says.
AnswerOnly(answer) == IF answer = {} THEN capabilities ELSE answer

\* analyze: `merged`.
Merge(answer) == capabilities \cup answer

AnalyzeModel ==
    /\ capture.screenshot /\ Elements # {}
    /\ \E answer \in Answers : Analyzed(Merge(answer))

\* PerceptionError: no key, a failed call, output that is not JSON.
AnalyzeFails ==
    /\ pc = "analyze"
    /\ capture.screenshot /\ Elements # {}
    /\ pc' = "failed"
    /\ UNCHANGED <<capture, at, unused, correlated, capabilities,
                   forbidden_present, required_absent>>

-----------------------------------------------------------------------------
(* audit                                                                   *)

Applies(clause) == clause.roles = {} \/ Role \in clause.roles

\* _matches_subject: a capability, or the tag or name of an element.
Present(subject) ==
    \/ subject \in capabilities
    \/ \E c \in Elements : subject = NameOf(c) \/ subject \in Tags \cap Says(c)

\* Mutant of Audit: only the forbidden half.
AuditForbidden ==
    /\ pc = "audit"
    /\ forbidden_present' = {c \in Forbidden : Applies(c) /\ Present(c.subject)}
    /\ pc' = "done"
    /\ UNCHANGED <<capture, at, unused, correlated, capabilities, required_absent>>

Audit ==
    /\ pc = "audit"
    /\ forbidden_present' = {c \in Forbidden : Applies(c) /\ Present(c.subject)}
    /\ required_absent' = {c \in Required : Applies(c) /\ ~Present(c.subject)}
    /\ pc' = "done"
    /\ UNCHANGED <<capture, at, unused, correlated, capabilities>>

Stopped == pc \in {"done", "failed"} /\ UNCHANGED vars

Next ==
    \/ IgnoreNode \/ MatchRoleName \/ MatchName \/ KeepUnmatched \/ KeepDomOnly
    \/ AnalyzeDomOnly \/ AnalyzeModel \/ AnalyzeFails
    \/ Audit
    \/ Stopped

Spec == Init /\ [][Next]_vars

-----------------------------------------------------------------------------
Entry == [ax : 0..Len(ax), dom : 0..Len(dom),
          match : {"role_name", "name", "unmatched", "dom_only"}]

TypeOK ==
    /\ capture \in Captures
    /\ at \in 1..(Len(ax) + 1)
    /\ unused \subseteq DOMAIN dom /\ (pc # "correlate" => unused = {})
    /\ correlated \in Seq(Entry)
    /\ capabilities \subseteq Subjects
    /\ forbidden_present \subseteq Forbidden /\ required_absent \subseteq Required
    /\ pc \in {"correlate", "analyze", "audit", "done", "failed"}

\* No evidence is lost or used twice: at every point of correlate a DOM element
\* is either still unused or in exactly one entry, an AX node that was looked at
\* is in exactly one unless it is bare structure, and an entry with both halves
\* has one name.
EvidenceKept ==
    /\ \A i \in DOMAIN dom :
         Cardinality({k \in DOMAIN correlated : correlated[k].dom = i})
           = IF i \in unused THEN 0 ELSE 1
    /\ \A j \in 1..(at - 1) :
         Cardinality({k \in DOMAIN correlated : correlated[k].ax = j})
           = IF Ignored(ax[j]) THEN 0 ELSE 1
    /\ \A c \in EntriesOf(correlated) :
         c.ax # 0 /\ c.dom # 0 => ax[c.ax].name = dom[c.dom].name

\* "Ambiguous matches are not guessed", for a whole correlation: two elements
\* of one role and name are never told apart, whatever was matched before, so
\* neither is ever given to an AX node.
TwinsUnmatched ==
    \A i, j \in DOMAIN dom :
      i # j /\ dom[i].role = dom[j].role /\ dom[i].name = dom[j].name
        => \A c \in EntriesOf(correlated) : c.dom = i => c.ax = 0

\* What the capture itself shows, before any correlation.
Shown ==
    (UNION {dom[i].says : i \in DOMAIN dom})
      \cup {dom[i].name : i \in DOMAIN dom} \cup {ax[j].name : j \in DOMAIN ax}
      \cup (UNION {NameSays[ax[j].name] : j \in {k \in DOMAIN ax : ax[k].name # NoName}})

ForbiddenShown == {c \in Forbidden : Applies(c) /\ c.subject \in Shown}
RequiredNotShown == {c \in Required : Applies(c) /\ c.subject \notin Shown}

Seamless == \A j \in 0..Len(ax), i \in 0..Len(dom) : capture.seam[<<j, i>>] = {}

\* Without the model a verdict is the set algebra of FR-18 and FR-19 over
\* everything the capture shows: the matching in between, the structure it
\* passes over and the elements it filters out change nothing, unless a keyword
\* lies across a seam, which depends on what was matched.
SetAlgebra ==
    pc = "done" /\ ~capture.screenshot /\ Seamless =>
      /\ forbidden_present = ForbiddenShown
      /\ required_absent = RequiredNotShown

\* Whatever the model answers, what is shown and forbidden is reported, and no
\* required clause is reported absent whose subject is shown.
ForbiddenStands ==
    pc = "done" => /\ ForbiddenShown \subseteq forbidden_present
                   /\ required_absent \subseteq RequiredNotShown

\* The same of the document: what a leaf of it says decides like any evidence,
\* whatever surrounds the leaf.  An element that holds others, or that no end
\* tag follows, is lost, and what it says with it (dom.py).
LeavesStand ==
    pc = "done" =>
      \A leaf \in Leaves(capture.page.html) :
        LET shown == leaf.says \cup {leaf.name}
        IN  /\ \A c \in Forbidden : Applies(c) /\ c.subject \in shown => c \in forbidden_present
            /\ \A c \in required_absent : c.subject \notin shown

\* gemini.py, audit: "whether an element is present or absent is decided by
\* DOM/AX ground truth", with the model's answers merged in as well.
VerdictFromGroundTruth ==
    pc = "done" /\ Seamless => /\ forbidden_present = ForbiddenShown
                               /\ required_absent = RequiredNotShown
=============================================================================
