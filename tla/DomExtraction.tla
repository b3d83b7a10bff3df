---------------------------- MODULE DomExtraction ----------------------------
(***************************************************************************)
(* perception/dom.py: what the callbacks of _DOMParser make of the events  *)
(* HTMLParser reports for a document.  A tag that closes itself is a start *)
(* and an end, one that needs no end (<input>) a start alone.              *)
(***************************************************************************)
EXTENDS Naturals, Sequences

CONSTANTS
    Names, NoName,      \* names, as they compare: normalised; none
    Roles, NoRole,      \* roles, explicit or native; none
    Capabilities, Tags  \* what the keyword tables read off a text

Labels == Capabilities \cup Tags

\* A start tag with what its attributes amount to: role, label, id and the
\* keywords in them.  Text between two tags is one event.
StartTag == [kind : {"start"}, role : Roles \cup {NoRole}, label : Names \cup {NoName},
             id : Names \cup {NoName}, says : SUBSET Labels]
Data == [kind : {"data"}, text : Names, says : SUBSET Labels]
EndTag == [kind |-> "end"]
Event == StartTag \cup Data \cup {EndTag}

IsHtml(html) ==
    /\ html \in Seq(Event)
    /\ \A k \in 2..Len(html) : html[k].kind = "data" => html[k - 1].kind # "data"

Element == [role : Roles \cup {NoRole}, name : Names \cup {NoName},
            says : SUBSET Labels]

\* _dom_name (correlate.py): the label, the text or the id.
DomName(start, text) ==
    IF start.label # NoName THEN start.label
    ELSE IF text # <<>> THEN text[1].text
    ELSE start.id

\* handle_endtag: the DOMElement.
Finished(start, text) ==
    [role |-> start.role, name |-> DomName(start, text),
     says |-> start.says \cup UNION {text[i].says : i \in DOMAIN text}]

\* The fields of the parser: the elements so far, _current and _text.
Idle == [elements |-> <<>>, current |-> <<>>, text |-> <<>>]

\* Mutant of HandleStart: an element in hand is not given up.
KeepOuter(parser, event) ==
    IF parser.current # <<>> THEN parser
    ELSE [parser EXCEPT !.current = <<event>>, !.text = <<>>]

\* handle_starttag: whatever was in hand is replaced.
HandleStart(parser, event) == [parser EXCEPT !.current = <<event>>, !.text = <<>>]

HandleData(parser, event) ==
    IF parser.current = <<>> THEN parser
    ELSE [parser EXCEPT !.text = Append(@, event)]

HandleEnd(parser) ==
    IF parser.current = <<>> THEN parser
    ELSE [Idle EXCEPT !.elements =
            Append(parser.elements, Finished(parser.current[1], parser.text))]

Handle(parser, event) ==
    CASE event.kind = "start" -> HandleStart(parser, event)
      [] event.kind = "data" -> HandleData(parser, event)
      [] event.kind = "end" -> HandleEnd(parser)

\* feed: the parser after each event.
Parsed(html) ==
    LET parser[k \in 0..Len(html)] ==
            IF k = 0 THEN Idle ELSE Handle(parser[k - 1], html[k])
    IN  parser

\* extract_dom_elements
ExtractDom(html) == Parsed(html)[Len(html)].elements

\* A tag with nothing but text between its start and its end.
IsLeaf(html, k, n) ==
    /\ k < n /\ html[k].kind = "start" /\ html[n].kind = "end"
    /\ \A i \in DOMAIN html : k < i /\ i < n => html[i].kind = "data"

\* The leaves of a document, as the elements they are.
Leaves(html) ==
    {Finished(html[p[1]], SubSeq(html, p[1] + 1, p[2] - 1)) :
       p \in {q \in (DOMAIN html) \X (DOMAIN html) : IsLeaf(html, q[1], q[2])}}
=============================================================================
