---------------------------- MODULE MCPerception ----------------------------
(* Instances of Perception for TLC: every page of at most three of five    *)
(* DOM elements, or of two of them inside or after a tag that gets lost,   *)
(* with every tree of at most two of five nodes.                           *)
EXTENDS Perception, TLC

CONSTANTS x, y, button, link, generic, delete, delete_user, logout

MCNames == {x, y}
MCRoles == {button, link, generic}
MCSays == x :> {delete, delete_user} @@ y :> {}

N(r, n) == [role |-> r, name |-> n]

S(r, l, i, s) == [kind |-> "start", role |-> r, label |-> l, id |-> i, says |-> s]
T(n, s) == [kind |-> "data", text |-> n, says |-> s]

\* A labelled button, a link and a button by their text, one by its id, and an
\* icon with a telling class.
MCLeaves ==
    {<<S(button, x, NoName, {delete, delete_user}), EndTag>>,
     <<S(link, NoName, NoName, {}), T(x, {delete, delete_user}), EndTag>>,
     <<S(button, NoName, x, {}), T(y, {}), EndTag>>,
     <<S(NoRole, NoName, y, {logout}), EndTag>>,
     <<S(button, NoName, NoName, {delete, delete_user}), EndTag>>}

\* Around or before them: a menu that says log out, an image without an end.
Menu == <<S(generic, NoName, NoName, {logout}), T(y, {})>>
Image == <<S(NoRole, x, NoName, {delete, delete_user})>>

MCHtmls ==
    {<<>>} \cup MCLeaves
      \cup {a \o b : a, b \in MCLeaves}
      \cup {a \o b \o c : a, b, c \in MCLeaves}
      \cup {h \o a \o b \o <<EndTag>> : h \in {Menu, Menu \o Menu, Image}, a, b \in MCLeaves}

MCNodes ==
    {N(button, x), N(link, x), N(NoRole, y), N(button, NoName), N(generic, NoName)}

UpTo(set, n) == UNION {[1..k -> set] : k \in 0..n}

\* A keyword across a seam, in entries that have no AX half, or nowhere.
MCSeams == {[j \in 0..2, i \in 0..3 |-> IF j = 0 /\ i # 0 THEN s ELSE {}] :
              s \in {{}, {logout}}}

MCPages == {[html |-> h, dom |-> ExtractDom(h)] : h \in MCHtmls}

MCCaptures == [page : MCPages, ax : UpTo(MCNodes, 2), screenshot : BOOLEAN,
               seam : MCSeams]

MCForbidden == {[subject |-> delete_user, roles |-> {Role}],
                [subject |-> delete, roles |-> {}], [subject |-> y, roles |-> {}],
                [subject |-> delete, roles |-> {"other"}]}
MCRequired == {[subject |-> logout, roles |-> {}], [subject |-> x, roles |-> {Role, "other"}]}
=============================================================================
