------------------------------- MODULE MCPoc -------------------------------
(* Instances of Poc for TLC.                                               *)
EXTENDS Poc

CONSTANTS p1, p2, p3, gone, a, b, u

MCPages == {p1, p2, p3, gone}
MCActions == {a, b, u}

L(x, t) == [action |-> x, to |-> t]

\* Three pages; p1 may show two controls with one id.  Versions of an
\* application differ in the targets only.
MCApps ==
    {(p1 :> <<L(a, p2), L(x, t)>>) @@ (p2 :> <<L(a, v), L(u, w)>>) @@ (p3 :> <<L(b, p1)>>) :
       x \in {a, b}, t \in {p1, p3, gone}, v \in {p1, p3}, w \in {p1, p2, gone}}

NoNodes == [s \in {} |-> 0]
=============================================================================
