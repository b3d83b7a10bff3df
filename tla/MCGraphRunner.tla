--------------------------- MODULE MCGraphRunner ---------------------------
(* Instances of GraphRunner for TLC.                                       *)
EXTENDS GraphRunnerParity, TLC

CONSTANTS p1, p2, p3, p4, p5, gone, a, b, u

MCPages == {p1, p2, p3, p4, p5, gone}
MCActions == {a, b, u}

L(x, t) == [action |-> x, to |-> t]

\* What a page of a small application may offer: nothing, a link, or a link and
\* a control with side effects.
Menus ==
    {<<>>} \cup {<<L(a, t)>> : t \in {p1, p2, p3, gone}}
    \cup {<<L(a, t), L(u, v)>> : t \in {p1, p3, gone}, v \in {p1, p2, p3}}

\* Small applications of three pages; p1 may offer two links.
SmallApps ==
    {(p1 :> m1) @@ (p2 :> m2) @@ (p3 :> m3) :
       m1 \in {<<L(a, t), L(b, v)>> : t \in {p1, p2}, v \in {p1, p3, gone}} \cup Menus,
       m2 \in Menus,
       m3 \in {<<>>, <<L(a, p1)>>, <<L(b, p2)>>, <<L(u, p1), L(b, p2)>>}}

\* One application in several versions: the same controls, other targets.  p1
\* carries two controls with one id, and `u` is on three pages.
Versions ==
    {(p1 :> <<L(a, p2), L(u, p3), L(a, p3)>>) @@ (p2 :> <<L(b, t), L(u, v)>>)
       @@ (p3 :> <<L(a, p4), L(u, p2)>>) @@ (p4 :> <<L(a, p1), L(b, p5)>>)
       @@ (p5 :> <<L(b, p1), L(a, p2)>>) :
       t \in {p3, p4, gone}, v \in {p1, p5}}

NoNodes == [s \in {} |-> 0]
\* What an earlier run over the same graph store left behind.
EarlierNodes == p1 :> 0
EarlierVisited == {<<p1, u>>}

\* One page, p1, with n controls that lead back to it, the last to p2.
Wide(n) == (p1 :> [i \in 1..n |-> L(i, IF i = n THEN p2 ELSE p1)]) @@ (p2 :> <<>>)
WideActions == 1..70
WideApps == {Wide(10), Wide(70)}
AnyApps == SmallApps \cup {Wide(70)}
AnyActions == MCActions \cup WideActions
=============================================================================
