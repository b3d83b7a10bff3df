-------------------------- MODULE MCCrashRecovery --------------------------
(* Instances of CrashRecovery for TLC: the applications of MCGraphRunner.  *)
EXTENDS CrashRecovery, TLC

CONSTANTS p1, p2, p3, p4, gone, a, b, u

MCPages == {p1, p2, p3, p4, gone}
MCActions == {a, b, u}

L(x, t) == [action |-> x, to |-> t]

\* Side effects on the seed and behind it, a dead link, and cycles.
MCApps ==
    {(p1 :> <<L(a, p2), L(u, t), L(b, p3)>>) @@ (p2 :> <<L(u, p3), L(a, p1)>>)
       @@ (p3 :> <<L(a, p4), L(u, gone)>>) @@ (p4 :> <<L(u, p1), L(b, p2)>>) :
       t \in {p2, p4, gone}}

NoNodes == [s \in {} |-> 0]
=============================================================================
