----------------------------- MODULE MCSkeleton -----------------------------
(* An instance of Skeleton for TLC: a clean page, one that shows what it   *)
(* must not, one that lacks what it must show, one that does both.         *)
EXTENDS Skeleton, TLC

CONSTANTS p1, p2, p3, p4, u1, u2, u3, u4, dead, s1, s2, s3, admin, logout, debug

MCPages == {p1, p2, p3, p4}
MCSite == u1 :> p1 @@ u2 :> p2 @@ u3 :> p3 @@ u4 :> p4 @@ dead :> NoPage
MCFingerprint == p1 :> s1 @@ p2 :> s2 @@ p3 :> s3 @@ p4 :> s3
MCTags == p1 :> {logout} @@ p2 :> {admin, debug, logout} @@ p3 :> {} @@ p4 :> {debug}

C(s, r) == [subject |-> s, roles |-> r]
MCForbidden == <<C(admin, {Role}), C(debug, {}), C(logout, {"other"})>>
MCRequired == <<C(logout, {Role, "other"})>>
=============================================================================
