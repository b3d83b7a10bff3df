-------------------------- MODULE MCBrowserActions --------------------------
(* An instance of BrowserActions for TLC: two pages of one address and one *)
(* of another, a click that can be repeated and one that cannot.           *)
EXTENDS BrowserActions, TLC

CONSTANTS p1, p2, p3, u1, u2, go, next, type, wheel, bad

MCPages == {p1, p2, p3}
MCUrl == p1 :> u1 @@ p2 :> u1 @@ p3 :> u2
MCKind == go :> "navigate" @@ next :> "click" @@ type :> "type"
            @@ wheel :> "scroll" @@ bad :> "click"
MCActions == {go, next, type, wheel, bad}

Stay == [p \in MCPages |-> p]
MCLeads ==
    go :> [p \in MCPages |-> p1]
    @@ next :> (p1 :> p2 @@ p2 :> p3 @@ p3 :> NoPage)
    @@ type :> [Stay EXCEPT ![p2] = NoPage]
    @@ wheel :> Stay @@ bad :> Stay
=============================================================================
