------------------------------ MODULE MCTicketing ------------------------------
(* Two purchases of one ticket each, by either of two buyers, and two verify *)
(* calls at a time.                                                          *)
EXTENDS Ticketing, TLC

CONSTANTS u1, u2, v1, v2, p1, p2, t1, t2

MCUser == {u1, u2}
MCVerifier == {v1, v2}
MCPurchase == {p1, p2}
MCTicket == {t1, t2}
MCOrder == (t1 :> p1) @@ (t2 :> p2)
MCOrder2 == (t1 :> p1) @@ (t2 :> p1)

\* Exchanging both purchases together with their tickets leaves Order as it is.
Swap(x, y) == (x :> y) @@ (y :> x)
Keep(S) == [e \in S |-> e]
Compose(F, G) == {f @@ g : f \in F, g \in G}
MCSymmetry ==
    Compose({Keep({p1, p2, t1, t2}), Swap(p1, p2) @@ Swap(t1, t2)},
            Compose({Keep({u1, u2}), Swap(u1, u2)}, {Keep({v1, v2}), Swap(v1, v2)}))

\* Requests die only at a paid tier that keeps its one seat, where the last seat is at
\* stake; only a paid tier, whose capacity the properties are about, is edited.
OneStory ==
    /\ faults' > 0 => price = "paid" /\ granted' = {1} /\ editing' = 0
    /\ editing' # 0 => price = "paid"

MCSpec == Init /\ [][Next /\ OneStory]_vars
=============================================================================
