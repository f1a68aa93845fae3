------------------------------ MODULE MCJobQueue ------------------------------
(* Two worker processes, or one that runs two jobs at a time. *)
EXTENDS JobQueue, TLC

CONSTANTS j1, w1, w2, s1, s2, k1, k2, k3

MCToken == {k1, k2, k3}
TwoProcesses == (s1 :> w1) @@ (s2 :> w2)
OneProcess == (s1 :> w1) @@ (s2 :> w1)

Swap(x, y) == (x :> y) @@ (y :> x)
Keep(S) == [e \in S |-> e]
Compose(F, G) == {f @@ g : f \in F, g \in G}
\* Exchanging both processes together with their slots leaves ProcessOf as it is.
MCSymmetry == Compose({Keep({w1, w2, s1, s2}), Swap(w1, w2) @@ Swap(s1, s2)},
                      Permutations(MCToken))
=============================================================================
