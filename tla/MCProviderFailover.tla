------------------------- MODULE MCProviderFailover -------------------------
(* Two official providers, the first with two keys, and a relay provider. *)
EXTENDS ProviderFailover, TLC

CONSTANTS p1, p2, p3, k1, k2, k3, k4, t1, t2

MCProviders == {p1, p2, p3}
MCAll == (k1 :> p1) @@ (k2 :> p1) @@ (k3 :> p2) @@ (k4 :> p3)
MCProviderOf == [k \in Keys |-> MCAll[k]]
MCRank == (p1 :> 1) @@ (p2 :> 2) @@ (p3 :> 3)
            @@ (k1 :> 1) @@ (k2 :> 2) @@ (k3 :> 1) @@ (k4 :> 1)
MCTrust == (p1 :> "official") @@ (p2 :> "official") @@ (p3 :> "relay")

Symmetry == Permutations(Turns)
=============================================================================
