---------------------------- MODULE MCTunnelRender ----------------------------
(* Instances of TunnelRender for TLC: d is a name with a leading dash, which *)
(* the API accepts and the renderer removes (giving c); a slug never starts  *)
(* with a dash. No property depends on the order of two slugs.               *)
EXTENDS TunnelRender

CONSTANTS g1, g2, i1, i2, i3, a, b, c, d, h1, h2

DashFirst == [n \in Names |-> CASE n = d -> 1 [] n = a -> 2 [] n = b -> 3]
DashRemoved == [n \in Names |-> IF n = d THEN c ELSE n]

Symmetry ==
    Permutations(Gateways) \cup Permutations(Ids) \cup Permutations(Slugs)
    \cup Permutations(Handlers)
=============================================================================
