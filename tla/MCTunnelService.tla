--------------------------- MODULE MCTunnelService ---------------------------
(* Instances of TunnelService for TLC. *)
EXTENDS TunnelService, TLC

CONSTANTS g1, g2, i1, i2, i3, a, b, c, h1, h2

Symmetry ==
    Permutations(Gateways) \cup Permutations(Ids) \cup Permutations(Slugs)
    \cup Permutations(Names \ Slugs) \cup Permutations(Handlers)
=============================================================================
