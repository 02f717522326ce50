---------------------------- MODULE RenderListing ----------------------------
(***************************************************************************)
(* The renderer applied to a growing, reordered list of tunnels: the rows  *)
(* a gateway is served come newest first, in an arbitrary order when they   *)
(* were created in the same second.                                         *)
(***************************************************************************)
EXTENDS Render

CONSTANT MaxTunnels  \* bound: tunnels of the gateway

VARIABLES listing, toml

vars == <<listing, toml>>

Init == listing = <<>> /\ toml = RenderBlocks(<<>>)

Created(p) ==
    /\ Len(listing) < MaxTunnels
    /\ listing' = <<p>> \o listing
    /\ toml' = RenderBlocks(listing')

Reordered ==
    /\ \E i \in 2..Len(listing) :
          listing' = [listing EXCEPT ![i] = listing[i - 1], ![i - 1] = listing[i]]
    /\ toml' = RenderBlocks(listing')

Next == Reordered \/ \E p \in Proxy : Created(p)

Spec == Init /\ [][Next]_vars

-----------------------------------------------------------------------------
(* Properties.                                                             *)

(* Sorting, sanitizing and skipping leave, for each sanitized name, the    *)
(* first valid tunnel in name order, and no invalid tunnel hides a valid    *)
(* one of the same sanitized name.                                          *)
ServesWinners ==
    /\ {b.proxy : b \in ToSet(toml)} = {listing[i] : i \in Winners(listing)}
    /\ \A j, k \in DOMAIN toml : j < k =>
          toml[j].name # toml[k].name /\ Rank[toml[j].proxy.name] <= Rank[toml[k].proxy.name]

(* "Deterministic output across syncs": as long as the raw names differ,   *)
(* the order in which the server lists the tunnels makes no difference.     *)
Stable ==
    [][(Len(listing') = Len(listing)
        /\ \A i, j \in DOMAIN listing : i # j => listing[i].name # listing[j].name)
          => toml' = toml]_vars
=============================================================================
