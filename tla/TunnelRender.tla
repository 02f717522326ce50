----------------------------- MODULE TunnelRender -----------------------------
(***************************************************************************)
(* The tunnels table and the renderer together: what becomes of each row   *)
(* that the API accepted once a gateway pulls it.                           *)
(***************************************************************************)
EXTENDS TunnelService, Render, FiniteSets

ASSUME NamesAssumption == DOMAIN Sanitized = Names

(* The row as the agent receives it. Create has validated the target; an   *)
(* update can leave an http tunnel without a domain, a tcp one without a    *)
(* port.                                                                    *)
ProxyOf(r) ==
    [name |-> r.name, type |-> r.type, target |-> TRUE,
     route |-> IF r.type = "http" THEN r.domain # "none" ELSE r.port # 0]

Listed(g) == {i \in DOMAIN tunnels : tunnels[i].gw = g}

(* No two rows of a gateway compare equal for the renderer as long as       *)
(* their names differ, so any order of the listing will do.                 *)
Toml(g) ==
    LET order == SetToSeq(Listed(g))
    IN  RenderBlocks([k \in DOMAIN order |-> ProxyOf(tunnels[order[k]])])

Routed(i) == ProxyOf(tunnels[i]).route

(* "One [[proxies]] block per enabled tunnel", of those with a route, when   *)
(* names stay different through sanitizing and requests do not overlap: the *)
(* uniqueness checks of the server are what keeps the renderer from         *)
(* dropping a tunnel.                                                        *)
SerialBlocks ==
    ~overlapped =>
        \A g \in Gateways : Len(Toml(g)) = Cardinality({i \in Listed(g) : Routed(i)})

=============================================================================
