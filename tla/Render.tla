-------------------------------- MODULE Render --------------------------------
(***************************************************************************)
(* The frpc.toml renderer of the agent as a function from the pulled       *)
(* tunnels to the [[proxies]] blocks of the file, and its reference         *)
(* definition.                                                              *)
(*                                                                         *)
(* Sanitized[name] is what sanitizeName makes of a name, Rank[name] the     *)
(* name's place in string order; of the other fields only their validity    *)
(* matters.                                                                 *)
(***************************************************************************)
EXTENDS Integers, Sequences, SequencesExt

CONSTANTS
    Sanitized,   \* [tunnel names -> what is left of the name, "" if nothing is]
    Rank         \* [tunnel names -> Nat], one to one

ASSUME NameAssumption ==
    /\ Rank \in [DOMAIN Sanitized -> Nat]
    /\ \A m, n \in DOMAIN Sanitized : Rank[m] = Rank[n] => m = n

Proxy ==
    [name : DOMAIN Sanitized,
     type : {"http", "tcp", "other"},
     target : BOOLEAN,   \* validHost(LocalIP) and a port in 1..65535
     route : BOOLEAN]    \* validDomain(Domain), a RemotePort in 1..65535

Valid(p) == p.target /\ p.type \in {"http", "tcp"} /\ p.route

\* Defect: the order of the list is kept.
AsListed(ps) == ps

(* sort.SliceStable by name. *)
Before(ps, i, j) ==
    \/ Rank[ps[i].name] < Rank[ps[j].name]
    \/ ps[i].name = ps[j].name /\ i < j

Preceding(ps, i) == {j \in DOMAIN ps : Before(ps, j, i)}

(* The k-th of the sorted list is the one with k - 1 before it. *)
Order(ps) ==
    [k \in DOMAIN ps |->
        CHOOSE i \in DOMAIN ps : Cardinality(Preceding(ps, i)) = k - 1]

SortedByName(ps) ==
    LET order == Order(ps) IN [k \in DOMAIN ps |-> ps[order[k]]]

Block(p) == [name |-> Sanitized[p.name], proxy |-> p]

(* The names that have a block already. *)
Seen(blocks) == {b.name : b \in ToSet(blocks)}

\* Defect: a name counts as seen although its proxy was skipped.
RenderSkipFirst(ps) ==
    LET sorted == SortedByName(ps)
        First(k) == \A j \in 1..(k - 1) : Sanitized[sorted[j].name] # Sanitized[sorted[k].name]
        Keep(k) == Sanitized[sorted[k].name] # "" /\ First(k) /\ Valid(sorted[k])
    IN  [k \in 1..Len(SelectSeq([i \in DOMAIN ps |-> i], Keep)) |->
            Block(sorted[SelectSeq([i \in DOMAIN ps |-> i], Keep)[k]])]

AddBlock(blocks, p) ==
    IF Sanitized[p.name] # "" /\ Sanitized[p.name] \notin Seen(blocks) /\ Valid(p)
    THEN Append(blocks, Block(p))
    ELSE blocks

RenderBlocks(ps) == FoldLeft(AddBlock, <<>>, SortedByName(ps))

-----------------------------------------------------------------------------
(* The reference: each sanitized name that some valid tunnel has is served *)
(* by exactly one of them, the first in name order.                        *)

Claims(ps, n) == {i \in DOMAIN ps : Sanitized[ps[i].name] = n /\ Valid(ps[i])}

Winner(ps, n) ==
    CHOOSE i \in Claims(ps, n) : \A j \in Claims(ps, n) \ {i} : Before(ps, i, j)

Winners(ps) ==
    {Winner(ps, n) : n \in {Sanitized[ps[i].name] :
        i \in {k \in DOMAIN ps : Valid(ps[k]) /\ Sanitized[ps[k].name] # ""}}}

=============================================================================
