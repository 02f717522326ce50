-------------------------- MODULE RenderListingProofs --------------------------
(* What the file serves, and when it stays the same: RenderListing, for      *)
(* lists of any length.                                                      *)
EXTENDS RenderListing, RenderProofs

(* The file is what the renderer makes of the tunnels.                      *)
Written == listing \in Seq(Proxy) /\ toml = RenderBlocks(listing)

LEMMA WrittenAlways == Spec => []Written
<1>1. Init => Written
  BY DEF Init, Written
<1>2. ASSUME Written, [Next]_vars PROVE Written'
  <2>1. ASSUME NEW p \in Proxy, Created(p) PROVE Written'
    BY <1>2, <2>1 DEF Created, Written
  <2>2. ASSUME Reordered PROVE Written'
    <3>1. PICK i \in 2..Len(listing) :
              listing' = [listing EXCEPT ![i] = listing[i - 1], ![i - 1] = listing[i]]
      BY <2>2 DEF Reordered
    <3>2. listing' \in Seq(Proxy)
      BY <1>2, <3>1 DEF Written
    <3> QED
      BY <2>2, <3>2 DEF Reordered, Written
  <2>3. CASE UNCHANGED vars
    BY <1>2, <2>3 DEF vars, Written
  <2> QED
    BY <1>2, <2>1, <2>2, <2>3 DEF Next
<1> QED
  BY <1>1, <1>2, PTL DEF Spec

(* Of each sanitized name the file serves the first valid tunnel in name    *)
(* order, each once, in that order, whatever the tunnels and their number.  *)
THEOREM ServesWinnersTheorem == Spec => []ServesWinners
<1>1. ASSUME Written PROVE ServesWinners
  <2>1. listing \in Seq(Proxy) /\ toml = RenderBlocks(listing)
    BY <1>1 DEF Written
  <2>2. PICK w \in [1..Len(toml) -> DOMAIN listing] :
              /\ DOMAIN toml = 1..Len(toml) /\ Len(toml) \in Nat
              /\ \A m \in DOMAIN toml : toml[m] = Block(listing[w[m]])
              /\ Winners(listing) = {w[m] : m \in DOMAIN toml}
              /\ \A l, m \in DOMAIN toml : l < m =>
                    /\ Before(listing, w[l], w[m])
                    /\ Sanitized[listing[w[l]].name] # Sanitized[listing[w[m]].name]
    BY <2>1, Rendered
  <2>3. \A p : Block(p).name = Sanitized[p.name] /\ Block(p).proxy = p
    BY DEF Block
  <2>4. \A m \in DOMAIN toml : toml[m].proxy = listing[w[m]] /\ toml[m].name = Sanitized[listing[w[m]].name]
    BY <2>2, <2>3
  <2>5. {b.proxy : b \in ToSet(toml)} = {listing[i] : i \in Winners(listing)}
    BY <2>2, <2>4 DEF ToSet
  <2>6. ASSUME NEW l \in DOMAIN toml, NEW m \in DOMAIN toml, l < m
        PROVE  Rank[toml[l].proxy.name] <= Rank[toml[m].proxy.name]
    <3>1. Before(listing, w[l], w[m]) /\ w[l] \in DOMAIN listing /\ w[m] \in DOMAIN listing
      BY <2>2, <2>6
    <3>2. \A i \in DOMAIN listing : Rank[listing[i].name] \in Nat
      <4>1. \A i \in DOMAIN listing : listing[i] \in Proxy
        BY <2>1
      <4>2. \A p \in Proxy : p.name \in DOMAIN Sanitized
        BY DEF Proxy
      <4> QED
        BY <4>1, <4>2, NameAssumption
    <3>3. Rank[listing[w[l]].name] <= Rank[listing[w[m]].name]
      BY <3>1, <3>2 DEF Before
    <3> QED
      BY <2>4, <3>3
  <2>7. \A l, m \in DOMAIN toml : l < m => toml[l].name # toml[m].name
    BY <2>2, <2>4
  <2> QED
    BY <2>5, <2>6, <2>7 DEF ServesWinners
<1> QED
  BY <1>1, WrittenAlways, PTL

(* As long as the raw names differ, the order in which the server lists     *)
(* the tunnels makes no difference.                                         *)
THEOREM StableTheorem == Spec => Stable
<1> DEFINE Same == (Len(listing') = Len(listing)
                    /\ \A i, j \in DOMAIN listing : i # j => listing[i].name # listing[j].name)
                      => toml' = toml
<1>1. ASSUME Written, Written', Next PROVE Same
  <2> SUFFICES ASSUME Len(listing') = Len(listing),
                      \A i, j \in DOMAIN listing : i # j => listing[i].name # listing[j].name
               PROVE  toml' = toml
    OBVIOUS
  <2>1. listing \in Seq(Proxy) /\ listing' \in Seq(Proxy)
    BY <1>1 DEF Written
  <2>2. ASSUME NEW p \in Proxy, Created(p) PROVE FALSE
    <3>1. Len(listing') = Len(listing) + 1 /\ Len(listing) \in Nat
      BY <2>1, <2>2 DEF Created
    <3> QED
      BY <3>1
  <2>3. PICK i \in 2..Len(listing) :
            listing' = [listing EXCEPT ![i] = listing[i - 1], ![i - 1] = listing[i]]
    BY <1>1, <2>2 DEF Next, Reordered
  <2> DEFINE D == DOMAIN listing
             f == [k \in D |-> IF k = i THEN i - 1 ELSE IF k = i - 1 THEN i ELSE k]
  <2>4. D = 1..Len(listing) /\ Len(listing) \in Nat
    BY <2>1
  <2>5. i \in D /\ i - 1 \in D /\ i # i - 1
    BY <2>4
  <2>6. DOMAIN listing' = D /\ \A k \in D : listing'[k] = listing[f[k]]
    BY <2>3, <2>5
  <2>7. f \in [D -> D] /\ \A k \in D : f[f[k]] = k
    BY <2>5
  <2> HIDE DEF f
  <2>8. SortedByName(listing') = SortedByName(listing)
    BY <2>1, <2>6, <2>7, Permuted
  <2> QED
    BY <1>1, <2>8 DEF Written, RenderBlocks
<1>2. ASSUME Written, Written', [Next]_vars PROVE [Same]_vars
  BY <1>1, <1>2
<1> QED
  BY <1>2, WrittenAlways, PTL DEF Spec, Stable

=============================================================================
