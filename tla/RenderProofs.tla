----------------------------- MODULE RenderProofs -----------------------------
(* The renderer against its reference definition, for lists of any length.  *)
(* The loop is a fold over a sequence; induction over it is done with sets  *)
(* of indices, of which every one that is not empty has a least element.    *)
EXTENDS Render, FiniteSetTheorems, WellFoundedInduction, TLAPS

-----------------------------------------------------------------------------
(* Induction.                                                              *)

(* A set of naturals that is not empty has a least element.                 *)
LEMMA Least ==
    ASSUME NEW T, T \subseteq Nat, T # {}
    PROVE  \E m \in T : \A k \in T : m <= k
<1>1. PICK m \in T : \A k \in T : ~(<<k, m>> \in OpToRel(<, Nat))
  BY NatLessThanWellFounded, WFMin
<1>2. \A k \in T : ~(k < m)
  BY <1>1 DEF OpToRel
<1> QED
  BY <1>2

(* A set that has 0, and with each number the next one, has all up to n.    *)
LEMMA Induct ==
    ASSUME NEW n \in Nat, NEW T, 0 \in T, \A k \in 0..(n - 1) : k \in T => k + 1 \in T
    PROVE  0..n \subseteq T
<1> SUFFICES ASSUME (0..n) \ T # {} PROVE FALSE
  OBVIOUS
<1> DEFINE U == (0..n) \ T
<1>1. U \subseteq Nat /\ U # {}
  OBVIOUS
<1> HIDE DEF U
<1>2. PICK m \in U : \A k \in U : m <= k
  BY <1>1, Least
<1>3. m \in 0..n /\ m \notin T /\ m # 0
  BY <1>2 DEF U
<1>4. m - 1 \in 0..(n - 1) /\ m - 1 \in 0..n /\ m - 1 \notin U
  BY <1>2, <1>3
<1> QED
  BY <1>3, <1>4 DEF U

(* The greatest of the numbers up to m is m.                                *)
LEMMA Greatest ==
    ASSUME NEW m \in Nat, NEW t, t \subseteq 1..m, m \in t
    PROVE  Max(t) = m
<1>1. \A y \in t : m >= y
  OBVIOUS
<1>2. \A x \in t : (\A y \in t : x >= y) => x = m
  OBVIOUS
<1> QED
  BY <1>1, <1>2 DEF Max

-----------------------------------------------------------------------------
(* The sort.                                                               *)

(* Indices of a list are ordered by name, then by place.                    *)
LEMMA BeforeOrder ==
    ASSUME NEW ps \in Seq(Proxy)
    PROVE  /\ \A i \in DOMAIN ps : ~Before(ps, i, i)
           /\ \A i, j \in DOMAIN ps : i # j => Before(ps, i, j) \/ Before(ps, j, i)
           /\ \A i, j, k \in DOMAIN ps : Before(ps, i, j) /\ Before(ps, j, k) => Before(ps, i, k)
<1>1. \A i \in DOMAIN ps : i \in Nat /\ ps[i] \in Proxy
  OBVIOUS
<1>2. \A p \in Proxy : p.name \in DOMAIN Sanitized
  BY DEF Proxy
<1>3. \A i \in DOMAIN ps : ps[i].name \in DOMAIN Sanitized /\ Rank[ps[i].name] \in Nat
  BY <1>1, <1>2, NameAssumption
<1>4. \A i, j \in DOMAIN ps : Rank[ps[i].name] = Rank[ps[j].name] => ps[i].name = ps[j].name
  BY <1>3, NameAssumption
<1> QED
  BY <1>1, <1>3, <1>4 DEF Before

(* The places of a list's indices.                                          *)
LEMMA Places ==
    ASSUME NEW ps \in Seq(Proxy)
    PROVE  LET place == [i \in DOMAIN ps |-> Cardinality(Preceding(ps, i)) + 1]
           IN  /\ place \in [DOMAIN ps -> DOMAIN ps]
               /\ \A i, j \in DOMAIN ps : Before(ps, i, j) => place[i] < place[j]
               /\ \A i, j \in DOMAIN ps : place[i] = place[j] => i = j
               /\ \A k \in DOMAIN ps : \E i \in DOMAIN ps : place[i] = k
<1> DEFINE D == DOMAIN ps
           place == [i \in D |-> Cardinality(Preceding(ps, i)) + 1]
<1>0. PICK n \in Nat : D = 1..n
  BY DEF Proxy
<1>1. IsFiniteSet(D) /\ Cardinality(D) = n
  BY <1>0, FS_Interval
<1>2. ASSUME NEW i \in D
      PROVE  /\ IsFiniteSet(Preceding(ps, i)) /\ Cardinality(Preceding(ps, i)) \in Nat
             /\ Cardinality(Preceding(ps, i)) < n
  <2>1. Preceding(ps, i) \subseteq D /\ i \notin Preceding(ps, i)
    BY BeforeOrder DEF Preceding
  <2>2. IsFiniteSet(D \ {i}) /\ Cardinality(D \ {i}) = n - 1
    BY <1>1, FS_RemoveElement
  <2>3. IsFiniteSet(Preceding(ps, i)) /\ Cardinality(Preceding(ps, i)) <= n - 1
    BY <2>1, <2>2, FS_Subset
  <2> QED
    BY <1>0, <2>3, FS_CardinalityType
<1>3. place \in [D -> D]
  BY <1>0, <1>2
<1>4. ASSUME NEW i \in D, NEW j \in D, Before(ps, i, j) PROVE place[i] < place[j]
  <2>1. Preceding(ps, i) \cup {i} \subseteq Preceding(ps, j) /\ i \notin Preceding(ps, i)
    BY <1>4, BeforeOrder DEF Preceding
  <2>2. Cardinality(Preceding(ps, i) \cup {i}) = Cardinality(Preceding(ps, i)) + 1
    BY <1>2, <2>1, FS_AddElement
  <2>3. Cardinality(Preceding(ps, i) \cup {i}) <= Cardinality(Preceding(ps, j))
    BY <1>2, <2>1, FS_Subset
  <2> QED
    BY <1>2, <2>2, <2>3
<1>5. ASSUME NEW i \in D, NEW j \in D, place[i] = place[j] PROVE i = j
  <2> HIDE DEF place
  <2>1. place[i] \in Nat /\ place[j] \in Nat
    BY <1>0, <1>3
  <2>2. ~Before(ps, i, j) /\ ~Before(ps, j, i)
    BY <1>4, <1>5, <2>1
  <2> QED
    BY <2>2, BeforeOrder
<1>6. place \in Surjection(D, D)
  <2>1. place \in Injection(D, D)
    BY <1>3, <1>5 DEF Injection, IsInjective
  <2> QED
    BY <1>1, <2>1, FS_Injection
<1>7. \A k \in D : \E i \in D : place[i] = k
  BY <1>6 DEF Surjection
<1> QED
  BY <1>3, <1>4, <1>5, <1>7

(* No two indices have the same number before them.                         *)
LEMMA OnePlace ==
    ASSUME NEW ps \in Seq(Proxy), NEW i \in DOMAIN ps, NEW j \in DOMAIN ps,
           Cardinality(Preceding(ps, i)) = Cardinality(Preceding(ps, j))
    PROVE  i = j
BY Places

(* The k-th index has k - 1 before it.                                      *)
LEMMA OrderIs ==
    ASSUME NEW ps \in Seq(Proxy), NEW k \in DOMAIN ps
    PROVE  Order(ps)[k] \in DOMAIN ps /\ Cardinality(Preceding(ps, Order(ps)[k])) = k - 1
<1> DEFINE D == DOMAIN ps
<1>1. D = 1..Len(ps) /\ Len(ps) \in Nat
  OBVIOUS
<1>2. IsFiniteSet(D)
  BY <1>1, FS_Interval
<1>3. \A i \in D : Cardinality(Preceding(ps, i)) \in Nat
  <2>1. \A i \in D : Preceding(ps, i) \in SUBSET D
    BY DEF Preceding
  <2> QED
    BY <1>2, <2>1, FS_Subset, FS_CardinalityType
<1>4. \E i \in D : Cardinality(Preceding(ps, i)) + 1 = k
  BY Places
<1>5. \E i \in D : Cardinality(Preceding(ps, i)) = k - 1
  BY <1>1, <1>3, <1>4
<1> QED
  BY <1>5 DEF Order

(* The sort orders all indices.                                             *)
LEMMA OrderSorts ==
    ASSUME NEW ps \in Seq(Proxy)
    PROVE  /\ Order(ps) \in [DOMAIN ps -> DOMAIN ps]
           /\ \A j, k \in DOMAIN ps : j < k => Before(ps, Order(ps)[j], Order(ps)[k])
           /\ \A i \in DOMAIN ps : \E k \in DOMAIN ps : Order(ps)[k] = i
<1> DEFINE D == DOMAIN ps
           before(i) == Cardinality(Preceding(ps, i))
           o == Order(ps)
<1>1. D = 1..Len(ps) /\ Len(ps) \in Nat
  OBVIOUS
<1>2. \A k \in D : o[k] \in D /\ before(o[k]) = k - 1
  BY OrderIs
<1>3. o = [k \in D |-> o[k]]
  BY DEF Order
<1>4. \A i, j \in D : Before(ps, i, j) => before(i) + 1 < before(j) + 1
  BY Places
<1>5. \A i \in D : before(i) + 1 \in D
  BY Places
<1>6. \A i, j \in D : before(i) = before(j) => i = j
  BY OnePlace
<1> HIDE DEF o, before
<1>7. ASSUME NEW j \in D, NEW k \in D, j < k PROVE Before(ps, o[j], o[k])
  <2>1. o[j] \in D /\ o[k] \in D /\ before(o[j]) = j - 1 /\ before(o[k]) = k - 1
    BY <1>2
  <2>2. o[j] # o[k] /\ ~(before(o[k]) + 1 < before(o[j]) + 1)
    BY <1>1, <1>7, <2>1
  <2>3. ~Before(ps, o[k], o[j])
    BY <1>4, <2>1, <2>2
  <2> QED
    BY <2>1, <2>2, <2>3, BeforeOrder
<1>8. ASSUME NEW i \in D PROVE \E k \in D : o[k] = i
  <2> DEFINE k == before(i) + 1
  <2>1. k \in D
    BY <1>5
  <2>2. o[k] \in D /\ before(o[k]) + 1 = before(i) + 1
    BY <1>1, <1>2, <2>1
  <2>3. before(o[k]) = before(i)
    BY <1>4, <1>5, <2>2, BeforeOrder
  <2> QED
    BY <1>6, <2>1, <2>2, <2>3
<1> QED
  BY <1>2, <1>3, <1>7, <1>8 DEF o

-----------------------------------------------------------------------------
(* The loop.                                                               *)

(* What FoldLeft iterates, over the subsets of a list's indices.            *)
Iterates(s, m, f) ==
    f = [t \in SUBSET (1..m) |->
            IF t = {} THEN <<>> ELSE AddBlock(f[t \ {Max(t)}], s[Max(t)])]

(* There is such a function.                                                *)
LEMMA IteratesExists ==
    ASSUME NEW s, NEW n \in Nat
    PROVE  \E f : Iterates(s, n, f)
<1> DEFINE T == {m \in 0..n : \E f : Iterates(s, m, f)}
<1>1. 0 \in T
  <2> DEFINE f == [t \in SUBSET (1..0) |-> <<>>]
  <2>1. SUBSET (1..0) = {{}}
    OBVIOUS
  <2>2. Iterates(s, 0, f)
    BY <2>1 DEF Iterates
  <2> QED
    BY <2>2
<1>2. ASSUME NEW m \in 0..(n - 1), m \in T PROVE m + 1 \in T
  <2>1. PICK f : Iterates(s, m, f)
    BY <1>2
  <2> DEFINE g == [t \in SUBSET (1..(m + 1)) |->
                     IF m + 1 \in t THEN AddBlock(f[t \ {m + 1}], s[m + 1]) ELSE f[t]]
  <2>2. \A t \in SUBSET (1..m) :
            f[t] = IF t = {} THEN <<>> ELSE AddBlock(f[t \ {Max(t)}], s[Max(t)])
    BY <2>1 DEF Iterates
  <2>3. ASSUME NEW t \in SUBSET (1..(m + 1))
        PROVE  g[t] = IF t = {} THEN <<>> ELSE AddBlock(g[t \ {Max(t)}], s[Max(t)])
    <3>1. CASE m + 1 \in t
      <4>1. Max(t) = m + 1 /\ t \ {m + 1} \in SUBSET (1..(m + 1)) /\ m + 1 \notin t \ {m + 1}
        <5>1. m + 1 \in Nat
          OBVIOUS
        <5>2. Max(t) = m + 1
          BY <3>1, <5>1, Greatest
        <5> QED
          BY <5>2
      <4>2. g[t \ {m + 1}] = f[t \ {m + 1}]
        BY <4>1
      <4>3. g[t] = AddBlock(f[t \ {m + 1}], s[m + 1]) /\ t # {}
        BY <3>1
      <4> QED
        BY <4>1, <4>2, <4>3
    <3>2. CASE m + 1 \notin t
      <4>1. t \in SUBSET (1..m)
        BY <3>2
      <4>2. t \ {Max(t)} \in SUBSET (1..(m + 1)) /\ m + 1 \notin t \ {Max(t)}
        BY <3>2
      <4>3. g[t] = f[t] /\ g[t \ {Max(t)}] = f[t \ {Max(t)}]
        BY <3>2, <4>2
      <4> QED
        BY <2>2, <4>1, <4>3
    <3> QED
      BY <3>1, <3>2
  <2>4. Iterates(s, m + 1, g)
    <3> HIDE DEF g
    <3>1. g = [t \in SUBSET (1..(m + 1)) |-> g[t]]
      BY DEF g
    <3>2. [t \in SUBSET (1..(m + 1)) |-> g[t]]
            = [t \in SUBSET (1..(m + 1)) |->
                 IF t = {} THEN <<>> ELSE AddBlock(g[t \ {Max(t)}], s[Max(t)])]
      BY <2>3
    <3> QED
      BY <3>1, <3>2 DEF Iterates
  <2> QED
    BY <2>4
<1> HIDE DEF T
<1>3. 0..n \subseteq T
  BY <1>1, <1>2, Induct
<1> QED
  BY <1>3 DEF T

(* The blocks after each turn of the loop.                                  *)
LEMMA Loop ==
    ASSUME NEW s, NEW n \in Nat, DOMAIN s = 1..n
    PROVE  \E b : /\ b[0] = <<>> /\ FoldLeft(AddBlock, <<>>, s) = b[n]
                  /\ \A k \in 1..n : b[k] = AddBlock(b[k - 1], s[k])
<1> DEFINE iter[t \in SUBSET (DOMAIN s)] ==
             IF t = {} THEN <<>> ELSE AddBlock(iter[t \ {Max(t)}], s[Max(t)])
<1>1. FoldLeft(AddBlock, <<>>, s) = iter[DOMAIN s]
  BY DEF FoldLeft, MapThenFoldSet
<1>2. iter = CHOOSE f : Iterates(s, n, f)
  BY DEF Iterates
<1> HIDE DEF iter
<1>3. Iterates(s, n, iter)
  BY <1>2, IteratesExists
<1>4. \A t \in SUBSET (1..n) :
          iter[t] = IF t = {} THEN <<>> ELSE AddBlock(iter[t \ {Max(t)}], s[Max(t)])
  BY <1>3 DEF Iterates
<1> DEFINE b == [k \in 0..n |-> iter[1..k]]
<1>5. b[0] = <<>>
  <2>1. 1..0 = {} /\ 1..0 \in SUBSET (1..n) /\ 0 \in 0..n
    OBVIOUS
  <2>2. iter[1..0] = <<>>
    BY <1>4, <2>1
  <2> QED
    BY <2>1, <2>2
<1>6. ASSUME NEW k \in 1..n PROVE b[k] = AddBlock(b[k - 1], s[k])
  <2>1. Max(1..k) = k
    BY Greatest
  <2>2. (1..k) \ {k} = 1..(k - 1) /\ 1..k # {} /\ 1..k \in SUBSET (1..n) /\ k - 1 \in 0..n
    OBVIOUS
  <2> QED
    BY <1>4, <2>1, <2>2
<1>7. b[n] = iter[DOMAIN s]
  OBVIOUS
<1> HIDE DEF b
<1> QED
  BY <1>1, <1>5, <1>6, <1>7

(* Which of a list's tunnels get a block: the first valid ones of their     *)
(* sanitized names.                                                         *)
Firsts(s) ==
    {k \in DOMAIN s :
        /\ Valid(s[k]) /\ Sanitized[s[k].name] # ""
        /\ \A j \in 1..(k - 1) : ~(Valid(s[j]) /\ Sanitized[s[j].name] = Sanitized[s[k].name])}

(* After k turns, "kept" says of which tunnels the blocks are.              *)
Keeps(s, k, blocks, kept) ==
    /\ blocks \in Seq({Block(p) : p \in Proxy})
    /\ kept \in [1..Len(blocks) -> Firsts(s) \cap (1..k)]
    /\ \A m \in 1..Len(blocks) : blocks[m] = Block(s[kept[m]])
    /\ \A l, m \in 1..Len(blocks) : l < m => kept[l] < kept[m]
    /\ \A f \in Firsts(s) \cap (1..k) : \E m \in 1..Len(blocks) : kept[m] = f

(* The names seen are those of the blocks' tunnels.                         *)
LEMMA SeenNames ==
    ASSUME NEW s, NEW k, NEW blocks, NEW kept, Keeps(s, k, blocks, kept)
    PROVE  Seen(blocks) = {Sanitized[s[kept[m]].name] : m \in 1..Len(blocks)}
<1>1. DOMAIN blocks = 1..Len(blocks)
  BY DEF Keeps
<1>2. \A m \in 1..Len(blocks) : blocks[m] = Block(s[kept[m]])
  BY DEF Keeps
<1>3. \A p : Block(p).name = Sanitized[p.name]
  BY DEF Block
<1>4. \A m \in 1..Len(blocks) : blocks[m].name = Sanitized[s[kept[m]].name]
  BY <1>2, <1>3
<1> QED
  BY <1>1, <1>4 DEF Seen, ToSet

(* A turn adds its tunnel if it is one of the first, and only then.         *)
LEMMA Turn ==
    ASSUME NEW s \in Seq(Proxy), NEW k \in 1..Len(s), NEW blocks, NEW kept,
           Keeps(s, k - 1, blocks, kept)
    PROVE  \E next : Keeps(s, k, AddBlock(blocks, s[k]), next)
<1>1. DOMAIN s = 1..Len(s) /\ Len(s) \in Nat /\ k \in Nat /\ s[k] \in Proxy
  OBVIOUS
<1>2. /\ blocks \in Seq({Block(p) : p \in Proxy}) /\ Len(blocks) \in Nat
      /\ kept \in [1..Len(blocks) -> Firsts(s) \cap (1..(k - 1))]
  BY DEF Keeps
<1>3. Seen(blocks) = {Sanitized[s[kept[m]].name] : m \in 1..Len(blocks)}
  BY SeenNames
<1> DEFINE added == Sanitized[s[k].name] # "" /\ Sanitized[s[k].name] \notin Seen(blocks) /\ Valid(s[k])
<1>4. ASSUME added PROVE k \in Firsts(s)
  <2> DEFINE T == {j \in 1..(k - 1) : Valid(s[j]) /\ Sanitized[s[j].name] = Sanitized[s[k].name]}
  <2> SUFFICES ASSUME T # {} PROVE FALSE
    BY <1>1, <1>4 DEF Firsts
  <2>1. T \subseteq Nat
    BY <1>1
  <2>2. PICK j \in T : \A l \in T : j <= l
    <3> HIDE DEF T
    <3> QED
      BY <2>1, Least
  <2>3. j \in 1..(k - 1) /\ Valid(s[j]) /\ Sanitized[s[j].name] = Sanitized[s[k].name]
    BY <2>2
  <2>4. ASSUME NEW l \in 1..(j - 1) PROVE ~(Valid(s[l]) /\ Sanitized[s[l].name] = Sanitized[s[j].name])
    <3>1. l \in 1..(k - 1) /\ ~(j <= l)
      BY <1>1, <2>3
    <3>2. l \notin T
      BY <2>2, <3>1
    <3> QED
      BY <2>3, <3>1, <3>2
  <2>5. j \in DOMAIN s
    BY <1>1, <2>3
  <2>6. j \in Firsts(s)
    BY <1>4, <2>3, <2>4, <2>5 DEF Firsts
  <2>7. PICK m \in 1..Len(blocks) : kept[m] = j
    BY <2>3, <2>6 DEF Keeps
  <2> QED
    BY <1>3, <1>4, <2>3, <2>7
<1>5. ASSUME k \in Firsts(s) PROVE added
  <2>1. Valid(s[k]) /\ Sanitized[s[k].name] # ""
    BY <1>5 DEF Firsts
  <2>2. ASSUME NEW m \in 1..Len(blocks) PROVE Sanitized[s[kept[m]].name] # Sanitized[s[k].name]
    <3>1. kept[m] \in Firsts(s) /\ kept[m] \in 1..(k - 1)
      BY <1>2
    <3>2. Valid(s[kept[m]])
      BY <3>1 DEF Firsts
    <3> QED
      BY <1>5, <3>1, <3>2 DEF Firsts
  <2> QED
    BY <1>3, <2>1, <2>2
<1>6. CASE added
  <2> DEFINE n == Len(blocks)
             more == Append(blocks, Block(s[k]))
             next == [m \in 1..(n + 1) |-> IF m = n + 1 THEN k ELSE kept[m]]
  <2>1. AddBlock(blocks, s[k]) = more
    BY <1>6 DEF AddBlock
  <2>2. Block(s[k]) \in {Block(p) : p \in Proxy}
    BY <1>1
  <2>3. /\ more \in Seq({Block(p) : p \in Proxy}) /\ Len(more) = n + 1
        /\ more[n + 1] = Block(s[k]) /\ \A m \in 1..n : more[m] = blocks[m]
    BY <1>2, <2>2
  <2>4. k \in Firsts(s)
    BY <1>4, <1>6
  <2>5. n \in Nat /\ \A m \in 1..(n + 1) : m \in 1..n \/ m = n + 1
    BY <1>2
  <2>6. \A m \in 1..n : next[m] = kept[m] /\ kept[m] \in Firsts(s) /\ kept[m] \in 1..(k - 1)
    BY <1>2, <2>5
  <2>7. next[n + 1] = k /\ n + 1 \in 1..(n + 1)
    BY <2>5
  <2>8. next \in [1..(n + 1) -> Firsts(s) \cap (1..k)]
    <3>1. \A m \in 1..(n + 1) : next[m] \in Firsts(s) /\ next[m] \in 1..k
      <4> HIDE DEF next
      <4>1. 1..(k - 1) \subseteq 1..k /\ k \in 1..k
        BY <1>1
      <4> QED
        BY <2>4, <2>5, <2>6, <2>7, <4>1
    <3> QED
      BY <3>1
  <2> HIDE DEF next, more
  <2>9. \A m \in 1..(n + 1) : more[m] = Block(s[next[m]])
    BY <2>3, <2>5, <2>6, <2>7 DEF Keeps
  <2>10. ASSUME NEW l \in 1..(n + 1), NEW m \in 1..(n + 1), l < m PROVE next[l] < next[m]
    <3>1. l \in 1..n
      BY <2>5, <2>10
    <3>2. CASE m \in 1..n
      BY <2>6, <2>10, <3>1, <3>2 DEF Keeps
    <3>3. CASE m = n + 1
      BY <1>1, <2>6, <2>7, <3>1, <3>3
    <3> QED
      BY <2>5, <3>2, <3>3
  <2>11. ASSUME NEW f \in Firsts(s) \cap (1..k) PROVE \E m \in 1..(n + 1) : next[m] = f
    <3>1. CASE f = k
      BY <2>7, <3>1
    <3>2. CASE f # k
      <4>1. f \in Firsts(s) \cap (1..(k - 1))
        BY <1>1, <3>2
      <4>2. PICK m \in 1..n : kept[m] = f
        BY <4>1 DEF Keeps
      <4>3. m \in 1..(n + 1)
        BY <2>5
      <4> QED
        BY <2>6, <4>2, <4>3
    <3> QED
      BY <3>1, <3>2
  <2>12. Keeps(s, k, more, next)
    BY <2>3, <2>8, <2>9, <2>10, <2>11 DEF Keeps
  <2> QED
    BY <2>1, <2>12
<1>7. CASE ~added
  <2>1. AddBlock(blocks, s[k]) = blocks
    BY <1>7 DEF AddBlock
  <2>2. Firsts(s) \cap (1..k) = Firsts(s) \cap (1..(k - 1))
    <3>1. k \notin Firsts(s)
      BY <1>5, <1>7
    <3>2. \A f \in 1..k : f # k => f \in 1..(k - 1)
      BY <1>1
    <3>3. 1..(k - 1) \subseteq 1..k
      BY <1>1
    <3> QED
      BY <3>1, <3>2, <3>3
  <2>3. Keeps(s, k, blocks, kept)
    BY <2>2 DEF Keeps
  <2> QED
    BY <2>1, <2>3
<1> QED
  BY <1>6, <1>7

(* The loop makes a block of each of the first, in the list's order.        *)
LEMMA Folded ==
    ASSUME NEW s \in Seq(Proxy)
    PROVE  \E kept : Keeps(s, Len(s), FoldLeft(AddBlock, <<>>, s), kept)
<1> DEFINE n == Len(s)
<1>1. n \in Nat /\ DOMAIN s = 1..n
  OBVIOUS
<1>2. PICK b : /\ b[0] = <<>> /\ FoldLeft(AddBlock, <<>>, s) = b[n]
               /\ \A k \in 1..n : b[k] = AddBlock(b[k - 1], s[k])
  BY <1>1, Loop
<1> DEFINE T == {k \in 0..n : \E kept : Keeps(s, k, b[k], kept)}
<1>3. 0 \in T
  <2> DEFINE kept == [m \in 1..0 |-> 0]
  <2>1. /\ b[0] \in Seq({Block(p) : p \in Proxy}) /\ Len(b[0]) = 0 /\ 1..0 = {} /\ 0 \in 0..n
    BY <1>1, <1>2
  <2>2. Keeps(s, 0, b[0], kept)
    BY <2>1 DEF Keeps
  <2> QED
    BY <2>1, <2>2
<1>4. ASSUME NEW k \in 0..(n - 1), k \in T PROVE k + 1 \in T
  <2>1. k + 1 \in 1..n /\ (k + 1) - 1 = k /\ k + 1 \in 0..n
    BY <1>1
  <2>2. PICK kept : Keeps(s, (k + 1) - 1, b[k], kept)
    BY <1>4, <2>1
  <2>3. \E next : Keeps(s, k + 1, AddBlock(b[k], s[k + 1]), next)
    BY <2>1, <2>2, Turn
  <2>4. b[k + 1] = AddBlock(b[k], s[k + 1])
    BY <1>2, <2>1
  <2> QED
    BY <2>1, <2>3, <2>4
<1> HIDE DEF T
<1>5. 0..n \subseteq T
  BY <1>1, <1>3, <1>4, Induct
<1>6. n \in T
  BY <1>1, <1>5
<1> QED
  BY <1>2, <1>6 DEF T

-----------------------------------------------------------------------------
(* The result.                                                             *)

(* Of the tunnels that claim a name, the one before all others wins it.     *)
LEMMA IsWinner ==
    ASSUME NEW ps \in Seq(Proxy), NEW n, NEW i \in Claims(ps, n),
           \A j \in Claims(ps, n) \ {i} : Before(ps, i, j)
    PROVE  Winner(ps, n) = i
<1>1. ASSUME NEW h \in Claims(ps, n), \A j \in Claims(ps, n) \ {h} : Before(ps, h, j)
      PROVE  h = i
  <2> SUFFICES ASSUME h # i PROVE FALSE
    OBVIOUS
  <2>1. h \in DOMAIN ps /\ i \in DOMAIN ps
    BY DEF Claims
  <2>2. Before(ps, h, i) /\ Before(ps, i, h)
    BY <1>1
  <2> QED
    BY <2>1, <2>2, BeforeOrder
<1> QED
  BY <1>1 DEF Winner

(* The sorted list is a list of the same tunnels.                           *)
LEMMA Sorted ==
    ASSUME NEW ps \in Seq(Proxy)
    PROVE  /\ SortedByName(ps) \in Seq(Proxy)
           /\ DOMAIN SortedByName(ps) = DOMAIN ps
           /\ \A k \in DOMAIN ps : SortedByName(ps)[k] = ps[Order(ps)[k]]
<1>1. Order(ps) \in [DOMAIN ps -> DOMAIN ps]
  BY OrderSorts
<1>2. DOMAIN ps = 1..Len(ps) /\ Len(ps) \in Nat
  OBVIOUS
<1>3. \A i \in DOMAIN ps : ps[i] \in Proxy
  OBVIOUS
<1>4. SortedByName(ps) = [k \in 1..Len(ps) |-> ps[Order(ps)[k]]]
  BY <1>2 DEF SortedByName
<1>5. \A k \in 1..Len(ps) : ps[Order(ps)[k]] \in Proxy
  BY <1>1, <1>2, <1>3
<1> QED
  BY <1>2, <1>4, <1>5

(* The winners are the first ones of the sorted list.                       *)
LEMMA WinnersAreFirst ==
    ASSUME NEW ps \in Seq(Proxy)
    PROVE  Winners(ps) = {Order(ps)[k] : k \in Firsts(SortedByName(ps))}
<1> DEFINE D == DOMAIN ps
           s == SortedByName(ps)
           o == Order(ps)
           San(i) == Sanitized[ps[i].name]
<1>1. /\ o \in [D -> D]
      /\ \A j, k \in D : j < k => Before(ps, o[j], o[k])
      /\ \A i \in D : \E k \in D : o[k] = i
  BY OrderSorts
<1>2. DOMAIN s = D /\ \A k \in D : s[k] = ps[o[k]]
  BY Sorted
<1>3. D = 1..Len(ps) /\ Len(ps) \in Nat
  OBVIOUS
<1> HIDE DEF s, o
<1>4. ASSUME NEW n, NEW k \in D, o[k] \in Claims(ps, n),
             \A j \in 1..(k - 1) : o[j] \notin Claims(ps, n)
      PROVE  Winner(ps, n) = o[k]
  <2>1. ASSUME NEW i \in Claims(ps, n) \ {o[k]} PROVE Before(ps, o[k], i)
    <3>1. PICK l \in D : o[l] = i
      BY <1>1 DEF Claims
    <3>2. l \notin 1..(k - 1) /\ l # k
      BY <1>4, <3>1
    <3>3. k < l
      BY <1>3, <3>2
    <3> QED
      BY <1>1, <3>1, <3>3
  <2> QED
    BY <1>4, <2>1, IsWinner
<1>5. ASSUME NEW k \in Firsts(s)
      PROVE  k \in D /\ Valid(ps[o[k]]) /\ San(o[k]) # "" /\ Winner(ps, San(o[k])) = o[k]
  <2>1. k \in D /\ Valid(s[k]) /\ Sanitized[s[k].name] # ""
    BY <1>2 DEF Firsts
  <2>2. o[k] \in D /\ s[k] = ps[o[k]]
    BY <1>1, <1>2, <2>1
  <2>3. o[k] \in Claims(ps, San(o[k]))
    BY <2>1, <2>2 DEF Claims
  <2>4. ASSUME NEW j \in 1..(k - 1) PROVE o[j] \notin Claims(ps, San(o[k]))
    <3>1. j \in D
      <4>1. k \in 1..Len(ps) /\ Len(ps) \in Nat
        BY <1>3, <2>1
      <4>2. j \in 1..Len(ps)
        BY <4>1
      <4> QED
        BY <1>3, <4>2
    <3>2. s[j] = ps[o[j]]
      BY <1>2, <3>1
    <3>3. ~(Valid(s[j]) /\ Sanitized[s[j].name] = Sanitized[s[k].name])
      BY DEF Firsts
    <3> QED
      BY <2>2, <3>2, <3>3 DEF Claims
  <2>5. Winner(ps, San(o[k])) = o[k]
    BY <1>4, <2>1, <2>3, <2>4
  <2> QED
    BY <2>1, <2>2, <2>5
<1>6. ASSUME NEW i \in D, Valid(ps[i]), San(i) # ""
      PROVE  \E k \in Firsts(s) : Winner(ps, San(i)) = o[k]
  <2> DEFINE T == {k \in D : o[k] \in Claims(ps, San(i))}
  <2>1. i \in Claims(ps, San(i))
    BY <1>6 DEF Claims
  <2>2. T # {} /\ T \subseteq Nat
    BY <1>1, <1>3, <2>1
  <2>3. PICK k \in T : \A j \in T : k <= j
    <3> HIDE DEF T
    <3> QED
      BY <2>2, Least
  <2>4. k \in D /\ o[k] \in Claims(ps, San(i))
    BY <2>3
  <2>5. ASSUME NEW j \in 1..(k - 1) PROVE j \in D /\ o[j] \notin Claims(ps, San(i))
    <3>1. j \in D /\ ~(k <= j)
      BY <1>3, <2>4
    <3> QED
      BY <2>3, <3>1
  <2>6. Winner(ps, San(i)) = o[k]
    BY <1>4, <2>4, <2>5
  <2>7. o[k] \in D /\ Valid(ps[o[k]]) /\ San(o[k]) = San(i)
    BY <2>4 DEF Claims
  <2>8. s[k] = ps[o[k]] /\ k \in DOMAIN s
    BY <1>2, <2>4
  <2>9. ASSUME NEW j \in 1..(k - 1)
        PROVE  ~(Valid(s[j]) /\ Sanitized[s[j].name] = Sanitized[s[k].name])
    <3>1. j \in D /\ o[j] \in D /\ o[j] \notin Claims(ps, San(i))
      BY <1>1, <2>5
    <3>2. s[j] = ps[o[j]]
      BY <1>2, <3>1
    <3> QED
      BY <2>7, <2>8, <3>1, <3>2 DEF Claims
  <2>10. k \in Firsts(s)
    BY <1>6, <2>7, <2>8, <2>9 DEF Firsts
  <2> QED
    BY <2>6, <2>10
<1>7. Winners(ps) = {Winner(ps, San(i)) : i \in {k \in D : Valid(ps[k]) /\ San(k) # ""}}
  BY DEF Winners
<1>8. ASSUME NEW k \in Firsts(s) PROVE o[k] \in Winners(ps)
  <2>1. k \in D /\ o[k] \in D /\ Valid(ps[o[k]]) /\ San(o[k]) # "" /\ Winner(ps, San(o[k])) = o[k]
    BY <1>1, <1>5
  <2>2. \A i \in D : Valid(ps[i]) /\ San(i) # "" => Winner(ps, San(i)) \in Winners(ps)
    BY <1>7
  <2> QED
    BY <2>1, <2>2
<1>9. ASSUME NEW i \in Winners(ps) PROVE \E k \in Firsts(s) : i = o[k]
  BY <1>6, <1>7
<1>10. Winners(ps) = {o[k] : k \in Firsts(s)}
  BY <1>8, <1>9
<1> QED
  BY <1>10 DEF o, s

(* What the renderer writes: a block of each winner, in the order of their  *)
(* names, no two under the same name.                                       *)
LEMMA Rendered ==
    ASSUME NEW ps \in Seq(Proxy)
    PROVE  \E w \in [1..Len(RenderBlocks(ps)) -> DOMAIN ps] :
              /\ DOMAIN RenderBlocks(ps) = 1..Len(RenderBlocks(ps)) /\ Len(RenderBlocks(ps)) \in Nat
              /\ \A m \in DOMAIN RenderBlocks(ps) : RenderBlocks(ps)[m] = Block(ps[w[m]])
              /\ Winners(ps) = {w[m] : m \in DOMAIN RenderBlocks(ps)}
              /\ \A l, m \in DOMAIN RenderBlocks(ps) : l < m =>
                    /\ Before(ps, w[l], w[m])
                    /\ Sanitized[ps[w[l]].name] # Sanitized[ps[w[m]].name]
<1> DEFINE D == DOMAIN ps
           s == SortedByName(ps)
           o == Order(ps)
           blocks == RenderBlocks(ps)
<1>1. o \in [D -> D] /\ \A j, k \in D : j < k => Before(ps, o[j], o[k])
  BY OrderSorts
<1>2. s \in Seq(Proxy) /\ DOMAIN s = D /\ \A k \in D : s[k] = ps[o[k]]
  BY Sorted
<1>3. D = 1..Len(ps) /\ Len(ps) \in Nat /\ Len(s) = Len(ps)
  BY <1>2
<1>4. Winners(ps) = {o[k] : k \in Firsts(s)}
  BY WinnersAreFirst
<1>5. blocks = FoldLeft(AddBlock, <<>>, s)
  BY DEF RenderBlocks
<1> HIDE DEF s, o, blocks
<1>6. PICK kept : Keeps(s, Len(s), blocks, kept)
  BY <1>2, <1>5, Folded
<1>7. DOMAIN blocks = 1..Len(blocks) /\ Len(blocks) \in Nat
  BY <1>6 DEF Keeps
<1>8. \A m \in 1..Len(blocks) : kept[m] \in Firsts(s) /\ kept[m] \in D
  BY <1>3, <1>6 DEF Keeps
<1> DEFINE w == [m \in 1..Len(blocks) |-> o[kept[m]]]
<1>9. w \in [1..Len(blocks) -> D] /\ \A m \in 1..Len(blocks) : w[m] = o[kept[m]] /\ s[kept[m]] = ps[w[m]]
  BY <1>1, <1>2, <1>8
<1> HIDE DEF w
<1>10. \A m \in 1..Len(blocks) : blocks[m] = Block(ps[w[m]])
  BY <1>6, <1>9 DEF Keeps
<1>11. Winners(ps) = {w[m] : m \in 1..Len(blocks)}
  <2>1. \A k \in Firsts(s) : \E m \in 1..Len(blocks) : kept[m] = k
    <3>1. Firsts(s) \subseteq 1..Len(s)
      BY <1>2, <1>3 DEF Firsts
    <3> QED
      BY <1>6, <3>1 DEF Keeps
  <2>2. ASSUME NEW k \in Firsts(s) PROVE \E m \in 1..Len(blocks) : o[k] = w[m]
    BY <1>9, <2>1
  <2>3. ASSUME NEW m \in 1..Len(blocks) PROVE \E k \in Firsts(s) : w[m] = o[k]
    BY <1>8, <1>9
  <2> QED
    BY <1>4, <2>2, <2>3
<1>12. ASSUME NEW l \in 1..Len(blocks), NEW m \in 1..Len(blocks), l < m
       PROVE  Before(ps, w[l], w[m]) /\ Sanitized[ps[w[l]].name] # Sanitized[ps[w[m]].name]
  <2>1. kept[l] < kept[m] /\ kept[l] \in D /\ kept[m] \in D
    BY <1>6, <1>8, <1>12 DEF Keeps
  <2>2. Before(ps, w[l], w[m])
    BY <1>1, <1>9, <2>1
  <2>3. kept[l] \in 1..(kept[m] - 1)
    BY <1>3, <2>1
  <2>4. Valid(s[kept[l]])
    BY <1>8 DEF Firsts
  <2>5. Sanitized[s[kept[l]].name] # Sanitized[s[kept[m]].name]
    BY <1>8, <2>3, <2>4 DEF Firsts
  <2> QED
    BY <1>9, <2>2, <2>5
<1>13. \E f \in [1..Len(blocks) -> D] :
              /\ DOMAIN blocks = 1..Len(blocks) /\ Len(blocks) \in Nat
              /\ \A m \in DOMAIN blocks : blocks[m] = Block(ps[f[m]])
              /\ Winners(ps) = {f[m] : m \in DOMAIN blocks}
              /\ \A l, m \in DOMAIN blocks : l < m =>
                    /\ Before(ps, f[l], f[m])
                    /\ Sanitized[ps[f[l]].name] # Sanitized[ps[f[m]].name]
  <2>1. w \in [1..Len(blocks) -> D]
    BY <1>9
  <2>2. /\ DOMAIN blocks = 1..Len(blocks) /\ Len(blocks) \in Nat
        /\ \A m \in DOMAIN blocks : blocks[m] = Block(ps[w[m]])
        /\ Winners(ps) = {w[m] : m \in DOMAIN blocks}
    BY <1>7, <1>10, <1>11
  <2>3. \A l, m \in DOMAIN blocks : l < m =>
            /\ Before(ps, w[l], w[m])
            /\ Sanitized[ps[w[l]].name] # Sanitized[ps[w[m]].name]
    BY <1>7, <1>12
  <2> QED
    BY <2>1, <2>2, <2>3
<1> QED
  BY <1>13 DEF blocks

(* A list whose names differ sorts to the same list in whatever order it    *)
(* comes.                                                                   *)
LEMMA Permuted ==
    ASSUME NEW ps \in Seq(Proxy), NEW qs \in Seq(Proxy),
           NEW f \in [DOMAIN ps -> DOMAIN ps],
           \A i \in DOMAIN ps : f[f[i]] = i,
           DOMAIN qs = DOMAIN ps, \A i \in DOMAIN ps : qs[i] = ps[f[i]],
           \A i, j \in DOMAIN ps : i # j => ps[i].name # ps[j].name
    PROVE  SortedByName(qs) = SortedByName(ps)
<1> DEFINE D == DOMAIN ps
<1>1. \A i, j \in D : Before(qs, i, j) <=> Before(ps, f[i], f[j])
  <2>1. \A i, j \in D : i # j => f[i] # f[j]
    OBVIOUS
  <2>2. \A i, j \in D : Before(ps, i, j) <=> Rank[ps[i].name] < Rank[ps[j].name]
    <3>1. \A i \in D : i \in Nat
      OBVIOUS
    <3> QED
      BY <3>1 DEF Before
  <2>3. \A i, j \in D : Before(qs, i, j) <=> Rank[ps[f[i]].name] < Rank[ps[f[j]].name]
    <3>1. \A i, j \in D : i # j => qs[i].name # qs[j].name
      BY <2>1
    <3>2. \A i \in D : i \in Nat
      OBVIOUS
    <3> QED
      BY <3>1, <3>2 DEF Before
  <2> QED
    BY <2>2, <2>3
<1>2. D = 1..Len(ps) /\ Len(ps) \in Nat
  OBVIOUS
<1>3. IsFiniteSet(D)
  BY <1>2, FS_Interval
<1>4. ASSUME NEW i \in D PROVE Cardinality(Preceding(qs, i)) = Cardinality(Preceding(ps, f[i]))
  <2> DEFINE g == [j \in Preceding(qs, i) |-> f[j]]
  <2>1. \A j \in Preceding(qs, i) : j \in D /\ g[j] = f[j] /\ f[j] \in Preceding(ps, f[i])
    BY <1>1 DEF Preceding
  <2>2. \A j \in Preceding(ps, f[i]) : f[j] \in Preceding(qs, i) /\ g[f[j]] = j
    <3>1. \A j \in Preceding(ps, f[i]) : j \in D /\ f[j] \in D /\ f[f[j]] = j /\ Before(ps, f[f[j]], f[i])
      BY DEF Preceding
    <3>2. \A j \in Preceding(ps, f[i]) : f[j] \in Preceding(qs, i)
      BY <1>1, <3>1 DEF Preceding
    <3> QED
      BY <3>1, <3>2
  <2>3. g \in [Preceding(qs, i) -> Preceding(ps, f[i])]
    BY <2>1
  <2>4. \A j, k \in Preceding(qs, i) : g[j] = g[k] => j = k
    BY <2>1
  <2> HIDE DEF g
  <2>5. g \in Injection(Preceding(qs, i), Preceding(ps, f[i]))
    BY <2>3, <2>4 DEF Injection, IsInjective
  <2>6. g \in Surjection(Preceding(qs, i), Preceding(ps, f[i]))
    BY <2>2, <2>3 DEF Surjection
  <2>7. ExistsBijection(Preceding(qs, i), Preceding(ps, f[i]))
    BY <2>5, <2>6 DEF ExistsBijection, Bijection
  <2>8. IsFiniteSet(Preceding(qs, i))
    BY <1>3, FS_Subset DEF Preceding
  <2> QED
    BY <2>7, <2>8, FS_Bijection
<1>5. ASSUME NEW k \in D PROVE ps[Order(ps)[k]] = qs[Order(qs)[k]]
  <2> DEFINE x == Order(ps)[k]
             y == Order(qs)[k]
  <2>1. x \in D /\ y \in D
    BY OrderSorts
  <2>2. Cardinality(Preceding(qs, y)) = k - 1 /\ Cardinality(Preceding(ps, x)) = k - 1
    BY OrderIs
  <2>3. f[y] \in D /\ Cardinality(Preceding(ps, f[y])) = k - 1
    BY <1>4, <2>1, <2>2
  <2>4. x = f[y]
    BY <2>1, <2>2, <2>3, OnePlace
  <2> QED
    BY <2>1, <2>4
<1> QED
  BY <1>5 DEF SortedByName

=============================================================================
