---------------------------- MODULE UiaTreeProofs ----------------------------
(* Theorems about how the Windows adapter reads a tree of controls: what pages  *)
(* show of a region, whatever the trees, the limits and what changes between     *)
(* two reads.                                                                    *)
(*                                                                               *)
(* A region has an order, breadth first, that no page depends on; a page that    *)
(* starts at an offset is on its track after every round of its loop.            *)
EXTENDS UiaTree, FiniteSetTheorems, SequenceTheorems, WellFoundedInduction, TLAPS

-----------------------------------------------------------------------------
(* Numbers. *)

LEMMA SumWithin ==
    ASSUME NEW a \in Nat, NEW b \in Nat, NEW n \in Nat, a + b <= n, NEW i \in 1 .. b
    PROVE  a + i \in 1 .. n
OBVIOUS

LEMMA OneBefore ==
    ASSUME NEW n \in Nat, NEW k \in 1 .. n
    PROVE  k - 1 \in 0 .. n /\ k = (k - 1) + 1 /\ k - 1 < n
OBVIOUS

LEMMA LastOrBefore ==
    ASSUME NEW n \in Nat, NEW i \in 1 .. n + 1
    PROVE  i = n + 1 \/ i \in 1 .. n
OBVIOUS

LEMMA SameBefore ==
    ASSUME NEW a \in Nat, NEW d \in Nat, a + 1 = d + 1
    PROVE  a = d
OBVIOUS

LEMMA OneMore ==
    ASSUME NEW x \in Nat, NEW y \in Nat, NEW k \in Nat, x <= y + 1, y <= k
    PROVE  x <= k + 1
OBVIOUS

LEMMA CountedFrom ==
    ASSUME NEW a \in Nat, NEW b \in Nat, NEW v \in Nat, NEW i \in Nat, NEW j \in Nat,
           a = b - (v + 1), i = a + j
    PROVE  v + 1 + i = b + j
OBVIOUS

LEMMA Earlier ==
    ASSUME NEW n \in Nat, NEW m \in 1 .. n, NEW p \in Nat, p < m, p # 0
    PROVE  p \in 1 .. n
OBVIOUS

-----------------------------------------------------------------------------
(* Repeating a step. *)

\* Numbers from which the next follows, and 0, are all numbers.
LEMMA AllOfNat ==
    ASSUME NEW T, 0 \in T, \A k \in Nat : k \in T => k + 1 \in T
    PROVE  Nat \subseteq T
<1> DEFINE Out == {k \in Nat : k \notin T}
<1>1. SUFFICES ASSUME Out # {} PROVE FALSE
  OBVIOUS
<1>2. PICK k \in Out : \A j \in Out : ~(<<j, k>> \in OpToRel(<, Nat))
  <2>1. Out \subseteq Nat
    OBVIOUS
  <2> HIDE DEF Out
  <2> QED BY <1>1, <2>1, NatLessThanWellFounded, WFMin
<1>3. k # 0 /\ k - 1 \in Nat /\ k - 1 + 1 = k
  OBVIOUS
<1>4. k - 1 \in Out
  BY <1>3
<1>5. <<k - 1, k>> \in OpToRel(<, Nat)
  <2>1. OpToRel(<, Nat) = {pair \in Nat \X Nat : pair[1] < pair[2]}
    BY DEF OpToRel
  <2> HIDE DEF Out
  <2>2. k \in Nat /\ k - 1 \in Nat /\ k - 1 < k
    BY <1>3
  <2> QED BY <2>1, <2>2
<1> QED BY <1>2, <1>4, <1>5

\* What is done n times.
Repeats(F, start, n, f) == f[0] = start /\ \A k \in 1 .. n : f[k] = F[f[k - 1]]

LEMMA Iterates ==
    ASSUME NEW S, NEW F \in [S -> S], NEW start \in S
    PROVE  \A n \in Nat : \E f \in [0 .. n -> S] : Repeats(F, start, n, f)
<1> DEFINE Run(n, f) == f[0] = start /\ \A k \in 1 .. n : f[k] = F[f[k - 1]]
           T == {n \in Nat : \E f \in [0 .. n -> S] : Run(n, f)}
<1>1. 0 \in T
  <2>1. [k \in 0 .. 0 |-> start] \in [0 .. 0 -> S] /\ Run(0, [k \in 0 .. 0 |-> start])
    OBVIOUS
  <2> QED BY <2>1
<1>2. ASSUME NEW n \in Nat, n \in T PROVE n + 1 \in T
  <2>1. PICK f \in [0 .. n -> S] : Run(n, f)
    BY <1>2
  <2> DEFINE g == [k \in 0 .. n + 1 |-> IF k = n + 1 THEN F[f[n]] ELSE f[k]]
  <2>2. g \in [0 .. n + 1 -> S]
    OBVIOUS
  <2>3. Run(n + 1, g)
    <3>1. g[0] = start
      BY <2>1
    <3>2. ASSUME NEW k \in 1 .. n + 1 PROVE g[k] = F[g[k - 1]]
      <4>1. CASE k = n + 1
        BY <4>1
      <4>2. CASE k \in 1 .. n
        BY <2>1, <4>2
      <4> QED BY <4>1, <4>2
    <3> QED BY <3>1, <3>2
  <2> HIDE DEF g, Run
  <2> QED BY <2>2, <2>3
<1> HIDE DEF T
<1>3. Nat \subseteq T
  BY <1>1, <1>2, AllOfNat
<1> QED BY <1>3 DEF T, Repeats

-----------------------------------------------------------------------------
(* The children of a node. *)

Rank(kids, m) == Cardinality({j \in kids : j <= m})

\* In a finite set of numbers each has a rank of its own, from 1 on.
LEMMA RanksAre ==
    ASSUME NEW kids \in SUBSET Nat, IsFiniteSet(kids)
    PROVE  \A k \in 1 .. Cardinality(kids) :
              \E m \in kids : Rank(kids, m) = k /\ \A j \in kids : Rank(kids, j) = k => j = m
<1> DEFINE n == Cardinality(kids)
           upto(m) == {j \in kids : j <= m}
           f == [m \in kids |-> Rank(kids, m)]
<1>1. n \in Nat
  BY FS_CardinalityType
<1>2. \A m \in kids : IsFiniteSet(upto(m)) /\ Rank(kids, m) = Cardinality(upto(m))
  BY FS_Subset DEF Rank
<1>3. \A m \in kids : Rank(kids, m) \in 1 .. n
  <2>1. SUFFICES ASSUME NEW m \in kids PROVE Rank(kids, m) \in 1 .. n
    OBVIOUS
  <2>2. upto(m) \in SUBSET kids /\ m \in upto(m)
    OBVIOUS
  <2>3. Cardinality(upto(m)) <= n /\ Cardinality(upto(m)) \in Nat
    BY <1>2, <2>2, FS_Subset, FS_CardinalityType
  <2>4. Cardinality(upto(m)) # 0
    <3> HIDE DEF upto
    <3> QED BY <1>2, <2>2, FS_EmptySet
  <2> QED BY <1>1, <1>2, <2>3, <2>4
<1>4. \A i, j \in kids : i < j => Rank(kids, i) # Rank(kids, j)
  <2>1. SUFFICES ASSUME NEW i \in kids, NEW j \in kids, i < j, Rank(kids, i) = Rank(kids, j) PROVE FALSE
    OBVIOUS
  <2>a. i \in Nat /\ j \in Nat /\ i < j /\ \A m \in kids : m \in Nat
    BY <2>1
  <2>b. \A m \in upto(i) : m \in upto(j)
    BY <2>a
  <2>2. upto(i) \in SUBSET upto(j) /\ j \in upto(j) /\ j \notin upto(i)
    <3>1. upto(i) \in SUBSET upto(j)
      <4> HIDE DEF upto
      <4> QED BY <2>b
    <3>2. j \in upto(j) /\ j \notin upto(i)
      BY <2>a
    <3> QED BY <3>1, <3>2
  <2> HIDE DEF upto
  <2>3. upto(i) = upto(j)
    BY <1>2, <2>1, <2>2, FS_Subset
  <2> QED BY <2>2, <2>3
<1>5. \A i, j \in kids : Rank(kids, i) = Rank(kids, j) => i = j
  <2>1. \A i, j \in kids : i < j \/ i = j \/ j < i
    OBVIOUS
  <2> QED BY <1>4, <2>1
<1>6. f \in Injection(kids, 1 .. n)
  <2>1. f \in [kids -> 1 .. n]
    BY <1>3
  <2>2. \A i, j \in kids : f[i] = f[j] => i = j
    BY <1>5
  <2> HIDE DEF f
  <2> QED BY <2>1, <2>2 DEF Injection, IsInjective
<1>7. f \in Surjection(kids, 1 .. n)
  <2>1. IsFiniteSet(1 .. n) /\ Cardinality(1 .. n) = n
    BY <1>1, FS_Interval
  <2> HIDE DEF f
  <2> QED BY <1>6, <2>1, FS_Injection
<1>8. \A k \in 1 .. n : \E m \in kids : f[m] = k
  <2> HIDE DEF f
  <2> QED BY <1>7 DEF Surjection
<1> QED BY <1>5, <1>8

LEMMA NodesAre ==
    ASSUME TreesAssumption, NEW t \in Trees
    PROVE  /\ Len(t.parent) \in Nat /\ Len(t.parent) >= 1
           /\ Nodes(t) = 1 .. Len(t.parent) /\ Root \in Nodes(t)
           /\ \A n \in Nodes(t) : t.parent[n] \in Nat /\ t.parent[n] < n
           /\ IsFiniteSet(Nodes(t)) /\ Cardinality(Nodes(t)) = Len(t.parent)
<1>1. t.parent \in Seq(Nat) /\ t.parent # <<>> /\ \A n \in DOMAIN t.parent : t.parent[n] \in 0 .. n - 1
  BY DEF TreesAssumption
<1>2. Len(t.parent) \in Nat /\ Nodes(t) = 1 .. Len(t.parent)
  BY <1>1, LenProperties DEF Nodes
<1>3. Len(t.parent) >= 1
  BY <1>1, <1>2, EmptySeq
<1>4. IsFiniteSet(1 .. Len(t.parent)) /\ Cardinality(1 .. Len(t.parent)) = Len(t.parent)
  <2> DEFINE n == Len(t.parent)
  <2>1. n \in Int /\ 1 \in Int /\ ~(1 > n) /\ n - 1 + 1 = n
    BY <1>2, <1>3
  <2> HIDE DEF n
  <2>2. IsFiniteSet(1 .. n) /\ Cardinality(1 .. n) = n
    BY <2>1, FS_Interval
  <2> QED BY <2>2 DEF n
<1>5. \A n \in Nodes(t) : t.parent[n] \in Nat /\ t.parent[n] < n
  BY <1>1, <1>2 DEF Nodes
<1> QED BY <1>2, <1>3, <1>4, <1>5 DEF Root

\* The children are listed, each of them once.
LEMMA KidsAre ==
    ASSUME TreesAssumption, NEW t \in Trees, NEW n \in Nodes(t)
    PROVE  /\ Kids[t][n] \in Seq(Nodes(t))
           /\ \A i, j \in 1 .. Len(Kids[t][n]) : Kids[t][n][i] = Kids[t][n][j] => i = j
           /\ \A m \in Nodes(t) :
                 t.parent[m] = n <=> \E i \in 1 .. Len(Kids[t][n]) : Kids[t][n][i] = m
<1> DEFINE kids == Children(t, n)
           c == Cardinality(kids)
           nth(k) == CHOOSE m \in kids : Rank(kids, m) = k
<1>1. kids \in SUBSET Nodes(t) /\ IsFiniteSet(kids) /\ kids \in SUBSET Nat /\ c \in Nat
  BY NodesAre, FS_Subset, FS_CardinalityType DEF Children
<1>2. Kids[t][n] = [k \in 1 .. c |-> nth(k)]
  BY DEF Kids, Rank
<1>a. \A m \in Nodes(t) : m \in kids <=> t.parent[m] = n
  BY DEF Children
<1> HIDE DEF kids, c
<1>3. \A k \in 1 .. c : nth(k) \in kids /\ Rank(kids, nth(k)) = k
  BY <1>1, RanksAre DEF c
<1>4. \A m \in kids : Rank(kids, m) \in 1 .. c
  <2>1. SUFFICES ASSUME NEW m \in kids PROVE Rank(kids, m) \in 1 .. c
    OBVIOUS
  <2> DEFINE upto == {j \in kids : j <= m}
  <2>2. upto \in SUBSET kids /\ m \in upto /\ IsFiniteSet(upto) /\ Rank(kids, m) = Cardinality(upto)
    BY <1>1, FS_Subset DEF Rank
  <2> HIDE DEF upto
  <2>3. Cardinality(upto) <= c /\ Cardinality(upto) \in Nat /\ Cardinality(upto) # 0
    BY <1>1, <2>2, FS_Subset, FS_CardinalityType, FS_EmptySet DEF c
  <2> QED BY <1>1, <2>2, <2>3
<1>5. \A m \in kids : nth(Rank(kids, m)) = m
  <2>1. SUFFICES ASSUME NEW m \in kids PROVE nth(Rank(kids, m)) = m
    OBVIOUS
  <2>2. PICK w \in kids : \A j \in kids : Rank(kids, j) = Rank(kids, m) => j = w
    <3> DEFINE k == Rank(kids, m)
    <3>1. k \in 1 .. Cardinality(kids)
      BY <1>4 DEF c
    <3>2. \E w \in kids : Rank(kids, w) = k /\ \A j \in kids : Rank(kids, j) = k => j = w
      <4> HIDE DEF k
      <4> QED BY <1>1, <3>1, RanksAre
    <3> QED BY <3>2
  <2>3. nth(Rank(kids, m)) \in kids /\ Rank(kids, nth(Rank(kids, m))) = Rank(kids, m)
    BY <1>3, <1>4
  <2> HIDE DEF nth
  <2> QED BY <2>2, <2>3
<1> DEFINE s == [k \in 1 .. c |-> nth(k)]
<1> HIDE DEF nth
<1>6. s \in Seq(Nodes(t)) /\ Len(s) = c /\ \A k \in 1 .. c : s[k] = nth(k)
  <2>1. s \in [1 .. c -> Nodes(t)]
    BY <1>1, <1>3
  <2>2. s \in Seq(Nodes(t)) /\ DOMAIN s = 1 .. c
    BY <1>1, <2>1, SeqDef
  <2>3. Len(s) = c
    BY <1>1, <2>2, LenProperties
  <2> QED BY <2>2, <2>3
<1> HIDE DEF s
<1>7. \A i, j \in 1 .. c : s[i] = s[j] => i = j
  BY <1>3, <1>6
<1>8. \A m \in Nodes(t) : m \in kids <=> \E i \in 1 .. c : s[i] = m
  BY <1>3, <1>4, <1>5, <1>6
<1>9. Kids[t][n] = s
  BY <1>2 DEF s
<1> QED BY <1>6, <1>7, <1>8, <1>9, <1>a

-----------------------------------------------------------------------------
(* The order in which a region's controls are read. *)

Entries(t) == [node : Nodes(t), depth : Nat]
Entry(n, d) == [node |-> n, depth |-> d]

\* What is below an entry, as far as it is gone down to.
Unfolds(t, region, e) == e.depth < MaxDepth /\ ~(region = Window /\ t.what[e.node] \in Menus)
Below(t, region, e) == IF Unfolds(t, region, e) THEN Kids[t][e.node] ELSE <<>>

\* The first m entries of an order have been opened; after k of them it had ends[k].
Opened(t, region, order, ends, m) ==
    /\ m \in Nat /\ m <= Len(order) /\ ends \in [0 .. m -> Nat]
    /\ ends[0] = 1 /\ ends[m] = Len(order)
    /\ \A k \in 0 .. m : ends[k] <= Len(order) /\ (k < m => k + 1 <= ends[k])
    /\ \A k \in 1 .. m :
          /\ ends[k] = ends[k - 1] + Len(Below(t, region, order[k]))
          /\ \A i \in 1 .. Len(Below(t, region, order[k])) :
                order[ends[k - 1] + i] = Entry(Below(t, region, order[k])[i], order[k].depth + 1)

\* Every entry but the first is below an earlier one, and no node has two.
Rooted(t, root, region, order, m) ==
    /\ order \in Seq(Entries(t)) /\ Len(order) >= 1 /\ order[1] = Entry(root, 0)
    /\ \A i, j \in 1 .. Len(order) : order[i].node = order[j].node => i = j
    /\ \A j \in 1 .. Len(order) : order[j].node >= root
    /\ \A j \in 2 .. Len(order) : \E k \in 1 .. m :
          /\ k < j /\ t.parent[order[j].node] = order[k].node
          /\ order[j].depth = order[k].depth + 1 /\ Unfolds(t, region, order[k])

LEMMA EntryIs == \A n, d : Entry(n, d).node = n /\ Entry(n, d).depth = d
BY DEF Entry

LEMMA BelowIs ==
    ASSUME TreesAssumption, NEW t \in Trees, NEW region, NEW e \in Entries(t)
    PROVE  /\ Below(t, region, e) \in Seq(Nodes(t))
           /\ Len(Below(t, region, e)) \in Nat
           /\ \A i, j \in 1 .. Len(Below(t, region, e)) : Below(t, region, e)[i] = Below(t, region, e)[j] => i = j
           /\ \A i \in 1 .. Len(Below(t, region, e)) :
                 /\ Below(t, region, e)[i] \in Nodes(t)
                 /\ t.parent[Below(t, region, e)[i]] = e.node /\ Unfolds(t, region, e)
           /\ Unfolds(t, region, e) => \A n \in Nodes(t) : t.parent[n] = e.node =>
                 \E i \in 1 .. Len(Below(t, region, e)) : Below(t, region, e)[i] = n
<1>1. e.node \in Nodes(t)
  BY DEF Entries
<1>2. CASE Unfolds(t, region, e)
  <2>1. Below(t, region, e) = Kids[t][e.node]
    BY <1>2 DEF Below
  <2>2. Kids[t][e.node] \in Seq(Nodes(t)) /\ Len(Kids[t][e.node]) \in Nat
    BY <1>1, KidsAre, LenProperties
  <2>3. \A i \in 1 .. Len(Kids[t][e.node]) : Kids[t][e.node][i] \in Nodes(t)
    BY <2>2, ElementOfSeq
  <2>4. PICK n \in Nodes(t) : n = e.node
    BY <1>1
  <2>5. \A i, j \in 1 .. Len(Kids[t][n]) : Kids[t][n][i] = Kids[t][n][j] => i = j
    BY KidsAre, Zenon
  <2>6. \A m \in Nodes(t) : t.parent[m] = n <=> \E i \in 1 .. Len(Kids[t][n]) : Kids[t][n][i] = m
    BY KidsAre
  <2> DEFINE kids == Kids[t][n]
  <2> HIDE DEF kids
  <2>7. kids = Below(t, region, e) /\ kids \in Seq(Nodes(t)) /\ Len(kids) \in Nat
        /\ \A i \in 1 .. Len(kids) : kids[i] \in Nodes(t)
    BY <2>1, <2>2, <2>3, <2>4 DEF kids
  <2>8. \A i, j \in 1 .. Len(kids) : kids[i] = kids[j] => i = j
    BY <2>5 DEF kids
  <2>9. \A i \in 1 .. Len(kids) : t.parent[kids[i]] = e.node
    BY <2>4, <2>6, <2>7 DEF kids
  <2>10. \A m \in Nodes(t) : t.parent[m] = e.node => \E i \in 1 .. Len(kids) : kids[i] = m
    BY <2>4, <2>6 DEF kids
  <2> QED BY <1>2, <2>7, <2>8, <2>9, <2>10
<1>3. CASE ~Unfolds(t, region, e)
  <2>1. Below(t, region, e) = <<>> /\ <<>> \in Seq(Nodes(t)) /\ Len(<<>>) = 0
    BY <1>3, EmptySeq DEF Below
  <2> QED BY <1>3, <2>1
<1> QED BY <1>2, <1>3

LEMMA BelowAll ==
    ASSUME TreesAssumption, NEW t \in Trees, NEW region, NEW e \in Entries(t)
    PROVE  Unfolds(t, region, e) => \A n \in Nodes(t) : t.parent[n] = e.node =>
              \E i \in 1 .. Len(Below(t, region, e)) : Below(t, region, e)[i] = n
<1>1. SUFFICES ASSUME Unfolds(t, region, e), NEW n \in Nodes(t), t.parent[n] = e.node
               PROVE  \E i \in 1 .. Len(Below(t, region, e)) : Below(t, region, e)[i] = n
  OBVIOUS
<1> QED BY <1>1, BelowIs

\* One more entry is opened.
LEMMA OpensOneMore ==
    ASSUME TreesAssumption, NEW t \in Trees, NEW root \in Nodes(t), NEW region, NEW order, NEW ends, NEW m,
           Opened(t, region, order, ends, m), Rooted(t, root, region, order, m), m < Len(order)
    PROVE  \E longer, further :
              Opened(t, region, longer, further, m + 1) /\ Rooted(t, root, region, longer, m + 1)
<1> DEFINE e == order[m + 1]
           below == Below(t, region, e)
           new == [i \in 1 .. Len(below) |-> Entry(below[i], e.depth + 1)]
           longer == order \o new
           further == [k \in 0 .. m + 1 |-> IF k = m + 1 THEN ends[m] + Len(below) ELSE ends[k]]
<1>1. /\ m \in Nat /\ Len(order) \in Nat /\ m + 1 \in 1 .. Len(order) /\ ends \in [0 .. m -> Nat]
      /\ order \in Seq(Entries(t)) /\ \A i \in 1 .. Len(order) : order[i] \in Entries(t)
  <2>1. order \in Seq(Entries(t))
    BY DEF Rooted
  <2>2. Len(order) \in Nat
    BY <2>1, LenProperties
  <2> QED BY <2>1, <2>2, ElementOfSeq DEF Opened
<1>2. e \in Entries(t) /\ e.node \in Nodes(t) /\ e.depth \in Nat
  <2>1. e \in Entries(t)
    BY <1>1
  <2> HIDE DEF e
  <2> QED BY <2>1 DEF Entries
<1> HIDE DEF e
<1>3. /\ below \in Seq(Nodes(t)) /\ Len(below) \in Nat
      /\ \A i, j \in 1 .. Len(below) : below[i] = below[j] => i = j
      /\ \A i \in 1 .. Len(below) : below[i] \in Nodes(t) /\ t.parent[below[i]] = e.node /\ Unfolds(t, region, e)
  BY <1>2, BelowIs
<1>e. below = Below(t, region, e)
  OBVIOUS
<1> HIDE DEF below
<1>4. /\ new \in Seq(Entries(t)) /\ Len(new) = Len(below)
      /\ \A i \in 1 .. Len(below) : new[i] = Entry(below[i], e.depth + 1)
  <2>1. new \in [1 .. Len(below) -> Entries(t)]
    BY <1>2, <1>3 DEF Entry, Entries
  <2>2. new \in Seq(Entries(t)) /\ DOMAIN new = 1 .. Len(below)
    BY <1>3, <2>1, SeqDef
  <2>3. Len(new) = Len(below)
    BY <1>3, <2>2, LenProperties
  <2> QED BY <2>2, <2>3
<1> HIDE DEF new
<1>5. /\ longer \in Seq(Entries(t)) /\ Len(longer) = Len(order) + Len(below)
      /\ \A i \in 1 .. Len(order) : longer[i] = order[i]
      /\ \A i \in 1 .. Len(below) : longer[Len(order) + i] = Entry(below[i], e.depth + 1)
  <2>1. /\ longer \in Seq(Entries(t)) /\ Len(longer) = Len(order) + Len(new)
        /\ \A i \in 1 .. Len(order) + Len(new) : longer[i] = IF i <= Len(order) THEN order[i] ELSE new[i - Len(order)]
    BY <1>1, <1>4, ConcatProperties
  <2> HIDE DEF longer
  <2>2. \A i \in 1 .. Len(order) : longer[i] = order[i]
    BY <1>1, <1>3, <1>4, <2>1
  <2>3. \A i \in 1 .. Len(below) : longer[Len(order) + i] = new[i]
    <3>1. SUFFICES ASSUME NEW i \in 1 .. Len(below) PROVE longer[Len(order) + i] = new[i]
      OBVIOUS
    <3>2. Len(order) + i \in 1 .. Len(order) + Len(new) /\ ~(Len(order) + i <= Len(order)) /\ Len(order) + i - Len(order) = i
      BY <1>1, <1>3, <1>4
    <3> QED BY <2>1, <3>2
  <2> QED BY <1>4, <2>1, <2>2, <2>3
<1> HIDE DEF longer
<1>6. Opened(t, region, longer, further, m + 1)
  <2>1. further \in [0 .. m + 1 -> Nat] /\ further[0] = ends[0] /\ further[m + 1] = ends[m] + Len(below)
        /\ \A k \in 0 .. m : further[k] = ends[k]
    BY <1>1, <1>3
  <2> HIDE DEF further
  <2>2. ends[0] = 1 /\ ends[m] = Len(order)
      /\ \A k \in 0 .. m : ends[k] <= Len(order) /\ (k < m => k + 1 <= ends[k])
    BY DEF Opened
  <2>3. \A k \in 0 .. m + 1 : further[k] <= Len(longer) /\ (k < m + 1 => k + 1 <= further[k])
    BY <1>1, <1>3, <1>5, <2>1, <2>2
  <2>4. ASSUME NEW k \in 1 .. m + 1
        PROVE  /\ further[k] = further[k - 1] + Len(Below(t, region, longer[k]))
               /\ \A i \in 1 .. Len(Below(t, region, longer[k])) :
                     longer[further[k - 1] + i] = Entry(Below(t, region, longer[k])[i], longer[k].depth + 1)
    <3>1. CASE k = m + 1
      <4>1. longer[k] = e /\ further[k - 1] = Len(order)
        BY <1>1, <1>5, <2>1, <2>2, <3>1 DEF e
      <4> QED BY <1>5, <2>1, <2>2, <3>1, <4>1, <1>e
    <3>2. CASE k \in 1 .. m
      <4>1. longer[k] = order[k] /\ further[k - 1] = ends[k - 1] /\ further[k] = ends[k]
        BY <1>1, <1>5, <2>1, <3>2
      <4> DEFINE b == Below(t, region, order[k])
      <4>2. ends[k] = ends[k - 1] + Len(b) /\ \A i \in 1 .. Len(b) : order[ends[k - 1] + i] = Entry(b[i], order[k].depth + 1)
        BY <3>2 DEF Opened
      <4>3. Len(b) \in Nat
        BY <1>1, <3>2, BelowIs
      <4> HIDE DEF b
      <4>4. ends[k] <= Len(order)
        BY <1>1, <2>2, <3>2
      <4>5. \A i \in 1 .. Len(b) : longer[ends[k - 1] + i] = order[ends[k - 1] + i]
        <5>1. ends[k - 1] \in Nat
          <6>1. k - 1 \in 0 .. m
            BY <1>1, <3>2
          <6> QED BY <1>1, <6>1
        <5>2. SUFFICES ASSUME NEW i \in 1 .. Len(b) PROVE longer[ends[k - 1] + i] = order[ends[k - 1] + i]
          OBVIOUS
        <5>3. ends[k - 1] + i \in 1 .. Len(order)
          <6>1. ends[k - 1] + Len(b) <= Len(order)
            BY <4>2, <4>4
          <6> QED BY <1>1, <4>3, <5>1, <6>1, SumWithin
        <5> QED BY <1>5, <5>3
      <4> QED BY <4>1, <4>2, <4>5 DEF b
    <3> QED BY <1>1, <3>1, <3>2
  <2>5. m + 1 \in Nat /\ m + 1 <= Len(longer) /\ further[0] = 1 /\ further[m + 1] = Len(longer)
    BY <1>1, <1>3, <1>5, <2>1, <2>2
  <2> QED BY <2>1, <2>3, <2>4, <2>5 DEF Opened
<1>7. Rooted(t, root, region, longer, m + 1)
  <2>1. /\ Len(order) >= 1 /\ order[1] = Entry(root, 0)
        /\ \A i, j \in 1 .. Len(order) : order[i].node = order[j].node => i = j
        /\ \A j \in 1 .. Len(order) : order[j].node >= root
    BY DEF Rooted
  <2>2. \A j \in 2 .. Len(order) : \E k \in 1 .. m :
           /\ k < j /\ t.parent[order[j].node] = order[k].node
           /\ order[j].depth = order[k].depth + 1 /\ Unfolds(t, region, order[k])
    BY DEF Rooted
  <2>3. longer[m + 1] = e /\ longer[1] = order[1] /\ e.node >= root
    BY <1>1, <1>5, <2>1 DEF e
  <2>4. \A n \in Nodes(t) : t.parent[n] \in Nat /\ t.parent[n] < n /\ n \in Nat
    BY NodesAre
  <2>5. \A i \in 1 .. Len(below) : longer[Len(order) + i].node = below[i] /\ longer[Len(order) + i].depth = e.depth + 1
    <3>1. SUFFICES ASSUME NEW i \in 1 .. Len(below)
                   PROVE  longer[Len(order) + i].node = below[i] /\ longer[Len(order) + i].depth = e.depth + 1
      OBVIOUS
    <3>2. longer[Len(order) + i] = Entry(below[i], e.depth + 1)
      BY <1>5
    <3> QED BY <3>2, EntryIs
  <2>6. \A i \in 1 .. Len(below) : below[i] >= root
    <3>1. SUFFICES ASSUME NEW i \in 1 .. Len(below) PROVE below[i] >= root
      OBVIOUS
    <3>2. below[i] \in Nodes(t) /\ t.parent[below[i]] = e.node
      BY <1>3
    <3>3. below[i] \in Nat /\ e.node < below[i] /\ e.node \in Nat /\ root \in Nat
      BY <1>2, <2>4, <3>2
    <3> QED BY <2>3, <3>3
  <2>7. ASSUME NEW i \in 1 .. Len(below), NEW j \in 1 .. Len(order) PROVE order[j].node # below[i]
    <3>1. SUFFICES ASSUME order[j].node = below[i] PROVE FALSE
      OBVIOUS
    <3>2. t.parent[order[j].node] = e.node /\ e.node < below[i]
      BY <1>3, <2>4, <3>1
    <3>3. CASE j = 1
      <4>1. order[j].node = root
        BY <2>1, <3>3, EntryIs
      <4> QED BY <1>2, <2>3, <2>4, <3>1, <3>2, <4>1
    <3>4. CASE j \in 2 .. Len(order)
      <4>1. PICK k \in 1 .. m : t.parent[order[j].node] = order[k].node
        BY <2>2, <3>4
      <4>2. order[k].node = order[m + 1].node /\ k \in 1 .. Len(order) /\ m + 1 \in 1 .. Len(order)
        BY <1>1, <3>2, <4>1 DEF e
      <4>3. k = m + 1
        BY <2>1, <4>2
      <4> QED BY <1>1, <4>3
    <3> QED BY <1>1, <3>3, <3>4
  <2>8. \A j \in 1 .. Len(longer) : j \in 1 .. Len(order) \/ \E i \in 1 .. Len(below) : j = Len(order) + i
    <3>1. SUFFICES ASSUME NEW j \in 1 .. Len(longer), j \notin 1 .. Len(order)
                   PROVE  \E i \in 1 .. Len(below) : j = Len(order) + i
      OBVIOUS
    <3>2. j - Len(order) \in 1 .. Len(below) /\ j = Len(order) + (j - Len(order))
      BY <1>1, <1>3, <1>5, <3>1
    <3> QED BY <3>2
  <2>9. \A i, j \in 1 .. Len(longer) : longer[i].node = longer[j].node => i = j
    <3>1. SUFFICES ASSUME NEW i \in 1 .. Len(longer), NEW j \in 1 .. Len(longer), longer[i].node = longer[j].node
                   PROVE  i = j
      OBVIOUS
    <3>2. CASE i \in 1 .. Len(order) /\ j \in 1 .. Len(order)
      BY <1>5, <2>1, <3>1, <3>2
    <3>3. CASE i \in 1 .. Len(order) /\ j \notin 1 .. Len(order)
      <4>1. PICK b \in 1 .. Len(below) : j = Len(order) + b
        BY <2>8, <3>3
      <4>2. order[i].node = below[b]
        BY <1>5, <2>5, <3>1, <3>3, <4>1
      <4> QED BY <2>7, <3>3, <4>2
    <3>4. CASE i \notin 1 .. Len(order) /\ j \in 1 .. Len(order)
      <4>1. PICK a \in 1 .. Len(below) : i = Len(order) + a
        BY <2>8, <3>4
      <4>2. order[j].node = below[a]
        BY <1>5, <2>5, <3>1, <3>4, <4>1
      <4> QED BY <2>7, <3>4, <4>2
    <3>5. CASE i \notin 1 .. Len(order) /\ j \notin 1 .. Len(order)
      <4>1. PICK a \in 1 .. Len(below) : i = Len(order) + a
        BY <2>8, <3>5
      <4>2. PICK b \in 1 .. Len(below) : j = Len(order) + b
        BY <2>8, <3>5
      <4>3. a = b
        BY <1>3, <2>5, <3>1, <4>1, <4>2
      <4> QED BY <4>1, <4>2, <4>3
    <3> QED BY <3>2, <3>3, <3>4, <3>5
  <2>10. \A j \in 1 .. Len(longer) : longer[j].node >= root
    BY <1>5, <2>1, <2>5, <2>6, <2>8
  <2>11. ASSUME NEW j \in 2 .. Len(longer)
         PROVE  \E k \in 1 .. m + 1 :
                  /\ k < j /\ t.parent[longer[j].node] = longer[k].node
                  /\ longer[j].depth = longer[k].depth + 1 /\ Unfolds(t, region, longer[k])
    <3>1. CASE j \in 1 .. Len(order)
      <4>1. PICK k \in 1 .. m :
               /\ k < j /\ t.parent[order[j].node] = order[k].node
               /\ order[j].depth = order[k].depth + 1 /\ Unfolds(t, region, order[k])
        BY <2>2, <3>1
      <4>2. k \in 1 .. m + 1 /\ longer[k] = order[k] /\ longer[j] = order[j]
        BY <1>1, <1>5, <3>1
      <4> QED BY <4>1, <4>2
    <3>2. CASE j \notin 1 .. Len(order)
      <4>1. PICK i \in 1 .. Len(below) : j = Len(order) + i
        <5>1. j \in 1 .. Len(longer)
          BY <1>1, <1>3, <1>5
        <5> QED BY <2>8, <3>2, <5>1
      <4>2. m + 1 < j /\ m + 1 \in 1 .. m + 1
        BY <1>1, <4>1
      <4>3. t.parent[below[i]] = e.node /\ Unfolds(t, region, e)
        BY <1>3
      <4> QED BY <2>3, <2>5, <4>1, <4>2, <4>3
    <3> QED BY <3>1, <3>2
  <2>12. Len(longer) >= 1
    BY <1>1, <1>3, <1>5, <2>1
  <2> QED BY <1>5, <2>1, <2>3, <2>9, <2>10, <2>11, <2>12 DEF Rooted
<1> QED BY <1>6, <1>7

\* An order that has been opened to its end.
IsOrder(t, root, region, order, ends) ==
    Opened(t, region, order, ends, Len(order)) /\ Rooted(t, root, region, order, Len(order))

LEMMA OrderIsBounded ==
    ASSUME TreesAssumption, NEW t \in Trees, NEW root \in Nodes(t), NEW region, NEW order, NEW m,
           Rooted(t, root, region, order, m)
    PROVE  Len(order) \in Nat /\ Len(order) <= Len(t.parent)
<1> DEFINE f == [i \in 1 .. Len(order) |-> order[i].node]
<1>1. order \in Seq(Entries(t)) /\ Len(order) \in Nat
  BY LenProperties DEF Rooted
<1>2. \A i \in 1 .. Len(order) : order[i].node \in Nodes(t)
  <2>1. \A i \in 1 .. Len(order) : order[i] \in Entries(t)
    BY <1>1, ElementOfSeq
  <2> QED BY <2>1 DEF Entries
<1>3. f \in Injection(1 .. Len(order), Nodes(t))
  <2>1. f \in [1 .. Len(order) -> Nodes(t)]
    BY <1>2
  <2>2. \A i, j \in 1 .. Len(order) : f[i] = f[j] => i = j
    BY DEF Rooted
  <2> HIDE DEF f
  <2> QED BY <2>1, <2>2 DEF Injection, IsInjective
<1>4. Cardinality(1 .. Len(order)) <= Cardinality(Nodes(t))
  <2> HIDE DEF f
  <2> QED BY <1>3, NodesAre, FS_Injection
<1>5. Cardinality(1 .. Len(order)) = Len(order)
  <2> DEFINE n == Len(order)
  <2>1. n \in Int /\ 1 \in Int /\ n \in Nat
    BY <1>1
  <2> HIDE DEF n
  <2>2. Cardinality(1 .. n) = IF 1 > n THEN 0 ELSE n - 1 + 1
    BY <2>1, FS_Interval
  <2>3. Cardinality(1 .. n) = n
    BY <2>1, <2>2
  <2> QED BY <2>3 DEF n
<1> QED BY <1>1, <1>4, <1>5, NodesAre

\* Every region has one.
LEMMA RegionHasOrder ==
    ASSUME TreesAssumption, NEW t \in Trees, NEW root \in Nodes(t), NEW region
    PROVE  \E order, ends : IsOrder(t, root, region, order, ends)
<1> DEFINE Goes(m) == \E order, ends : Opened(t, region, order, ends, m) /\ Rooted(t, root, region, order, m)
           T == {m \in Nat : Goes(m)}
<1>1. SUFFICES ASSUME \A order, ends : ~IsOrder(t, root, region, order, ends) PROVE FALSE
  OBVIOUS
<1>2. 0 \in T
  <2> DEFINE order == <<Entry(root, 0)>>
             ends == [k \in 0 .. 0 |-> 1]
  <2>1. Entry(root, 0) \in Entries(t)
    BY DEF Entry, Entries
  <2>2. order \in Seq(Entries(t)) /\ Len(order) = 1 /\ order[1] = Entry(root, 0)
    BY <2>1
  <2>3. ends \in [0 .. 0 -> Nat] /\ ends[0] = 1
    OBVIOUS
  <2> HIDE DEF order, ends
  <2>4. Opened(t, region, order, ends, 0)
    BY <2>2, <2>3 DEF Opened
  <2>5. Rooted(t, root, region, order, 0)
    <3>1. order[1].node = root /\ root \in Nat
      <4>1. order[1].node = root
        BY <2>2, EntryIs
      <4> QED BY <4>1, NodesAre
    <3> QED BY <2>2, <3>1 DEF Rooted
  <2> QED BY <2>4, <2>5
<1>3. ASSUME NEW m \in Nat, m \in T PROVE m + 1 \in T
  <2>1. PICK order, ends : Opened(t, region, order, ends, m) /\ Rooted(t, root, region, order, m)
    BY <1>3
  <2>2. m <= Len(order) /\ Len(order) \in Nat
    BY <2>1, OrderIsBounded DEF Opened
  <2>3. m # Len(order)
    BY <1>1, <2>1 DEF IsOrder
  <2>4. m < Len(order)
    BY <2>2, <2>3
  <2>5. Goes(m + 1)
    <3> HIDE DEF T
    <3> QED BY <2>1, <2>4, OpensOneMore
  <2> QED BY <2>5
<1> HIDE DEF T
<1>4. Len(t.parent) + 1 \in T
  BY <1>2, <1>3, AllOfNat, NodesAre
<1>5. PICK order, ends : Opened(t, region, order, ends, Len(t.parent) + 1) /\ Rooted(t, root, region, order, Len(t.parent) + 1)
  BY <1>4 DEF T
<1>6. Len(order) <= Len(t.parent) /\ Len(t.parent) + 1 <= Len(order) /\ Len(order) \in Nat /\ Len(t.parent) \in Nat
  BY <1>5, OrderIsBounded, NodesAre DEF Opened
<1> QED BY <1>6

-----------------------------------------------------------------------------
(* A page. *)

Least(a, b) == IF a < b THEN a ELSE b

\* What there is room for, and what of a node's children that takes in.
FitsIn(filled, room, kids) == IF filled >= room THEN 0 ELSE Least(room - filled, kids)
TakesIn(t, e, queue, room) ==
    IF e.depth >= MaxDepth THEN 0 ELSE FitsIn(Len(queue), room, Len(Kids[t][e.node]))

\* What is put in the queue: as many children as there is room for.
LEMMA EnqueueIs ==
    ASSUME TreesAssumption, NEW t \in Trees, NEW e \in Entries(t), NEW queue \in Seq(Entries(t)), NEW room \in Nat
    PROVE  /\ Enqueue(t, e, queue, room).queue \in Seq(Entries(t))
           /\ Len(Enqueue(t, e, queue, room).queue) = Len(queue) + TakesIn(t, e, queue, room)
           /\ \A i \in 1 .. Len(queue) : Enqueue(t, e, queue, room).queue[i] = queue[i]
           /\ \A i \in 1 .. TakesIn(t, e, queue, room) :
                 Enqueue(t, e, queue, room).queue[Len(queue) + i] = Entry(Kids[t][e.node][i], e.depth + 1)
           /\ Enqueue(t, e, queue, room).cut \in BOOLEAN
           /\ ~Enqueue(t, e, queue, room).cut => TakesIn(t, e, queue, room) = Len(Kids[t][e.node])
<1> DEFINE kids == Kids[t][e.node]
           free == IF e.depth >= MaxDepth \/ Len(queue) >= room THEN 0 ELSE room - Len(queue)
           n == TakesIn(t, e, queue, room)
           taken == SubSeq(kids, 1, IF free < Len(kids) THEN free ELSE Len(kids))
           new == [i \in DOMAIN taken |-> [node |-> taken[i], depth |-> e.depth + 1]]
           more == Enqueue(t, e, queue, room)
<1>1. more.queue = queue \o new /\ more.cut = (taken # kids)
  BY DEF Enqueue
<1>2. e.node \in Nodes(t) /\ e.depth \in Nat /\ Len(queue) \in Nat /\ MaxDepth \in Nat
  BY LenProperties DEF Entries, TreesAssumption
<1>3. kids \in Seq(Nodes(t)) /\ Len(kids) \in Nat /\ \A i \in 1 .. Len(kids) : kids[i] \in Nodes(t)
  <2>1. kids \in Seq(Nodes(t))
    BY <1>2, KidsAre
  <2> HIDE DEF kids
  <2> QED BY <2>1, LenProperties, ElementOfSeq
<1> HIDE DEF kids, more
<1>4. (IF free < Len(kids) THEN free ELSE Len(kids)) = n /\ n \in Nat /\ n <= Len(kids)
  <2>1. n = IF e.depth >= MaxDepth THEN 0 ELSE FitsIn(Len(queue), room, Len(kids))
    BY DEF TakesIn, kids
  <2>2. CASE e.depth >= MaxDepth
    BY <1>3, <2>1, <2>2
  <2>3. CASE ~(e.depth >= MaxDepth) /\ Len(queue) >= room
    BY <1>3, <2>1, <2>3 DEF FitsIn
  <2>4. CASE ~(e.depth >= MaxDepth) /\ ~(Len(queue) >= room)
    <3>1. n = Least(room - Len(queue), Len(kids)) /\ free = room - Len(queue)
      BY <2>1, <2>4 DEF FitsIn
    <3> HIDE DEF n, free
    <3> QED BY <1>2, <1>3, <2>4, <3>1 DEF Least
  <2> QED BY <2>2, <2>3, <2>4
<1>5. taken = SubSeq(kids, 1, n)
  BY <1>4
<1> HIDE DEF n, free, taken
<1>6. taken \in Seq(Nodes(t)) /\ Len(taken) = n /\ \A i \in 1 .. n : taken[i] = kids[i]
  <2>1. \A i \in 1 .. n : kids[i] \in Nodes(t)
    BY <1>3, <1>4
  <2>2. /\ SubSeq(kids, 1, n) \in Seq(Nodes(t)) /\ Len(SubSeq(kids, 1, n)) = IF 1 <= n THEN n - 1 + 1 ELSE 0
        /\ \A i \in 1 .. n - 1 + 1 : SubSeq(kids, 1, n)[i] = kids[1 + i - 1]
    BY <1>4, <2>1, SubSeqProperties
  <2> QED BY <1>4, <1>5, <2>2
<1>7. new \in Seq(Entries(t)) /\ Len(new) = n /\ \A i \in 1 .. n : new[i] = Entry(kids[i], e.depth + 1)
  <2>1. DOMAIN taken = 1 .. n /\ \A i \in 1 .. n : taken[i] \in Nodes(t)
    BY <1>6, LenProperties, ElementOfSeq
  <2>2. new \in [1 .. n -> Entries(t)] /\ \A i \in 1 .. n : new[i] = Entry(kids[i], e.depth + 1)
    BY <1>2, <1>6, <2>1 DEF Entry, Entries
  <2> HIDE DEF new
  <2>3. new \in Seq(Entries(t)) /\ DOMAIN new = 1 .. n
    BY <1>4, <2>2, SeqDef
  <2>4. Len(new) = n
    BY <1>4, <2>3, LenProperties
  <2> QED BY <2>2, <2>3, <2>4
<1> HIDE DEF new
<1>8. /\ queue \o new \in Seq(Entries(t)) /\ Len(queue \o new) = Len(queue) + n
      /\ \A i \in 1 .. Len(queue) : (queue \o new)[i] = queue[i]
      /\ \A i \in 1 .. n : (queue \o new)[Len(queue) + i] = new[i]
  <2> DEFINE both == queue \o new
  <2>1. /\ both \in Seq(Entries(t)) /\ Len(both) = Len(queue) + Len(new)
        /\ \A i \in 1 .. Len(queue) + Len(new) : both[i] = IF i <= Len(queue) THEN queue[i] ELSE new[i - Len(queue)]
    BY <1>7, ConcatProperties
  <2> HIDE DEF both
  <2>2. \A i \in 1 .. Len(queue) : both[i] = queue[i]
    BY <1>2, <1>4, <1>7, <2>1
  <2>3. ASSUME NEW i \in 1 .. n PROVE both[Len(queue) + i] = new[i]
    <3>1. Len(queue) + i \in 1 .. Len(queue) + Len(new) /\ ~(Len(queue) + i <= Len(queue)) /\ Len(queue) + i - Len(queue) = i
      BY <1>2, <1>4, <1>7
    <3> QED BY <2>1, <3>1
  <2>4. \A i \in 1 .. n : both[Len(queue) + i] = new[i]
    BY <2>3
  <2> QED BY <1>7, <2>1, <2>2, <2>4 DEF both
<1>9. more.cut \in BOOLEAN /\ (~more.cut => n = Len(kids))
  BY <1>1, <1>6
<1> QED BY <1>1, <1>7, <1>8, <1>9 DEF n, more, kids

LEMMA LeastIs ==
    ASSUME NEW a \in Nat, NEW b \in Nat
    PROVE  /\ Least(a, b) \in Nat /\ Least(a, b) <= a /\ Least(a, b) <= b
           /\ a <= b => Least(a, b) = a
           /\ b <= a => Least(a, b) = b
BY DEF Least

PageStates(t) ==
    [queue : Seq(Entries(t)), nodes : Seq([node : Nodes(t), index : Nat]), visited : Nat, truncated : BOOLEAN]

\* A state of the reading of a page: behind so many visited, the order as far as the
\* page reaches.  What is not marked as cut has all of it.
OnTrack(offset, order, ends, s) ==
    /\ s.visited <= Len(order) /\ s.visited <= offset + PageSize
    /\ Len(s.queue) = Least(ends[s.visited], offset + PageSize) - s.visited
    /\ \A i \in 1 .. Len(s.queue) : s.queue[i] = order[s.visited + i]
    /\ Len(s.nodes) = IF s.visited > offset THEN s.visited - offset ELSE 0
    /\ \A i \in 1 .. Len(s.nodes) : s.nodes[i] = [node |-> order[offset + i].node, index |-> offset + i - 1]
    /\ ~s.truncated => offset = 0 /\ ends[s.visited] <= offset + PageSize

\* What an order has at one place, as a page needs it.
LEMMA OrderAt ==
    ASSUME TreesAssumption, NEW t \in Trees, NEW root \in Nodes(t), NEW region, NEW order, NEW ends,
           IsOrder(t, root, region, order, ends), NEW v \in 0 .. Len(order)
    PROVE  /\ Len(order) \in Nat /\ \A i \in 1 .. Len(order) : order[i] \in Entries(t)
           /\ ends[v] \in Nat /\ v <= ends[v] /\ ends[v] <= Len(order)
           /\ v < Len(order) =>
                 LET below == Below(t, region, order[v + 1])
                 IN  /\ v + 1 <= ends[v] /\ ends[v + 1] = ends[v] + Len(below)
                     /\ ends[v + 1] \in Nat /\ ends[v + 1] <= Len(order)
                     /\ \A i \in 1 .. Len(below) :
                           order[ends[v] + i] = Entry(below[i], order[v + 1].depth + 1)
<1>1. order \in Seq(Entries(t)) /\ Len(order) \in Nat /\ \A i \in 1 .. Len(order) : order[i] \in Entries(t)
  <2>1. order \in Seq(Entries(t))
    BY DEF IsOrder, Rooted
  <2> QED BY <2>1, LenProperties, ElementOfSeq
<1>2. PICK m \in Nat : m = Len(order) /\ Opened(t, region, order, ends, m)
  BY <1>1 DEF IsOrder
<1>3. /\ ends \in [0 .. m -> Nat] /\ ends[m] = m
      /\ \A k \in 0 .. m : ends[k] <= m /\ (k < m => k + 1 <= ends[k])
  <2>1. /\ ends \in [0 .. m -> Nat] /\ ends[m] = Len(order)
        /\ \A k \in 0 .. m : ends[k] <= Len(order) /\ (k < m => k + 1 <= ends[k])
    BY <1>2 DEF Opened
  <2> QED BY <1>2, <2>1
<1>4. ends[v] \in Nat /\ v <= ends[v] /\ ends[v] <= Len(order)
  <2>1. v \in 0 .. m /\ ends[v] \in Nat /\ v \in Nat
    BY <1>2, <1>3
  <2>2. CASE v = m
    BY <1>2, <1>3, <2>1, <2>2
  <2>3. CASE v < m
    <3>1. v + 1 <= ends[v] /\ ends[v] <= m
      BY <1>3, <2>1, <2>3
    <3> QED BY <1>2, <2>1, <3>1
  <2> QED BY <2>1, <2>2, <2>3
<1>5. ASSUME v < Len(order)
      PROVE  LET below == Below(t, region, order[v + 1])
             IN  /\ v + 1 <= ends[v] /\ ends[v + 1] = ends[v] + Len(below)
                 /\ ends[v + 1] \in Nat /\ ends[v + 1] <= Len(order)
                 /\ \A i \in 1 .. Len(below) : order[ends[v] + i] = Entry(below[i], order[v + 1].depth + 1)
  <2>1. PICK k \in 1 .. m : k = v + 1 /\ k \in 0 .. m /\ k - 1 = v
    BY <1>2, <1>5
  <2>2. /\ ends[k] = ends[k - 1] + Len(Below(t, region, order[k]))
        /\ \A i \in 1 .. Len(Below(t, region, order[k])) :
              order[ends[k - 1] + i] = Entry(Below(t, region, order[k])[i], order[k].depth + 1)
    BY <1>2 DEF Opened
  <2>3. v + 1 <= ends[v] /\ ends[k] \in Nat /\ ends[k] <= Len(order)
    BY <1>2, <1>3, <1>5, <2>1
  <2> QED BY <2>1, <2>2, <2>3
<1>6. v < Len(order) =>
        LET below == Below(t, region, order[v + 1])
        IN  /\ v + 1 <= ends[v] /\ ends[v + 1] = ends[v] + Len(below)
            /\ ends[v + 1] \in Nat /\ ends[v + 1] <= Len(order)
            /\ \A i \in 1 .. Len(below) : order[ends[v] + i] = Entry(below[i], order[v + 1].depth + 1)
  BY <1>5
<1> QED BY <1>1, <1>4, <1>6

\* A round keeps to the order.
LEMMA PageKeepsTrack ==
    ASSUME TreesAssumption, NEW t \in Trees, NEW root \in Nodes(t), NEW region, NEW order, NEW ends,
           IsOrder(t, root, region, order, ends), NEW offset \in Nat, NEW s \in PageStates(t),
           OnTrack(offset, order, ends, s)
    PROVE  /\ PageStep(t, region, offset, s) \in PageStates(t)
           /\ OnTrack(offset, order, ends, PageStep(t, region, offset, s))
           /\ s.queue = <<>> => PageStep(t, region, offset, s) = s
           /\ s.queue # <<>> => PageStep(t, region, offset, s).visited = s.visited + 1
<1>1. CASE s.queue = <<>>
  <2>1. PageStep(t, region, offset, s) = s
    BY <1>1 DEF PageStep
  <2> QED BY <1>1, <2>1
<1>2. CASE s.queue # <<>>
  <2>1. /\ s.queue \in Seq(Entries(t)) /\ s.nodes \in Seq([node : Nodes(t), index : Nat])
        /\ s.visited \in Nat /\ s.truncated \in BOOLEAN /\ Len(s.nodes) \in Nat /\ Len(s.queue) \in Nat
    <3>1. /\ s.queue \in Seq(Entries(t)) /\ s.nodes \in Seq([node : Nodes(t), index : Nat])
          /\ s.visited \in Nat /\ s.truncated \in BOOLEAN
      BY DEF PageStates
    <3> QED BY <3>1, LenProperties
  <2>2. /\ s.visited <= Len(order) /\ s.visited <= offset + PageSize
        /\ Len(s.queue) = Least(ends[s.visited], offset + PageSize) - s.visited
        /\ \A i \in 1 .. Len(s.queue) : s.queue[i] = order[s.visited + i]
        /\ Len(s.nodes) = IF s.visited > offset THEN s.visited - offset ELSE 0
        /\ \A i \in 1 .. Len(s.nodes) : s.nodes[i] = [node |-> order[offset + i].node, index |-> offset + i - 1]
        /\ ~s.truncated => offset = 0 /\ ends[s.visited] <= offset + PageSize
    BY DEF OnTrack
  <2>3. PICK limit \in Nat : limit = offset + PageSize /\ limit > offset
    BY DEF TreesAssumption
  <2>4. PICK v \in Nat : v = s.visited
    BY <2>1
  <2>5. PageSize \in Nat /\ MaxDepth \in Nat
    BY DEF TreesAssumption
  <2>6. /\ Head(s.queue) = s.queue[1] /\ Len(s.queue) > 0
        /\ Tail(s.queue) \in Seq(Entries(t)) /\ Len(Tail(s.queue)) = Len(s.queue) - 1
        /\ \A i \in 1 .. Len(Tail(s.queue)) : Tail(s.queue)[i] = s.queue[i + 1]
    <3>1. Len(s.queue) # 0
      BY <1>2, <2>1, EmptySeq
    <3> QED BY <1>2, <2>1, <3>1, HeadTailProperties
  <2>7. Len(order) \in Nat /\ v \in 0 .. Len(order) /\ ends[v] \in Nat /\ ends[v] <= Len(order)
    <3>1. Len(order) \in Nat
      BY OrderIsBounded DEF IsOrder
    <3>2. v \in 0 .. Len(order)
      BY <2>2, <2>4, <3>1
    <3> QED BY <3>1, <3>2, OrderAt
  <2>8. Len(s.queue) = Least(ends[v], limit) - v
    BY <2>2, <2>3, <2>4
  <2>9. v < limit /\ v < ends[v] /\ v < Len(order) /\ v + 1 \in 1 .. Len(order) /\ v + 1 \in 0 .. Len(order)
    <3>1. Least(ends[v], limit) <= ends[v] /\ Least(ends[v], limit) <= limit /\ Least(ends[v], limit) \in Nat
      BY <2>7, LeastIs
    <3>2. v < Least(ends[v], limit)
      BY <2>1, <2>6, <2>8, <3>1
    <3>3. v < limit /\ v < ends[v]
      BY <2>7, <3>1, <3>2
    <3> QED BY <2>7, <3>3
  <2>10. PICK e \in Entries(t) : e = order[v + 1]
    BY <2>7, <2>9, OrderAt
  <2>11. e.node \in Nodes(t) /\ e.depth \in Nat
    BY DEF Entries
  <2>12. e = Head(s.queue)
    <3>1. 1 \in 1 .. Len(s.queue)
      BY <2>1, <2>6
    <3> QED BY <2>2, <2>4, <2>6, <2>10, <3>1
  <2>13. PICK rest \in Seq(Entries(t)) : rest = Tail(s.queue)
    BY <2>6
  <2>14. PICK room \in Nat : room = limit - (v + 1)
    BY <2>9
  <2>15. PICK below : below = Below(t, region, e)
    OBVIOUS
  <2>16. PICK kids : kids = Kids[t][e.node]
    OBVIOUS
  <2> DEFINE closed == region = Window /\ t.what[e.node] \in Menus
             more == IF closed THEN [queue |-> rest, cut |-> FALSE] ELSE Enqueue(t, e, rest, room)
             nodes == IF v >= offset THEN Append(s.nodes, [node |-> e.node, index |-> v]) ELSE s.nodes
  <2>17. PageStep(t, region, offset, s) =
           [queue |-> more.queue, visited |-> v + 1, truncated |-> s.truncated \/ more.cut, nodes |-> nodes]
    <3>1. room = IF TraversalLimit(offset) > s.visited + 1 THEN TraversalLimit(offset) - (s.visited + 1) ELSE 0
      <4>1. TraversalLimit(offset) = limit
        BY <2>3 DEF TraversalLimit
      <4>2. room = IF limit > v + 1 THEN limit - (v + 1) ELSE 0
        BY <2>7, <2>9, <2>14
      <4> QED BY <2>4, <4>1, <4>2
    <3>2. ~(Len(s.nodes) >= PageSize)
      BY <2>1, <2>2, <2>3, <2>4, <2>5, <2>9
    <3> QED BY <1>2, <2>4, <2>12, <2>13, <3>1, <3>2 DEF PageStep
  <2>18. /\ Len(below) \in Nat /\ v + 1 <= ends[v] /\ ends[v + 1] = ends[v] + Len(below)
         /\ ends[v + 1] \in Nat /\ ends[v + 1] <= Len(order)
         /\ \A i \in 1 .. Len(below) : order[ends[v] + i] = Entry(below[i], e.depth + 1)
    <3>1. Len(below) \in Nat
      BY <2>15, BelowIs
    <3>2. v + 1 <= ends[v]
      BY <2>7, <2>9
    <3>3. /\ ends[v + 1] = ends[v] + Len(Below(t, region, order[v + 1]))
          /\ ends[v + 1] \in Nat /\ ends[v + 1] <= Len(order)
          /\ \A i \in 1 .. Len(Below(t, region, order[v + 1])) :
                order[ends[v] + i] = Entry(Below(t, region, order[v + 1])[i], order[v + 1].depth + 1)
      BY <2>7, <2>9, OrderAt
    <3> QED BY <2>10, <2>15, <3>1, <3>2, <3>3
  <2>19. /\ Len(rest) \in Nat /\ Len(rest) = Least(ends[v], limit) - (v + 1)
         /\ \A i \in 1 .. Len(rest) : rest[i] = order[v + 1 + i]
    <3>1. Len(rest) \in Nat
      BY LenProperties
    <3>2. Least(ends[v], limit) \in Nat
      BY <2>7, LeastIs
    <3>3. Len(rest) = Least(ends[v], limit) - (v + 1)
      BY <2>6, <2>8, <2>13, <3>2
    <3>4. ASSUME NEW i \in 1 .. Len(rest) PROVE rest[i] = order[v + 1 + i]
      <4>1. i + 1 \in 1 .. Len(s.queue) /\ v + (i + 1) = v + 1 + i
        BY <2>1, <2>6, <2>13, <3>1
      <4>2. s.queue[i + 1] = order[s.visited + (i + 1)]
        BY <2>2, <4>1
      <4>3. rest[i] = s.queue[i + 1]
        BY <2>6, <2>13
      <4> QED BY <2>4, <4>1, <4>2, <4>3
    <3> QED BY <3>1, <3>3, <3>4
  <2>20. /\ more.queue \in Seq(Entries(t)) /\ more.cut \in BOOLEAN
         /\ Len(more.queue) = Least(ends[v + 1], limit) - (v + 1)
         /\ \A i \in 1 .. Len(more.queue) : more.queue[i] = order[v + 1 + i]
         /\ ~more.cut /\ ends[v] <= limit => ends[v + 1] <= limit
    <3>1. CASE closed
      <4>1. below = <<>>
        BY <2>15, <3>1 DEF Below, Unfolds
      <4>2. ends[v + 1] = ends[v]
        BY <2>7, <2>18, <4>1, EmptySeq
      <4>3. more = [queue |-> rest, cut |-> FALSE]
        BY <3>1
      <4> HIDE DEF more
      <4>4. more.queue = rest /\ more.cut = FALSE
        BY <4>3
      <4> QED BY <2>19, <4>2, <4>4
    <3>2. CASE ~closed
      <4> DEFINE n == TakesIn(t, e, rest, room)
      <4>1. more = Enqueue(t, e, rest, room)
        BY <3>2
      <4> HIDE DEF more
      <4>2. /\ more.queue \in Seq(Entries(t)) /\ Len(more.queue) = Len(rest) + n
            /\ \A i \in 1 .. Len(rest) : more.queue[i] = rest[i]
            /\ \A i \in 1 .. n : more.queue[Len(rest) + i] = Entry(kids[i], e.depth + 1)
            /\ more.cut \in BOOLEAN /\ (~more.cut => n = Len(kids))
        <5>1. /\ Enqueue(t, e, rest, room).queue \in Seq(Entries(t))
              /\ Len(Enqueue(t, e, rest, room).queue) = Len(rest) + TakesIn(t, e, rest, room)
              /\ \A i \in 1 .. Len(rest) : Enqueue(t, e, rest, room).queue[i] = rest[i]
              /\ \A i \in 1 .. TakesIn(t, e, rest, room) :
                    Enqueue(t, e, rest, room).queue[Len(rest) + i] = Entry(Kids[t][e.node][i], e.depth + 1)
              /\ Enqueue(t, e, rest, room).cut \in BOOLEAN
              /\ ~Enqueue(t, e, rest, room).cut => TakesIn(t, e, rest, room) = Len(Kids[t][e.node])
          BY EnqueueIs
        <5> QED BY <2>16, <4>1, <5>1
      <4>3. Len(kids) \in Nat
        <5>1. kids \in Seq(Nodes(t))
          BY <2>11, <2>16, KidsAre
        <5> QED BY <5>1, LenProperties
      <4>4. CASE e.depth >= MaxDepth
        <5>1. below = <<>> /\ n = 0
          BY <2>5, <2>11, <2>15, <4>4 DEF Below, Unfolds, TakesIn
        <5>2. ends[v + 1] = ends[v]
          BY <2>7, <2>18, <5>1, EmptySeq
        <5> HIDE DEF n
        <5>3. Len(more.queue) = Len(rest)
          BY <2>19, <4>2, <5>1
        <5>4. \A i \in 1 .. Len(more.queue) : more.queue[i] = order[v + 1 + i]
          BY <2>19, <4>2, <5>3
        <5> QED BY <2>19, <4>2, <5>2, <5>3, <5>4
      <4>5. CASE ~(e.depth >= MaxDepth)
        <5>1. below = kids
          BY <2>5, <2>11, <2>15, <2>16, <3>2, <4>5 DEF Below, Unfolds
        <5>2. n = FitsIn(Len(rest), room, Len(kids))
          BY <2>16, <4>5 DEF TakesIn
        <5> HIDE DEF n
        <5>3. /\ n \in Nat /\ n <= Len(kids)
              /\ Len(rest) + n = Least(ends[v] + Len(kids), limit) - (v + 1)
              /\ n > 0 => Len(rest) = ends[v] - (v + 1)
              /\ n = Len(kids) /\ ends[v] <= limit => ends[v] + Len(kids) <= limit
          <6>1. PICK end \in Nat : end = ends[v]
            BY <2>7
          <6>2. PICK r \in Nat : r = Len(rest)
            BY <2>19
          <6>3. PICK c \in Nat : c = Len(kids)
            BY <4>3
          <6>4. v < limit /\ v < end /\ r = Least(end, limit) - (v + 1) /\ room = limit - (v + 1)
            BY <2>9, <2>14, <2>19, <6>1, <6>2
          <6>5. /\ FitsIn(r, room, c) \in Nat /\ FitsIn(r, room, c) <= c
                /\ r + FitsIn(r, room, c) = Least(end + c, limit) - (v + 1)
                /\ FitsIn(r, room, c) > 0 => r = end - (v + 1)
                /\ FitsIn(r, room, c) = c /\ end <= limit => end + c <= limit
            <7>1. CASE end < limit
              <8>1. r = end - (v + 1) /\ room - r = limit - end /\ ~(r >= room)
                BY <6>4, <7>1 DEF Least, FitsIn
              <8>2. CASE limit - end < c
                BY <6>4, <7>1, <8>1, <8>2 DEF Least, FitsIn
              <8>3. CASE ~(limit - end < c)
                BY <6>4, <7>1, <8>1, <8>3 DEF Least, FitsIn
              <8> QED BY <6>4, <8>2, <8>3
            <7>2. CASE ~(end < limit)
              <8>1. r = room
                BY <6>4, <7>2 DEF Least
              <8>2. Least(end + c, limit) = limit
                BY <6>4, <7>2 DEF Least, FitsIn
              <8>3. end <= limit => end = limit
                BY <6>4, <7>2
              <8>4. FitsIn(r, room, c) = 0
                BY <6>4, <8>1 DEF FitsIn
              <8> QED BY <6>4, <8>1, <8>2, <8>3, <8>4
            <7> QED BY <6>4, <7>1, <7>2
          <6> QED BY <5>2, <6>1, <6>2, <6>3, <6>5
        <5>4. ASSUME NEW i \in 1 .. Len(rest) + n PROVE more.queue[i] = order[v + 1 + i]
          <6>1. CASE i \in 1 .. Len(rest)
            BY <2>19, <4>2, <6>1
          <6>2. CASE i \notin 1 .. Len(rest)
            <7>1. PICK j \in 1 .. n : i = Len(rest) + j
              <8>1. i - Len(rest) \in 1 .. n /\ i = Len(rest) + (i - Len(rest))
                BY <2>19, <5>3, <6>2
              <8> QED BY <8>1
            <7>2. n > 0 /\ j \in 1 .. Len(kids)
              BY <4>3, <5>3
            <7>3. v + 1 + i = ends[v] + j
              <8>1. Len(rest) = ends[v] - (v + 1) /\ i = Len(rest) + j
                BY <5>3, <7>1, <7>2
              <8>2. Len(rest) \in Nat /\ ends[v] \in Nat /\ v \in Nat
                BY <2>7, <2>19
              <8>3. i \in Nat
                BY <7>1, <8>2
              <8>4. j \in Nat
                OBVIOUS
              <8>5. PICK x \in Nat, y \in Nat : x = Len(rest) /\ y = ends[v]
                BY <8>2
              <8>6. x = y - (v + 1) /\ i = x + j
                BY <8>1, <8>5
              <8>7. v + 1 + i = y + j
                BY <8>2, <8>3, <8>4, <8>6, CountedFrom
              <8> QED BY <8>5, <8>7
            <7>4. more.queue[Len(rest) + j] = Entry(kids[j], e.depth + 1)
              BY <4>2
            <7>5. order[ends[v] + j] = Entry(kids[j], e.depth + 1)
              BY <2>18, <5>1, <7>2
            <7> QED BY <7>1, <7>3, <7>4, <7>5
          <6> QED BY <6>1, <6>2
        <5>5. ends[v + 1] = ends[v] + Len(kids)
          BY <2>18, <5>1
        <5>6. ~more.cut /\ ends[v] <= limit => ends[v + 1] <= limit
          BY <4>2, <5>3, <5>5
        <5>7. Len(more.queue) = Len(rest) + n /\ more.queue \in Seq(Entries(t)) /\ more.cut \in BOOLEAN
          BY <4>2
        <5>8. Len(more.queue) = Least(ends[v + 1], limit) - (v + 1)
          BY <5>3, <5>5, <5>7
        <5> QED BY <5>4, <5>6, <5>7, <5>8
      <4> QED BY <4>4, <4>5
    <3> QED BY <3>1, <3>2
  <2>21. Len(s.nodes) = IF v > offset THEN v - offset ELSE 0
    BY <2>2, <2>4
  <2>22. /\ nodes \in Seq([node : Nodes(t), index : Nat])
         /\ Len(nodes) = IF v + 1 > offset THEN v + 1 - offset ELSE 0
         /\ \A i \in 1 .. Len(nodes) : nodes[i] = [node |-> order[offset + i].node, index |-> offset + i - 1]
    <3>1. CASE v >= offset
      <4>1. PICK x \in [node : Nodes(t), index : Nat] : x = [node |-> e.node, index |-> v]
        BY <2>11
      <4>2. nodes = Append(s.nodes, x)
        BY <3>1, <4>1
      <4>3. Len(s.nodes) = v - offset
        BY <2>21, <3>1
      <4> HIDE DEF nodes
      <4>4. /\ nodes \in Seq([node : Nodes(t), index : Nat]) /\ Len(nodes) = Len(s.nodes) + 1
            /\ nodes[Len(s.nodes) + 1] = x /\ \A i \in 1 .. Len(s.nodes) : nodes[i] = s.nodes[i]
        BY <2>1, <4>2, AppendProperties
      <4>5. Len(nodes) = v + 1 - offset
        BY <3>1, <4>3, <4>4
      <4>6. ASSUME NEW i \in 1 .. Len(nodes) PROVE nodes[i] = [node |-> order[offset + i].node, index |-> offset + i - 1]
        <5>1. CASE i = Len(s.nodes) + 1
          <6>1. offset + i = v + 1 /\ offset + i - 1 = v
            BY <2>1, <4>3, <5>1
          <6> QED BY <2>10, <4>1, <4>4, <5>1, <6>1
        <5>2. CASE i \in 1 .. Len(s.nodes)
          BY <2>2, <4>4, <5>2
        <5>3. i = Len(s.nodes) + 1 \/ i \in 1 .. Len(s.nodes)
          <6>1. Len(s.nodes) \in Nat /\ i \in 1 .. Len(s.nodes) + 1
            BY <2>1, <4>4
          <6> QED BY <6>1, LastOrBefore
        <5> QED BY <5>1, <5>2, <5>3
      <4>7. Len(nodes) = IF v + 1 > offset THEN v + 1 - offset ELSE 0
        BY <3>1, <4>5
      <4> QED BY <4>4, <4>6, <4>7
    <3>2. CASE ~(v >= offset)
      <4>1. nodes = s.nodes
        BY <3>2
      <4> HIDE DEF nodes
      <4>2. Len(s.nodes) = 0 /\ ~(v + 1 > offset)
        BY <2>21, <3>2
      <4> QED BY <2>1, <4>1, <4>2
    <3> QED BY <3>1, <3>2
  <2> HIDE DEF more, nodes
  <2>23. PICK next : next = PageStep(t, region, offset, s)
    OBVIOUS
  <2>24. next = [queue |-> more.queue, visited |-> v + 1, truncated |-> s.truncated \/ more.cut, nodes |-> nodes]
    BY <2>17, <2>23
  <2>25. /\ next.visited = v + 1 /\ next.queue = more.queue /\ next.nodes = nodes
         /\ next.truncated = (s.truncated \/ more.cut)
    BY <2>24
  <2>26. next \in PageStates(t)
    BY <2>1, <2>20, <2>22, <2>24 DEF PageStates
  <2>27. OnTrack(offset, order, ends, next)
    <3>1. v + 1 <= Len(order) /\ v + 1 <= limit
      BY <2>7, <2>9
    <3>2. ~next.truncated => offset = 0 /\ ends[v + 1] <= limit
      BY <2>1, <2>2, <2>3, <2>4, <2>20, <2>25
    <3>3. /\ next.visited <= Len(order) /\ next.visited <= offset + PageSize
          /\ Len(next.queue) = Least(ends[next.visited], offset + PageSize) - next.visited
      BY <2>3, <2>20, <2>25, <3>1
    <3>4. \A i \in 1 .. Len(next.queue) : next.queue[i] = order[next.visited + i]
      BY <2>20, <2>25
    <3>5. /\ Len(next.nodes) = IF next.visited > offset THEN next.visited - offset ELSE 0
          /\ \A i \in 1 .. Len(next.nodes) : next.nodes[i] = [node |-> order[offset + i].node, index |-> offset + i - 1]
      BY <2>22, <2>25
    <3>6. ~next.truncated => offset = 0 /\ ends[next.visited] <= offset + PageSize
      BY <2>3, <2>25, <3>2
    <3> QED BY <3>3, <3>4, <3>5, <3>6 DEF OnTrack
  <2> QED BY <1>2, <2>4, <2>23, <2>25, <2>26, <2>27
<1> QED BY <1>1, <1>2

-----------------------------------------------------------------------------
(* The page, to its end. *)

LEMMA PageStart ==
    ASSUME TreesAssumption, NEW t \in Trees, NEW root \in Nodes(t), NEW region, NEW order, NEW ends,
           IsOrder(t, root, region, order, ends), NEW offset \in Nat
    PROVE  LET start == [queue |-> <<[node |-> root, depth |-> 0]>>, nodes |-> <<>>, visited |-> 0,
                         truncated |-> offset > 0]
           IN  start \in PageStates(t) /\ OnTrack(offset, order, ends, start)
<1> DEFINE first == [node |-> root, depth |-> 0]
           queue == <<first>>
           start == [queue |-> queue, nodes |-> <<>>, visited |-> 0, truncated |-> offset > 0]
<1>1. first \in Entries(t) /\ first = Entry(root, 0)
  BY DEF Entries, Entry
<1> HIDE DEF first
<1>2. queue \in Seq(Entries(t)) /\ Len(queue) = 1 /\ queue[1] = first
  BY <1>1
<1> HIDE DEF queue
<1>3. start.queue = queue /\ start.nodes = <<>> /\ start.visited = 0 /\ start.truncated = (offset > 0)
  OBVIOUS
<1>4. start \in PageStates(t)
  <2>1. <<>> \in Seq([node : Nodes(t), index : Nat])
    BY EmptySeq
  <2> QED BY <1>2, <2>1 DEF PageStates
<1> HIDE DEF start
<1>5. Opened(t, region, order, ends, Len(order)) /\ Rooted(t, root, region, order, Len(order))
  BY DEF IsOrder
<1>6. ends[0] = 1
  BY <1>5 DEF Opened
<1>7. Len(order) \in Nat /\ Len(order) >= 1 /\ order[1] = Entry(root, 0)
  BY <1>5, OrderIsBounded DEF Rooted
<1>8. PageSize \in Nat /\ PageSize >= 1
  BY DEF TreesAssumption
<1>9. Least(ends[0], offset + PageSize) = 1
  BY <1>6, <1>8 DEF Least
<1>10. Len(start.queue) = Least(ends[start.visited], offset + PageSize) - start.visited
  BY <1>2, <1>3, <1>9
<1>11. \A i \in 1 .. Len(start.queue) : start.queue[i] = order[start.visited + i]
  <2>1. \A i \in 1 .. Len(start.queue) : i = 1 /\ start.visited + i = 1
    <3>1. Len(start.queue) = 1 /\ start.visited = 0
      BY <1>2, <1>3
    <3> QED BY <3>1
  <2>2. start.queue[1] = order[1]
    BY <1>1, <1>2, <1>3, <1>7
  <2> QED BY <2>1, <2>2
<1>12. Len(start.nodes) = 0
  BY <1>3, EmptySeq
<1>13. ~start.truncated => offset = 0 /\ ends[start.visited] <= offset + PageSize
  <2>1. ~start.truncated => ~(offset > 0)
    BY <1>3
  <2>2. ends[start.visited] = 1
    BY <1>3, <1>6
  <2> HIDE DEF start
  <2> QED BY <1>8, <2>1, <2>2
<1>14. start.visited <= Len(order) /\ start.visited <= offset + PageSize /\ ~(start.visited > offset)
  BY <1>3, <1>7, <1>8
<1>15. OnTrack(offset, order, ends, start)
  BY <1>10, <1>11, <1>12, <1>13, <1>14 DEF OnTrack
<1> QED BY <1>4, <1>15 DEF start, queue, first

\* Its loop ends with nothing left in the queue.
LEMMA PageIs ==
    ASSUME TreesAssumption, NEW t \in Trees, NEW root \in Nodes(t), NEW region, NEW order, NEW ends,
           IsOrder(t, root, region, order, ends), NEW offset \in Nat
    PROVE  /\ Page(t, root, region, offset) \in PageStates(t)
           /\ OnTrack(offset, order, ends, Page(t, root, region, offset))
           /\ Page(t, root, region, offset).queue = <<>>
<1> DEFINE start == [queue |-> <<[node |-> root, depth |-> 0]>>, nodes |-> <<>>, visited |-> 0,
                     truncated |-> offset > 0]
           n == Len(t.parent) + 1
           Body(g) == [k \in 0 .. n |->
                         IF k = 0 THEN start
                         ELSE CHOOSE s \in {PageStep(t, region, offset, before) : before \in {g[k - 1]}} : TRUE]
           after == CHOOSE g : g = Body(g)
           S == {s \in PageStates(t) : OnTrack(offset, order, ends, s)}
           F == [s \in S |-> PageStep(t, region, offset, s)]
<1>1. Page(t, root, region, offset) = after[n]
  BY DEF Page
<1>2. start \in S
  BY PageStart
<1> HIDE DEF start
<1>3. n \in Nat
  BY NodesAre
<1>4. \A s \in S : /\ PageStep(t, region, offset, s) \in S /\ F[s] = PageStep(t, region, offset, s)
                   /\ s.queue = <<>> => F[s] = s
                   /\ s.queue # <<>> => F[s].visited = s.visited + 1
  BY PageKeepsTrack
<1>5. F \in [S -> S]
  BY <1>4
<1> HIDE DEF F, S
<1>6. PICK f \in [0 .. n -> S] : f[0] = start /\ \A k \in 1 .. n : f[k] = F[f[k - 1]]
  <2>1. \A m \in Nat : \E f \in [0 .. m -> S] : Repeats(F, start, m, f)
    BY <1>2, <1>5, Iterates
  <2> QED BY <1>3, <2>1 DEF Repeats
<1>7. \A x : (CHOOSE s \in {PageStep(t, region, offset, before) : before \in {x}} : TRUE) = PageStep(t, region, offset, x)
  OBVIOUS
<1>8. Body(f) = f
  <2>1. ASSUME NEW k \in 0 .. n PROVE Body(f)[k] = f[k]
    <3>1. CASE k = 0
      BY <1>6, <3>1
    <3>2. CASE k # 0
      <4>1. k \in 1 .. n /\ k - 1 \in 0 .. n
        BY <1>3, <3>2
      <4>2. Body(f)[k] = PageStep(t, region, offset, f[k - 1])
        BY <1>7, <3>2
      <4> QED BY <1>4, <1>6, <4>1, <4>2
    <3> QED BY <3>1, <3>2
  <2>2. Body(f) = [k \in 0 .. n |-> Body(f)[k]]
    OBVIOUS
  <2>3. f = [k \in 0 .. n |-> f[k]]
    BY <1>6
  <2> HIDE DEF Body
  <2> QED BY <2>1, <2>2, <2>3
<1>9. after = Body(after)
  <2> HIDE DEF Body
  <2> QED BY <1>8
<1>10. after[0] = start /\ \A k \in 1 .. n : after[k] = PageStep(t, region, offset, after[k - 1])
  <2>1. after[0] = Body(after)[0] /\ \A k \in 1 .. n : after[k] = Body(after)[k]
    <3> HIDE DEF Body, after
    <3> QED BY <1>9
  <2> HIDE DEF after
  <2>2. Body(after)[0] = start
    BY <1>3
  <2>3. ASSUME NEW k \in 1 .. n PROVE Body(after)[k] = PageStep(t, region, offset, after[k - 1])
    BY <1>3, <1>7
  <2> HIDE DEF Body
  <2> QED BY <2>1, <2>2, <2>3
<1> HIDE DEF after
<1> DEFINE T == {k \in Nat : k <= n => after[k] \in S /\ (after[k].queue = <<>> \/ after[k].visited = k)}
<1>11. 0 \in T
  BY <1>2, <1>10 DEF start
<1>12. ASSUME NEW k \in Nat, k \in T PROVE k + 1 \in T
  <2>1. SUFFICES ASSUME k + 1 <= n
                 PROVE  after[k + 1] \in S /\ (after[k + 1].queue = <<>> \/ after[k + 1].visited = k + 1)
    OBVIOUS
  <2>2. after[k] \in S /\ (after[k].queue = <<>> \/ after[k].visited = k)
    BY <1>3, <1>12, <2>1
  <2>3. after[k + 1] = PageStep(t, region, offset, after[k])
    <3>1. k + 1 \in 1 .. n /\ k + 1 - 1 = k
      BY <1>3, <2>1
    <3> QED BY <1>10, <3>1
  <2> QED BY <1>4, <2>2, <2>3
<1> HIDE DEF T
<1>13. n \in T
  BY <1>3, <1>11, <1>12, AllOfNat
<1>14. after[n] \in S /\ (after[n].queue = <<>> \/ after[n].visited = n)
  BY <1>3, <1>13 DEF T
<1>15. after[n].visited # n
  <2>1. after[n].visited <= Len(order) /\ Len(order) <= Len(t.parent) /\ Len(order) \in Nat /\ Len(t.parent) \in Nat
    BY <1>14, OrderIsBounded, NodesAre DEF S, OnTrack, IsOrder
  <2> QED BY <2>1
<1> QED BY <1>1, <1>14, <1>15 DEF S

\* What a page shows: the order from its offset on, and all of the rest if there is no more.
PageShown(t, order, offset, page) ==
    /\ Len(page.nodes) \in Nat /\ Len(page.nodes) <= PageSize /\ page.truncated \in BOOLEAN
    /\ page.nodes \in Seq([node : Nodes(t), index : Nat])
    /\ offset <= Len(order) =>
          /\ offset + Len(page.nodes) <= Len(order)
          /\ \A i \in 1 .. Len(page.nodes) : page.nodes[i].node = order[offset + i].node
          /\ ~HasMore(page) => offset + Len(page.nodes) = Len(order)

LEMMA PageShows ==
    ASSUME TreesAssumption, NEW t \in Trees, NEW root \in Nodes(t), NEW region, NEW order, NEW ends,
           IsOrder(t, root, region, order, ends), NEW offset \in Nat, NEW page,
           page = Page(t, root, region, offset)
    PROVE  PageShown(t, order, offset, page)
<1>1. page \in PageStates(t) /\ OnTrack(offset, order, ends, page) /\ page.queue = <<>>
  BY PageIs
<1>2. /\ page.nodes \in Seq([node : Nodes(t), index : Nat]) /\ Len(page.nodes) \in Nat
      /\ page.truncated \in BOOLEAN /\ page.visited \in Nat
  <2>1. /\ page.nodes \in Seq([node : Nodes(t), index : Nat])
        /\ page.truncated \in BOOLEAN /\ page.visited \in Nat
    BY <1>1 DEF PageStates
  <2> QED BY <2>1, LenProperties
<1>3. PICK limit \in Nat : limit = offset + PageSize
  BY DEF TreesAssumption
<1>4. PICK v \in Nat : v = page.visited
  BY <1>2
<1>5. /\ v <= Len(order) /\ v <= limit /\ 0 = Least(ends[v], limit) - v
      /\ Len(page.nodes) = IF v > offset THEN v - offset ELSE 0
      /\ \A i \in 1 .. Len(page.nodes) : page.nodes[i] = [node |-> order[offset + i].node, index |-> offset + i - 1]
      /\ ~page.truncated => ends[v] <= limit
  BY <1>1, <1>3, <1>4, EmptySeq DEF OnTrack
<1>6. /\ Len(order) \in Nat /\ ends[v] \in Nat /\ v <= ends[v]
      /\ v < Len(order) => v + 1 <= ends[v]
  <2>1. Len(order) \in Nat
    BY OrderIsBounded DEF IsOrder
  <2>2. v \in 0 .. Len(order)
    BY <1>5, <2>1
  <2> QED BY <2>1, <2>2, OrderAt
<1>7. ends[v] = v \/ limit = v
  BY <1>5, <1>6 DEF Least
<1>8. PageSize \in Nat /\ Len(page.nodes) <= PageSize
  <2>1. PageSize \in Nat
    BY DEF TreesAssumption
  <2> QED BY <1>3, <1>5, <2>1
<1>9. ASSUME offset <= Len(order)
      PROVE  /\ offset + Len(page.nodes) <= Len(order)
             /\ \A i \in 1 .. Len(page.nodes) : page.nodes[i].node = order[offset + i].node
             /\ ~HasMore(page) => offset + Len(page.nodes) = Len(order)
  <2>1. offset + Len(page.nodes) <= Len(order)
    BY <1>5, <1>6, <1>9
  <2>2. ASSUME NEW i \in 1 .. Len(page.nodes) PROVE page.nodes[i].node = order[offset + i].node
    <3>1. page.nodes[i] = [node |-> order[offset + i].node, index |-> offset + i - 1]
      BY <1>5
    <3> QED BY <3>1
  <2>3. ASSUME ~HasMore(page) PROVE offset + Len(page.nodes) = Len(order)
    <3>1. ~page.truncated \/ Len(page.nodes) < PageSize
      BY <1>2, <1>8, <2>3 DEF HasMore
    <3>2. ends[v] = v
      <4>1. CASE ~page.truncated
        BY <1>5, <1>6, <1>7, <4>1
      <4>2. CASE Len(page.nodes) < PageSize
        BY <1>3, <1>5, <1>7, <1>8, <4>2
      <4> QED BY <3>1, <4>1, <4>2
    <3>3. v = Len(order)
      BY <1>5, <1>6, <3>2
    <3> QED BY <1>5, <1>9, <3>3
  <2> QED BY <2>1, <2>2, <2>3
<1>10. offset <= Len(order) =>
          /\ offset + Len(page.nodes) <= Len(order)
          /\ \A i \in 1 .. Len(page.nodes) : page.nodes[i].node = order[offset + i].node
          /\ ~HasMore(page) => offset + Len(page.nodes) = Len(order)
  BY <1>9
<1> QED BY <1>2, <1>8, <1>10 DEF PageShown

\* The nodes of the order are what there is to see.
LEMMA OrderIsVisible ==
    ASSUME TreesAssumption, NEW t \in Trees, NEW root \in Nodes(t), NEW region, NEW order, NEW ends,
           IsOrder(t, root, region, order, ends)
    PROVE  {order[i].node : i \in 1 .. Len(order)} = Visible(t, root, region)
<1> DEFINE more(X) == X \cup {n \in Nodes(t) : /\ t.parent[n] \in X
                                               /\ region = Window => t.what[t.parent[n]] \notin Menus}
           Body(g) == [d \in 0 .. MaxDepth |->
                         IF d = 0 THEN {root}
                         ELSE g[d - 1] \cup {n \in Nodes(t) : /\ t.parent[n] \in g[d - 1]
                                                              /\ region = Window => t.what[t.parent[n]] \notin Menus}]
           under == CHOOSE g : g = Body(g)
           S == SUBSET Nodes(t)
           F == [X \in S |-> more(X)]
           start == {root}
<1>1. Visible(t, root, region) = under[MaxDepth]
  BY DEF Visible
<1>2. MaxDepth \in Nat
  BY DEF TreesAssumption
<1>3. start \in S /\ F \in [S -> S] /\ \A X \in S : F[X] = more(X)
  OBVIOUS
<1>a. start = {root}
  OBVIOUS
<1> HIDE DEF S, F, start
<1>4. PICK f \in [0 .. MaxDepth -> S] : f[0] = start /\ \A d \in 1 .. MaxDepth : f[d] = F[f[d - 1]]
  <2>1. \A m \in Nat : \E f \in [0 .. m -> S] : Repeats(F, start, m, f)
    BY <1>3, Iterates
  <2> QED BY <1>2, <2>1 DEF Repeats
<1>b. \A g : /\ Body(g)[0] = {root}
             /\ \A d \in 1 .. MaxDepth : Body(g)[d] = more(g[d - 1])
             /\ Body(g) = [d \in 0 .. MaxDepth |-> Body(g)[d]]
  BY <1>2
<1> HIDE DEF Body
<1>5. Body(f) = f
  <2>1. ASSUME NEW d \in 0 .. MaxDepth PROVE Body(f)[d] = f[d]
    <3>1. CASE d = 0
      BY <1>4, <1>a, <1>b, <3>1
    <3>2. CASE d # 0
      <4>1. d \in 1 .. MaxDepth /\ d - 1 \in 0 .. MaxDepth
        BY <1>2, <3>2
      <4>2. f[d - 1] \in S
        BY <4>1
      <4> HIDE DEF more
      <4> QED BY <1>3, <1>4, <1>b, <4>1, <4>2
    <3> QED BY <3>1, <3>2
  <2>2. f = [d \in 0 .. MaxDepth |-> f[d]]
    BY <1>4
  <2> QED BY <1>b, <2>1, <2>2
<1>6. under = Body(under)
  BY <1>5
<1> HIDE DEF under
<1>7. under[0] = {root} /\ \A d \in 1 .. MaxDepth : under[d] = more(under[d - 1])
  BY <1>6, <1>b
<1>8. /\ order \in Seq(Entries(t)) /\ Len(order) \in Nat /\ Len(order) >= 1 /\ order[1].node = root /\ order[1].depth = 0
      /\ \A i \in 1 .. Len(order) : order[i] \in Entries(t) /\ order[i].node \in Nodes(t) /\ order[i].depth \in Nat
  <2>1. Rooted(t, root, region, order, Len(order))
    BY DEF IsOrder
  <2>2. order \in Seq(Entries(t)) /\ Len(order) \in Nat /\ Len(order) >= 1 /\ order[1] = Entry(root, 0)
    BY <2>1, OrderIsBounded DEF Rooted
  <2>3. \A i \in 1 .. Len(order) : order[i] \in Entries(t)
    BY <2>2, ElementOfSeq
  <2> QED BY <2>2, <2>3, EntryIs DEF Entries
<1>9. \A j \in 2 .. Len(order) : \E k \in 1 .. Len(order) :
         /\ t.parent[order[j].node] = order[k].node
         /\ order[j].depth = order[k].depth + 1 /\ Unfolds(t, region, order[k])
  BY DEF IsOrder, Rooted
<1>10. ASSUME NEW k \in 1 .. Len(order), Unfolds(t, region, order[k]),
              NEW n \in Nodes(t), t.parent[n] = order[k].node
       PROVE  \E j \in 1 .. Len(order) : order[j].node = n /\ order[j].depth = order[k].depth + 1
  <2>1. order[k] \in Entries(t)
    BY <1>8
  <2>2. PICK i \in 1 .. Len(Below(t, region, order[k])) : Below(t, region, order[k])[i] = n
    <3>1. PICK e \in Entries(t) : e = order[k]
      BY <2>1
    <3>2. Unfolds(t, region, e) /\ t.parent[n] = e.node
      BY <1>10, <3>1
    <3>3. PICK i \in 1 .. Len(Below(t, region, e)) : Below(t, region, e)[i] = n
      BY <3>2, BelowAll
    <3> QED BY <3>1, <3>3
  <2>3. PICK v \in 0 .. Len(order) : k = v + 1 /\ v < Len(order)
    <3>1. k - 1 \in 0 .. Len(order) /\ k = (k - 1) + 1 /\ k - 1 < Len(order)
      BY <1>8, OneBefore
    <3> QED BY <3>1
  <2>4. /\ ends[v] \in Nat /\ ends[v + 1] = ends[v] + Len(Below(t, region, order[v + 1]))
        /\ ends[v + 1] \in Nat /\ ends[v + 1] <= Len(order)
        /\ \A b \in 1 .. Len(Below(t, region, order[v + 1])) :
              order[ends[v] + b] = Entry(Below(t, region, order[v + 1])[b], order[v + 1].depth + 1)
    BY <2>3, OrderAt
  <2>5. Len(Below(t, region, order[k])) \in Nat
    BY <2>1, BelowIs
  <2>6. ends[v] + i \in 1 .. Len(order)
    <3>1. ends[v] \in Nat /\ ends[v] + Len(Below(t, region, order[k])) <= Len(order)
      BY <2>3, <2>4
    <3> QED BY <1>8, <2>5, <3>1, SumWithin
  <2>7. order[ends[v] + i] = Entry(n, order[k].depth + 1)
    BY <2>2, <2>3, <2>4
  <2> QED BY <2>6, <2>7, EntryIs
<1>11. \A j \in 1 .. Len(order) : order[j].depth \in 0 .. MaxDepth /\ order[j].node \in under[order[j].depth]
  <2> DEFINE T == {d \in Nat : \A j \in 1 .. Len(order) : order[j].depth = d => d <= MaxDepth /\ order[j].node \in under[d]}
  <2>1. 0 \in T
    <3>1. SUFFICES ASSUME NEW j \in 1 .. Len(order), order[j].depth = 0 PROVE 0 <= MaxDepth /\ order[j].node \in under[0]
      OBVIOUS
    <3>2. j = 1
      <4>1. SUFFICES ASSUME j # 1 PROVE FALSE
        OBVIOUS
      <4>2. j \in 2 .. Len(order)
        BY <1>8, <4>1
      <4>3. PICK k \in 1 .. Len(order) : order[j].depth = order[k].depth + 1
        BY <1>9, <4>2
      <4> QED BY <1>8, <3>1, <4>3
    <3> QED BY <1>2, <1>7, <1>8, <3>2
  <2>2. ASSUME NEW d \in Nat, d \in T PROVE d + 1 \in T
    <3>1. SUFFICES ASSUME NEW j \in 1 .. Len(order), order[j].depth = d + 1
                   PROVE  d + 1 <= MaxDepth /\ order[j].node \in under[d + 1]
      OBVIOUS
    <3>2. j # 1
      BY <1>8, <3>1
    <3>3. j \in 2 .. Len(order)
      BY <1>8, <3>2
    <3>4. PICK k \in 1 .. Len(order) :
             /\ t.parent[order[j].node] = order[k].node
             /\ order[j].depth = order[k].depth + 1 /\ Unfolds(t, region, order[k])
      BY <1>9, <3>3
    <3>5. order[k].depth = d
      <4>1. order[k].depth \in Nat /\ order[k].depth + 1 = d + 1
        BY <1>8, <3>1, <3>4
      <4> QED BY <4>1, SameBefore
    <3>6. order[k].node \in under[d]
      BY <2>2, <3>5
    <3>7. d < MaxDepth /\ (region = Window => t.what[order[k].node] \notin Menus)
      BY <3>4, <3>5 DEF Unfolds
    <3>8. d + 1 \in 1 .. MaxDepth /\ d + 1 - 1 = d
      BY <1>2, <3>7
    <3>9. order[j].node \in more(under[d])
      BY <1>8, <3>4, <3>6, <3>7
    <3> HIDE DEF more
    <3>10. under[d + 1] = more(under[d])
      BY <1>7, <3>8
    <3> QED BY <3>8, <3>9, <3>10
  <2> HIDE DEF T
  <2>3. Nat \subseteq T
    BY <2>1, <2>2, AllOfNat
  <2>4. SUFFICES ASSUME NEW j \in 1 .. Len(order)
                 PROVE  order[j].depth \in 0 .. MaxDepth /\ order[j].node \in under[order[j].depth]
    OBVIOUS
  <2>5. order[j].depth \in Nat /\ order[j].depth \in T
    BY <1>8, <2>3
  <2> QED BY <1>2, <2>5 DEF T
<1>12. \A d \in 0 .. MaxDepth : under[d] \subseteq under[MaxDepth]
  <2> DEFINE T == {k \in Nat : k <= MaxDepth => under[MaxDepth - k] \subseteq under[MaxDepth]}
  <2>1. 0 \in T
    BY <1>2
  <2>2. ASSUME NEW k \in Nat, k \in T PROVE k + 1 \in T
    <3>1. SUFFICES ASSUME k + 1 <= MaxDepth PROVE under[MaxDepth - (k + 1)] \subseteq under[MaxDepth]
      OBVIOUS
    <3>2. under[MaxDepth - k] \subseteq under[MaxDepth]
      BY <1>2, <2>2, <3>1
    <3>3. MaxDepth - k \in 1 .. MaxDepth /\ MaxDepth - k - 1 = MaxDepth - (k + 1)
      BY <1>2, <3>1
    <3>4. under[MaxDepth - k] = more(under[MaxDepth - (k + 1)])
      BY <1>7, <3>3
    <3> QED BY <3>2, <3>4
  <2> HIDE DEF T
  <2>3. Nat \subseteq T
    BY <2>1, <2>2, AllOfNat
  <2>4. SUFFICES ASSUME NEW d \in 0 .. MaxDepth PROVE under[d] \subseteq under[MaxDepth]
    OBVIOUS
  <2>5. MaxDepth - d \in Nat /\ MaxDepth - d \in T /\ MaxDepth - d <= MaxDepth /\ MaxDepth - (MaxDepth - d) = d
    BY <1>2, <2>3
  <2> QED BY <2>5 DEF T
<1>13. \A n \in under[MaxDepth] : \E j \in 1 .. Len(order) : order[j].node = n
  <2> DEFINE Reached(d) == \A n \in under[d] : \E j \in 1 .. Len(order) : order[j].node = n /\ order[j].depth <= d
             T == {d \in Nat : d <= MaxDepth => Reached(d)}
  <2>1. 0 \in T
    <3>1. 1 \in 1 .. Len(order) /\ order[1].depth <= 0
      BY <1>8
    <3> QED BY <1>7, <1>8, <3>1
  <2>2. ASSUME NEW d \in Nat, d \in T PROVE d + 1 \in T
    <3> HIDE DEF Reached
    <3>a. SUFFICES ASSUME d + 1 <= MaxDepth PROVE Reached(d + 1)
      OBVIOUS
    <3>b. Reached(d)
      BY <1>2, <2>2, <3>a
    <3> USE DEF Reached
    <3>1. SUFFICES ASSUME NEW n \in under[d + 1]
                   PROVE  \E j \in 1 .. Len(order) : order[j].node = n /\ order[j].depth <= d + 1
      OBVIOUS
    <3>2. \A m \in under[d] : \E j \in 1 .. Len(order) : order[j].node = m /\ order[j].depth <= d
      BY <3>b
    <3>3. n \in more(under[d])
      <4>1. d + 1 \in 1 .. MaxDepth /\ d + 1 - 1 = d
        BY <1>2, <3>a
      <4> HIDE DEF more
      <4> QED BY <1>7, <3>1, <4>1
    <3>4. CASE n \in under[d]
      <4>1. PICK j \in 1 .. Len(order) : order[j].node = n /\ order[j].depth <= d
        BY <3>2, <3>4
      <4>2. order[j].depth <= d + 1
        BY <1>8, <4>1
      <4> QED BY <4>1, <4>2
    <3>5. CASE /\ n \in Nodes(t) /\ t.parent[n] \in under[d]
               /\ region = Window => t.what[t.parent[n]] \notin Menus
      <4>1. PICK k \in 1 .. Len(order) : order[k].node = t.parent[n] /\ order[k].depth <= d
        BY <3>2, <3>5
      <4>2. order[k].depth \in Nat /\ order[k].depth < MaxDepth
        BY <1>2, <1>8, <3>a, <4>1
      <4>3. Unfolds(t, region, order[k])
        BY <3>5, <4>1, <4>2 DEF Unfolds
      <4>4. PICK j \in 1 .. Len(order) : order[j].node = n /\ order[j].depth = order[k].depth + 1
        BY <1>10, <3>5, <4>1, <4>3
      <4>5. order[j].depth <= d + 1
        BY <4>1, <4>2, <4>4
      <4> QED BY <4>4, <4>5
    <3> QED BY <3>3, <3>4, <3>5
  <2> HIDE DEF T
  <2>3. MaxDepth \in T
    BY <1>2, <2>1, <2>2, AllOfNat
  <2> QED BY <1>2, <2>3 DEF T
<1>14. ASSUME NEW j \in 1 .. Len(order) PROVE order[j].node \in under[MaxDepth]
  BY <1>11, <1>12
<1>15. \A x : x \in {order[i].node : i \in 1 .. Len(order)} <=> x \in under[MaxDepth]
  BY <1>13, <1>14
<1> QED BY <1>1, <1>15

-----------------------------------------------------------------------------
(* The search, and the root it comes to. *)

Searches(t, fitting) ==
    {s \in [queue : Seq(Entries(t)), seen : SUBSET Nodes(t), found : Seq(fitting), cut : BOOLEAN] :
        IsFiniteSet(s.seen)}

\* A step of the search finds only what fits.
LEMMA SearchStepIs ==
    ASSUME TreesAssumption, NEW t \in Trees, NEW fitting \in SUBSET Nodes(t), NEW s \in Searches(t, fitting)
    PROVE  SearchStep(t, fitting, s) \in Searches(t, fitting)
<1>1. /\ s.queue \in Seq(Entries(t)) /\ s.seen \in SUBSET Nodes(t) /\ s.found \in Seq(fitting)
      /\ s.cut \in BOOLEAN /\ IsFiniteSet(s.seen)
      /\ s = [queue |-> s.queue, seen |-> s.seen, found |-> s.found, cut |-> s.cut]
  BY DEF Searches
<1>a. \A queue, cut : /\ [s EXCEPT !.queue = queue, !.cut = cut] = [queue |-> queue, seen |-> s.seen, found |-> s.found, cut |-> cut]
                     /\ [s EXCEPT !.queue = queue] = [queue |-> queue, seen |-> s.seen, found |-> s.found, cut |-> s.cut]
  <2>1. PICK a, b, c, d : s = [queue |-> a, seen |-> b, found |-> c, cut |-> d]
    BY <1>1
  <2>2. SUFFICES ASSUME NEW queue, NEW cut
                 PROVE  /\ [s EXCEPT !.queue = queue, !.cut = cut] = [queue |-> queue, seen |-> b, found |-> c, cut |-> cut]
                        /\ [s EXCEPT !.queue = queue] = [queue |-> queue, seen |-> b, found |-> c, cut |-> d]
    BY <2>1
  <2>3. [[queue |-> a, seen |-> b, found |-> c, cut |-> d] EXCEPT !.queue = queue] = [queue |-> queue, seen |-> b, found |-> c, cut |-> d]
    OBVIOUS
  <2>4. [[queue |-> queue, seen |-> b, found |-> c, cut |-> d] EXCEPT !.cut = cut] = [queue |-> queue, seen |-> b, found |-> c, cut |-> cut]
    OBVIOUS
  <2>5. [s EXCEPT !.queue = queue, !.cut = cut] = [[s EXCEPT !.queue = queue] EXCEPT !.cut = cut]
    OBVIOUS
  <2> QED BY <2>1, <2>3, <2>4, <2>5
<1>2. CASE s.queue = <<>>
  BY <1>2 DEF SearchStep
<1>3. CASE s.queue # <<>> /\ Cardinality(s.seen) >= SearchBudget
  <2>1. SearchStep(t, fitting, s) = [s EXCEPT !.queue = <<>>, !.cut = TRUE]
    BY <1>3 DEF SearchStep
  <2>2. <<>> \in Seq(Entries(t))
    BY EmptySeq
  <2>3. [s EXCEPT !.queue = <<>>, !.cut = TRUE] = [queue |-> <<>>, seen |-> s.seen, found |-> s.found, cut |-> TRUE]
    BY <1>a
  <2> QED BY <1>1, <2>1, <2>2, <2>3 DEF Searches
<1>4. CASE s.queue # <<>> /\ ~(Cardinality(s.seen) >= SearchBudget)
  <2>1. Head(s.queue) \in Entries(t) /\ Tail(s.queue) \in Seq(Entries(t))
    BY <1>1, <1>4, HeadTailProperties
  <2>2. PICK e \in Entries(t) : e = Head(s.queue)
    BY <2>1
  <2>3. e.node \in Nodes(t)
    BY DEF Entries
  <2>4. CASE e.node \in s.seen
    <3>1. SearchStep(t, fitting, s) = [s EXCEPT !.queue = Tail(s.queue)]
      BY <1>4, <2>2, <2>4 DEF SearchStep
    <3>2. [s EXCEPT !.queue = Tail(s.queue)] = [queue |-> Tail(s.queue), seen |-> s.seen, found |-> s.found, cut |-> s.cut]
      BY <1>a
    <3> QED BY <1>1, <2>1, <3>1, <3>2 DEF Searches
  <2>5. CASE e.node \notin s.seen
    <3> DEFINE seen == s.seen \cup {e.node}
               room == SearchBudget - Cardinality(seen)
               more == Enqueue(t, e, Tail(s.queue), room)
               found == IF e.node \in fitting THEN Append(s.found, e.node) ELSE s.found
    <3>1. IsFiniteSet(seen) /\ Cardinality(seen) = Cardinality(s.seen) + 1 /\ Cardinality(s.seen) \in Nat
      BY <1>1, <2>5, FS_AddElement, FS_CardinalityType
    <3>2. seen \in SUBSET Nodes(t)
      BY <1>1, <2>3
    <3> HIDE DEF seen
    <3>3. room \in Nat
      BY <1>4, <3>1 DEF TreesAssumption
    <3> HIDE DEF room
    <3>4. more.queue \in Seq(Entries(t)) /\ more.cut \in BOOLEAN
      BY <2>1, <3>3, EnqueueIs
    <3>5. found \in Seq(fitting)
      BY <1>1, AppendProperties
    <3>6. SearchStep(t, fitting, s) = [queue |-> more.queue, seen |-> seen, cut |-> s.cut \/ more.cut, found |-> found]
      BY <1>4, <2>2, <2>5 DEF SearchStep, seen, room
    <3> HIDE DEF more, found
    <3> QED BY <1>1, <3>1, <3>2, <3>4, <3>5, <3>6 DEF Searches
  <2> QED BY <2>4, <2>5
<1> QED BY <1>2, <1>3, <1>4

\* The outermost menu around the focus, if there is one.
LEMMA FocusedMenuIs ==
    ASSUME TreesAssumption, NEW t \in Trees
    PROVE  FocusedMenu(t) = {} \/ \E m \in Nodes(t) : FocusedMenu(t) = {m}
<1> DEFINE around == CHOOSE around : around = [n \in {0} \cup Nodes(t) |-> IF n = 0 THEN {} ELSE {n} \cup around[t.parent[n]]]
           menus == {n \in Nodes(t) : n \in around[t.focus] /\ t.what[n] \in Menus}
<1>1. FocusedMenu(t) = {n \in menus : \A m \in menus : n <= m}
  BY DEF FocusedMenu
<1> HIDE DEF around
<1>2. menus \subseteq Nodes(t) /\ \A n \in Nodes(t) : n \in Nat
  BY NodesAre
<1> HIDE DEF menus
<1>3. \A m, n \in FocusedMenu(t) : m \in Nodes(t) /\ m = n
  <2>1. SUFFICES ASSUME NEW m \in FocusedMenu(t), NEW n \in FocusedMenu(t) PROVE m \in Nodes(t) /\ m = n
    OBVIOUS
  <2>2. m \in Nat /\ n \in Nat /\ m <= n /\ n <= m /\ m \in Nodes(t)
    BY <1>1, <1>2
  <2> QED BY <2>2
<1> QED BY <1>3

\* What the search finds fits.
LEMMA SearchFinds ==
    ASSUME TreesAssumption, NEW t \in Trees, NEW fitting \in SUBSET Nodes(t)
    PROVE  Search(t, fitting).found \in Seq(fitting)
<1> DEFINE roots == <<Root>> \o (IF FocusedMenu(t) \subseteq {Root} THEN <<>>
                                ELSE <<CHOOSE m \in FocusedMenu(t) : TRUE>>)
           start == [queue |-> [i \in DOMAIN roots |-> [node |-> roots[i], depth |-> 0]],
                     seen |-> {}, found |-> <<>>, cut |-> FALSE]
           n == 2 * Len(t.parent)
           Body(g) == [k \in 0 .. n |->
                         IF k = 0 THEN start
                         ELSE CHOOSE s \in {SearchStep(t, fitting, before) : before \in {g[k - 1]}} : TRUE]
           after == CHOOSE g : g = Body(g)
           S == Searches(t, fitting)
           F == [s \in S |-> SearchStep(t, fitting, s)]
<1>1. Search(t, fitting) = after[n]
  BY DEF Search
<1>2. start \in S
  <2>1. roots \in Seq(Nodes(t))
    <3>1. Root \in Nodes(t)
      BY NodesAre
    <3>2. CASE FocusedMenu(t) \subseteq {Root}
      BY <3>1, <3>2
    <3>3. CASE ~(FocusedMenu(t) \subseteq {Root})
      <4>1. PICK m \in Nodes(t) : FocusedMenu(t) = {m}
        BY <3>3, FocusedMenuIs
      <4>2. (CHOOSE x \in FocusedMenu(t) : TRUE) \in Nodes(t)
        BY <4>1
      <4> QED BY <3>1, <3>3, <4>2
    <3> QED BY <3>2, <3>3
  <2> HIDE DEF roots
  <2> DEFINE queue == [i \in DOMAIN roots |-> [node |-> roots[i], depth |-> 0]]
  <2>2. queue \in Seq(Entries(t))
    <3>1. Len(roots) \in Nat /\ DOMAIN roots = 1 .. Len(roots) /\ \A i \in DOMAIN roots : roots[i] \in Nodes(t)
      BY <2>1, LenProperties, ElementOfSeq
    <3>2. queue \in [1 .. Len(roots) -> Entries(t)]
      BY <3>1 DEF Entries
    <3> HIDE DEF queue
    <3> QED BY <3>1, <3>2, SeqDef
  <2>3. <<>> \in Seq(fitting) /\ IsFiniteSet({})
    BY EmptySeq, FS_EmptySet
  <2>4. start = [queue |-> queue, seen |-> {}, found |-> <<>>, cut |-> FALSE]
    OBVIOUS
  <2> HIDE DEF queue, start
  <2> QED BY <2>2, <2>3, <2>4 DEF Searches
<1> HIDE DEF start
<1>3. n \in Nat
  BY NodesAre
<1>4. \A s \in S : SearchStep(t, fitting, s) \in S /\ F[s] = SearchStep(t, fitting, s)
  BY SearchStepIs
<1>5. F \in [S -> S]
  BY <1>4
<1> HIDE DEF F, S
<1>6. PICK f \in [0 .. n -> S] : f[0] = start /\ \A k \in 1 .. n : f[k] = F[f[k - 1]]
  <2>1. \A m \in Nat : \E f \in [0 .. m -> S] : Repeats(F, start, m, f)
    BY <1>2, <1>5, Iterates
  <2> QED BY <1>3, <2>1 DEF Repeats
<1>7. \A x : (CHOOSE s \in {SearchStep(t, fitting, before) : before \in {x}} : TRUE) = SearchStep(t, fitting, x)
  OBVIOUS
<1>8. \A g : /\ Body(g)[0] = start
             /\ \A k \in 1 .. n : Body(g)[k] = SearchStep(t, fitting, g[k - 1])
             /\ Body(g) = [k \in 0 .. n |-> Body(g)[k]]
  BY <1>3, <1>7
<1> HIDE DEF Body
<1>9. Body(f) = f
  <2>1. ASSUME NEW k \in 0 .. n PROVE Body(f)[k] = f[k]
    <3>1. CASE k = 0
      BY <1>6, <1>8, <3>1
    <3>2. CASE k # 0
      <4>1. k \in 1 .. n /\ k - 1 \in 0 .. n
        BY <1>3, <3>2
      <4>2. Body(f)[k] = SearchStep(t, fitting, f[k - 1])
        BY <1>8, <4>1
      <4> QED BY <1>4, <1>6, <4>1, <4>2
    <3> QED BY <3>1, <3>2
  <2>2. f = [k \in 0 .. n |-> f[k]]
    BY <1>6
  <2> QED BY <1>8, <2>1, <2>2
<1>10. after = Body(after)
  BY <1>9
<1> HIDE DEF after
<1>11. after[0] = start /\ \A k \in 1 .. n : after[k] = SearchStep(t, fitting, after[k - 1])
  BY <1>8, <1>10
<1> DEFINE T == {k \in Nat : k <= n => after[k] \in S}
<1>12. 0 \in T
  BY <1>2, <1>11
<1>13. ASSUME NEW k \in Nat, k \in T PROVE k + 1 \in T
  <2>1. SUFFICES ASSUME k + 1 <= n PROVE after[k + 1] \in S
    OBVIOUS
  <2>2. after[k] \in S
    BY <1>3, <1>13, <2>1
  <2>3. after[k + 1] = SearchStep(t, fitting, after[k])
    <3>1. k + 1 \in 1 .. n /\ k + 1 - 1 = k
      BY <1>3, <2>1
    <3> QED BY <1>11, <3>1
  <2> QED BY <1>4, <2>2, <2>3
<1> HIDE DEF T
<1>14. n \in T
  BY <1>3, <1>12, <1>13, AllOfNat
<1>15. after[n] \in S
  BY <1>3, <1>14 DEF T
<1> QED BY <1>1, <1>15 DEF S, Searches

\* A region has one root or none, and that of a container is like the container.
LEMMA RegionRootIs ==
    ASSUME TreesAssumption, NEW t \in Trees, NEW region, NEW about, NEW root \in RegionRoots(t, region, about)
    PROVE  /\ root \in Nodes(t) /\ RegionRoots(t, region, about) = {root}
           /\ region \notin {Window, Menu} => IsLike(t, root, about)
<1>1. CASE region = Window
  BY <1>1, NodesAre DEF RegionRoots
<1>2. CASE region # Window /\ region = Menu
  <2> DEFINE found == Search(t, {n \in Nodes(t) : t.what[n] \in Menus}).found
  <2>1. found \in Seq({n \in Nodes(t) : t.what[n] \in Menus})
    BY SearchFinds
  <2>2. RegionRoots(t, region, about) = IF FocusedMenu(t) # {} THEN FocusedMenu(t)
                                        ELSE IF found = <<>> THEN {} ELSE {Head(found)}
    BY <1>2 DEF RegionRoots
  <2> HIDE DEF found
  <2>3. CASE FocusedMenu(t) # {}
    <3>1. RegionRoots(t, region, about) = FocusedMenu(t)
      BY <2>2, <2>3
    <3> QED BY <1>2, <2>3, <3>1, FocusedMenuIs
  <2>4. CASE FocusedMenu(t) = {}
    <3>1. found # <<>> /\ RegionRoots(t, region, about) = {Head(found)}
      BY <2>2, <2>4
    <3>2. Head(found) \in {n \in Nodes(t) : t.what[n] \in Menus}
      BY <2>1, <3>1, HeadTailProperties
    <3> QED BY <1>2, <3>1, <3>2
  <2> QED BY <2>3, <2>4
<1>3. CASE region \notin {Window, Menu}
  <2> DEFINE search == Search(t, {n \in Nodes(t) : IsLike(t, n, about)})
  <2>1. search.found \in Seq({n \in Nodes(t) : IsLike(t, n, about)})
    BY SearchFinds
  <2>2. RegionRoots(t, region, about) = IF search.cut \/ Len(search.found) # 1 THEN {} ELSE {Head(search.found)}
    BY <1>3 DEF RegionRoots
  <2> HIDE DEF search
  <2>3. Len(search.found) = 1 /\ RegionRoots(t, region, about) = {Head(search.found)}
    BY <2>2
  <2>4. search.found # <<>>
    BY <2>3, EmptySeq
  <2>5. Head(search.found) \in {n \in Nodes(t) : IsLike(t, n, about)}
    BY <2>1, <2>4, HeadTailProperties
  <2> QED BY <2>3, <2>5
<1> QED BY <1>1, <1>2, <1>3

\* No more is said of a node's ancestors than the adapter goes up.
LEMMA ChainIs ==
    ASSUME TreesAssumption, NEW t \in Trees, NEW n \in Nodes(t)
    PROVE  Len(Chain[t][n]) \in Nat /\ Len(Chain[t][n]) <= MaxChain
<1> DEFINE context(m) == IF t.what[m] \in Plain THEN <<>> ELSE <<t.what[m]>>
           Body(g) == [k \in 0 .. MaxChain |->
                         [m \in Nodes(t) |->
                            IF k = 0 \/ t.parent[m] \in {0, Root} THEN <<>>
                            ELSE g[k - 1][t.parent[m]] \o context(t.parent[m])]]
           up == CHOOSE g : g = Body(g)
           W == {t.what[m] : m \in Nodes(t)}
           S == [Nodes(t) -> Seq(W)]
           start == [m \in Nodes(t) |-> <<>>]
           next(G) == [m \in Nodes(t) |-> IF t.parent[m] \in {0, Root} THEN <<>>
                                          ELSE G[t.parent[m]] \o context(t.parent[m])]
           F == [G \in S |-> next(G)]
<1>1. Chain[t] = up[MaxChain]
  BY DEF Chain
<1>2. MaxChain \in Nat
  BY DEF TreesAssumption
<1>3. \A m \in Nodes(t) : t.parent[m] \notin {0, Root} => t.parent[m] \in Nodes(t)
  <2>1. SUFFICES ASSUME NEW m \in Nodes(t), t.parent[m] # 0 PROVE t.parent[m] \in Nodes(t)
    OBVIOUS
  <2>2. t.parent[m] \in Nat /\ t.parent[m] < m /\ m \in 1 .. Len(t.parent) /\ Len(t.parent) \in Nat
    BY NodesAre
  <2>3. t.parent[m] \in 1 .. Len(t.parent)
    BY <2>1, <2>2, Earlier
  <2> QED BY <2>3, NodesAre
<1>4. \A m \in Nodes(t) : context(m) \in Seq(W) /\ Len(context(m)) \in Nat /\ Len(context(m)) <= 1
  <2>1. SUFFICES ASSUME NEW m \in Nodes(t) PROVE context(m) \in Seq(W) /\ Len(context(m)) \in Nat /\ Len(context(m)) <= 1
    OBVIOUS
  <2>2. CASE t.what[m] \in Plain
    BY <2>2, EmptySeq
  <2>3. CASE t.what[m] \notin Plain
    <3>1. t.what[m] \in W
      OBVIOUS
    <3> HIDE DEF W
    <3> QED BY <2>3, <3>1
  <2> QED BY <2>2, <2>3
<1> HIDE DEF context, W
<1>5. start \in S
  BY EmptySeq
<1>6. \A G \in S : next(G) \in S /\ F[G] = next(G)
  <2>1. SUFFICES ASSUME NEW G \in S PROVE next(G) \in S
    OBVIOUS
  <2>2. ASSUME NEW m \in Nodes(t), t.parent[m] \notin {0, Root} PROVE G[t.parent[m]] \o context(t.parent[m]) \in Seq(W)
    BY <1>3, <1>4, <2>2, ConcatProperties
  <2>3. <<>> \in Seq(W)
    BY EmptySeq
  <2> QED BY <2>2, <2>3
<1>7. F \in [S -> S]
  BY <1>6
<1>8. \A g : /\ Body(g)[0] = start
             /\ \A k \in 1 .. MaxChain : Body(g)[k] = next(g[k - 1])
             /\ Body(g) = [k \in 0 .. MaxChain |-> Body(g)[k]]
  <2>1. SUFFICES ASSUME NEW g
                 PROVE  /\ Body(g)[0] = start
                        /\ \A k \in 1 .. MaxChain : Body(g)[k] = next(g[k - 1])
                        /\ Body(g) = [k \in 0 .. MaxChain |-> Body(g)[k]]
    OBVIOUS
  <2>2. Body(g)[0] = start
    BY <1>2
  <2>3. ASSUME NEW k \in 1 .. MaxChain PROVE Body(g)[k] = next(g[k - 1])
    <3>1. k # 0 /\ k \in 0 .. MaxChain
      BY <1>2
    <3> QED BY <3>1
  <2> QED BY <2>2, <2>3
<1>9. \A G \in S : \A m \in Nodes(t) :
         /\ Len(start[m]) = 0 /\ Len(G[m]) \in Nat
         /\ Len(next(G)[m]) \in Nat
         /\ t.parent[m] \in {0, Root} => Len(next(G)[m]) = 0
         /\ t.parent[m] \notin {0, Root} => t.parent[m] \in Nodes(t) /\ Len(next(G)[m]) <= Len(G[t.parent[m]]) + 1
  <2>1. SUFFICES ASSUME NEW G \in S, NEW m \in Nodes(t)
                 PROVE  /\ Len(start[m]) = 0 /\ Len(G[m]) \in Nat
                        /\ Len(next(G)[m]) \in Nat
                        /\ t.parent[m] \in {0, Root} => Len(next(G)[m]) = 0
                        /\ t.parent[m] \notin {0, Root} => t.parent[m] \in Nodes(t) /\ Len(next(G)[m]) <= Len(G[t.parent[m]]) + 1
    OBVIOUS
  <2>2. G[m] \in Seq(W) /\ Len(G[m]) \in Nat
    BY LenProperties
  <2>3. start[m] = <<>> /\ Len(<<>>) = 0
    BY EmptySeq
  <2>4. CASE t.parent[m] \in {0, Root}
    <3>1. next(G)[m] = <<>>
      BY <2>4
    <3> QED BY <2>2, <2>3, <2>4, <3>1
  <2>5. CASE t.parent[m] \notin {0, Root}
    <3>1. PICK p \in Nodes(t) : p = t.parent[m]
      BY <1>3, <2>5
    <3>2. next(G)[m] = G[p] \o context(p)
      BY <2>5, <3>1
    <3>3. G[p] \in Seq(W) /\ context(p) \in Seq(W) /\ Len(G[p]) \in Nat /\ Len(context(p)) \in Nat /\ Len(context(p)) <= 1
      BY <1>4, LenProperties
    <3>4. Len(G[p] \o context(p)) = Len(G[p]) + Len(context(p))
      BY <3>3, ConcatProperties
    <3>5. Len(next(G)[m]) \in Nat /\ Len(next(G)[m]) <= Len(G[p]) + 1
      <4>1. Len(next(G)[m]) = Len(G[p]) + Len(context(p))
        BY <3>2, <3>4
      <4> HIDE DEF next
      <4> QED BY <3>3, <4>1
    <3> HIDE DEF next, start
    <3> QED BY <2>2, <2>3, <2>5, <3>1, <3>5
  <2> QED BY <2>4, <2>5
<1> HIDE DEF Body, S, F, next, start
<1>10. PICK f \in [0 .. MaxChain -> S] : f[0] = start /\ \A k \in 1 .. MaxChain : f[k] = F[f[k - 1]]
  <2>1. \A m \in Nat : \E f \in [0 .. m -> S] : Repeats(F, start, m, f)
    BY <1>5, <1>7, Iterates
  <2> QED BY <1>2, <2>1 DEF Repeats
<1>11. Body(f) = f
  <2>1. ASSUME NEW k \in 0 .. MaxChain PROVE Body(f)[k] = f[k]
    <3>1. CASE k = 0
      BY <1>8, <1>10, <3>1
    <3>2. CASE k # 0
      <4>1. k \in 1 .. MaxChain /\ k - 1 \in 0 .. MaxChain
        BY <1>2, <3>2
      <4>2. f[k - 1] \in S
        BY <4>1
      <4> QED BY <1>6, <1>8, <1>10, <4>1, <4>2
    <3> QED BY <3>1, <3>2
  <2>2. f = [k \in 0 .. MaxChain |-> f[k]]
    BY <1>10
  <2> QED BY <1>8, <2>1, <2>2
<1>12. up = Body(up)
  BY <1>11
<1> HIDE DEF up
<1>13. up[0] = start /\ \A k \in 1 .. MaxChain : up[k] = next(up[k - 1])
  BY <1>8, <1>12
<1> DEFINE T == {k \in Nat : k <= MaxChain => up[k] \in S /\ \A m \in Nodes(t) : Len(up[k][m]) <= k}
<1>14. 0 \in T
  BY <1>5, <1>9, <1>13
<1>15. ASSUME NEW k \in Nat, k \in T PROVE k + 1 \in T
  <2>1. SUFFICES ASSUME k + 1 <= MaxChain
                 PROVE  up[k + 1] \in S /\ \A m \in Nodes(t) : Len(up[k + 1][m]) <= k + 1
    OBVIOUS
  <2>2. PICK G \in S : G = up[k] /\ \A m \in Nodes(t) : Len(G[m]) <= k
    BY <1>2, <1>15, <2>1
  <2>3. up[k + 1] = next(G)
    <3>1. k + 1 \in 1 .. MaxChain /\ k + 1 - 1 = k
      BY <1>2, <2>1
    <3> QED BY <1>13, <2>2, <3>1
  <2>4. ASSUME NEW m \in Nodes(t) PROVE Len(next(G)[m]) <= k + 1
    <3>1. CASE t.parent[m] \in {0, Root}
      BY <1>9, <3>1
    <3>2. CASE t.parent[m] \notin {0, Root}
      <4>1. t.parent[m] \in Nodes(t) /\ Len(next(G)[m]) <= Len(G[t.parent[m]]) + 1 /\ Len(next(G)[m]) \in Nat
        BY <1>9, <3>2
      <4>2. Len(G[t.parent[m]]) \in Nat /\ Len(G[t.parent[m]]) <= k
        BY <1>9, <2>2, <4>1
      <4>3. PICK x \in Nat, y \in Nat : x = Len(next(G)[m]) /\ y = Len(G[t.parent[m]])
        BY <4>1, <4>2
      <4>4. x <= k + 1
        <5>1. x <= y + 1
          BY <4>1, <4>3
        <5>2. y <= k
          BY <4>2, <4>3
        <5> QED BY <4>3, <5>1, <5>2, OneMore
      <4> QED BY <4>3, <4>4
    <3> QED BY <3>1, <3>2
  <2> QED BY <1>6, <2>3, <2>4
<1> HIDE DEF T
<1>16. MaxChain \in T
  BY <1>2, <1>14, <1>15, AllOfNat
<1>17. up[MaxChain] \in S /\ Len(up[MaxChain][n]) <= MaxChain
  BY <1>2, <1>16 DEF T
<1>18. Len(up[MaxChain][n]) \in Nat
  BY <1>9, <1>17
<1> QED BY <1>1, <1>17, <1>18

-----------------------------------------------------------------------------
(* The invariant. *)

AtMostOne(v) == \E x : v \subseteq {x}

OrderOf(t, root, region) == CHOOSE order : \E ends : IsOrder(t, root, region, order, ends)

\* The pages read so far are the first nodes of the order, and all of them if there
\* is no more.
Shows(root, r) ==
    LET order == OrderOf(r.tree, root, r.region)
    IN  /\ Len(r.nodes) <= Len(order) /\ \A i \in 1 .. Len(r.nodes) : r.nodes[i] = order[i].node
        /\ ~r.more => Len(r.nodes) = Len(order)

\* The next page will start behind them, at the same root.
Tiles(r, s) ==
    /\ r.tree \in Trees /\ r.region = s.region /\ r.nodes \in Seq(Nodes(r.tree))
    /\ Len(r.nodes) = s.offset + Len(s.ids)
    /\ \E root \in Nodes(r.tree) : RegionRoots(r.tree, r.region, About(r.region)) = {root} /\ Shows(root, r)

MetadataInv ==
    /\ IsFiniteSet(metadata) /\ Cardinality(metadata) <= PageSize
    /\ \A id \in metadata : Len(id.chain) <= MaxChain /\ id.index \in Nat

\* The root of a container is like the container.
ScopeInv == \A r \in scopeRoot : r.id \notin {Window, Menu} => r.about = About(r.id)

IsSpace(s) == s = [region |-> s.region, offset |-> s.offset, ids |-> s.ids, truncated |-> s.truncated]
SpaceInv ==
    \A s \in space :
        /\ IsSpace(s)
        /\ s.offset \in 0 .. MaxOffset /\ s.truncated \in BOOLEAN /\ Len(s.ids) \in 0 .. PageSize

IsReplay(r) == r = [wanted |-> r.wanted, region |-> r.region, offset |-> r.offset, visited |-> r.visited,
                    rounds |-> r.rounds]
ReplayInv ==
    \A r \in replay :
        /\ IsReplay(r)
        /\ r.rounds \in 0 .. MaxTreeRounds /\ r.wanted \in Wanted /\ r.offset \in Nat

ReadingInv ==
    \A r \in reading :
        /\ r = [region |-> r.region, tree |-> r.tree, nodes |-> r.nodes, more |-> r.more]
        /\ \E s \in space : Tiles(r, s)

TreeInv ==
    /\ tree \in Trees /\ treeChanges \in 0 .. MaxTreeChanges
    /\ AtMostOne(scopeRoot) /\ AtMostOne(space) /\ AtMostOne(replay) /\ AtMostOne(reading)
    /\ MetadataInv /\ ScopeInv /\ SpaceInv /\ ReplayInv /\ ReadingInv

LEMMA OneAtMost == \A v : AtMostOne(v) => Cardinality(v) <= 1
<1>1. SUFFICES ASSUME NEW v, NEW x, v \subseteq {x} PROVE Cardinality(v) <= 1
  BY DEF AtMostOne
<1>2. CASE v = {}
  BY <1>2, FS_EmptySet
<1>3. CASE v = {x}
  BY <1>3, FS_Singleton
<1> QED BY <1>1, <1>2, <1>3

\* The order of a region, and its nodes.
LEMMA OrderOfIs ==
    ASSUME TreesAssumption, NEW t \in Trees, NEW root \in Nodes(t), NEW region, NEW order,
           order = OrderOf(t, root, region)
    PROVE  /\ \E ends : IsOrder(t, root, region, order, ends)
           /\ Len(order) \in Nat /\ Len(order) >= 1 /\ order[1].node = root
           /\ \A i \in 1 .. Len(order) : order[i].node \in Nodes(t)
           /\ \A i, j \in 1 .. Len(order) : order[i].node = order[j].node => i = j
           /\ {order[i].node : i \in 1 .. Len(order)} = Visible(t, root, region)
<1>1. PICK ends : IsOrder(t, root, region, order, ends)
  <2>1. \E o : \E ends : IsOrder(t, root, region, o, ends)
    BY RegionHasOrder
  <2> QED BY <2>1 DEF OrderOf
<1>2. Rooted(t, root, region, order, Len(order))
  BY <1>1 DEF IsOrder
<1>3. order \in Seq(Entries(t)) /\ Len(order) >= 1 /\ order[1].node = root
      /\ \A i, j \in 1 .. Len(order) : order[i].node = order[j].node => i = j
  BY <1>2, EntryIs DEF Rooted
<1>4. Len(order) \in Nat
  BY <1>2, OrderIsBounded
<1>5. \A i \in 1 .. Len(order) : order[i].node \in Nodes(t)
  <2>1. \A i \in 1 .. Len(order) : order[i] \in Entries(t)
    BY <1>3, ElementOfSeq
  <2> QED BY <2>1 DEF Entries
<1>6. {order[i].node : i \in 1 .. Len(order)} = Visible(t, root, region)
  BY <1>1, OrderIsVisible
<1> QED BY <1>1, <1>3, <1>4, <1>5, <1>6

\* What the pages tile is what there is to see.
LEMMA ShowsAll ==
    ASSUME TreesAssumption, NEW r, r.tree \in Trees, NEW root \in Nodes(r.tree), Shows(root, r),
           r.nodes \in Seq(Nodes(r.tree))
    PROVE  /\ \A i, j \in DOMAIN r.nodes : r.nodes[i] = r.nodes[j] => i = j
           /\ ~r.more => Elements(r.nodes) = Visible(r.tree, Head(r.nodes), r.region)
<1>1. PICK order : order = OrderOf(r.tree, root, r.region)
  OBVIOUS
<1>2. /\ Len(r.nodes) <= Len(order) /\ \A i \in 1 .. Len(r.nodes) : r.nodes[i] = order[i].node
      /\ ~r.more => Len(r.nodes) = Len(order)
  BY <1>1 DEF Shows
<1>3. /\ Len(order) \in Nat /\ Len(order) >= 1 /\ order[1].node = root
      /\ \A i, j \in 1 .. Len(order) : order[i].node = order[j].node => i = j
      /\ {order[i].node : i \in 1 .. Len(order)} = Visible(r.tree, root, r.region)
  BY <1>1, OrderOfIs
<1>4. Len(r.nodes) \in Nat /\ DOMAIN r.nodes = 1 .. Len(r.nodes)
  BY LenProperties
<1>5. \A i, j \in DOMAIN r.nodes : r.nodes[i] = r.nodes[j] => i = j
  BY <1>2, <1>3, <1>4
<1>6. ASSUME ~r.more PROVE Elements(r.nodes) = Visible(r.tree, Head(r.nodes), r.region)
  <2>1. Len(r.nodes) = Len(order) /\ r.nodes # <<>>
    BY <1>2, <1>3, <1>6, EmptySeq
  <2>2. Head(r.nodes) = root
    <3>1. Head(r.nodes) = r.nodes[1]
      BY <2>1, HeadTailProperties
    <3> QED BY <1>2, <1>3, <2>1, <3>1
  <2>3. Elements(r.nodes) = {order[i].node : i \in 1 .. Len(order)}
    BY <1>2, <1>4, <2>1 DEF Elements
  <2> QED BY <1>3, <2>2, <2>3
<1> QED BY <1>5, <1>6

LEMMA InvTypes == ASSUME TreesAssumption, TreeInv PROVE TreeTypeOK
<1>1. PageSize \in Nat
  BY DEF TreesAssumption
<1>2. \A v \in {scopeRoot, space, replay, reading} : Cardinality(v) <= 1
  BY OneAtMost DEF TreeInv
<1> QED BY <1>1, <1>2 DEF TreeTypeOK, TreeInv, MetadataInv, SpaceInv, ReplayInv

LEMMA InvTiles == ASSUME TreesAssumption, TreeInv PROVE PagesTile
<1>1. SUFFICES ASSUME NEW r \in reading
               PROVE  /\ \A i, j \in DOMAIN r.nodes : r.nodes[i] = r.nodes[j] => i = j
                      /\ ~r.more => Elements(r.nodes) = Visible(r.tree, Head(r.nodes), r.region)
  BY DEF PagesTile
<1>2. PICK s \in space : Tiles(r, s)
  BY DEF TreeInv, ReadingInv
<1>3. PICK root \in Nodes(r.tree) : Shows(root, r)
  BY <1>2 DEF Tiles
<1> QED BY <1>2, <1>3, ShowsAll DEF Tiles

-----------------------------------------------------------------------------
(* What a read does. *)

LEMMA IdsAre ==
    ASSUME TreesAssumption, tree \in Trees, NEW page, page.nodes \in Seq([node : Nodes(tree), index : Nat])
    PROVE  /\ Len(Ids(page)) = Len(page.nodes) /\ Len(page.nodes) \in Nat
           /\ IsFiniteSet(Elements(Ids(page))) /\ Cardinality(Elements(Ids(page))) <= Len(page.nodes)
           /\ \A id \in Elements(Ids(page)) : Len(id.chain) <= MaxChain /\ id.index \in Nat
           /\ Seen(page) \in Seq(Nodes(tree)) /\ Len(Seen(page)) = Len(page.nodes)
           /\ \A i \in 1 .. Len(page.nodes) : Seen(page)[i] = page.nodes[i].node
<1>1. PICK n \in Nat : n = Len(page.nodes) /\ DOMAIN page.nodes = 1 .. n
  BY LenProperties
<1>2. \A i \in 1 .. n : page.nodes[i].node \in Nodes(tree) /\ page.nodes[i].index \in Nat
  <2>1. SUFFICES ASSUME NEW i \in 1 .. n PROVE page.nodes[i].node \in Nodes(tree) /\ page.nodes[i].index \in Nat
    OBVIOUS
  <2>2. page.nodes[i] \in [node : Nodes(tree), index : Nat]
    BY <1>1, ElementOfSeq
  <2> QED BY <2>2
<1> DEFINE ids == Ids(page)
           E == Elements(ids)
<1>3. ids = [i \in 1 .. n |-> NodeId(tree, page.nodes[i].node, page.nodes[i].index)]
  BY <1>1 DEF Ids
<1>4. DOMAIN ids = 1 .. n /\ \A i \in 1 .. n : ids[i] = NodeId(tree, page.nodes[i].node, page.nodes[i].index)
  BY <1>3
<1> HIDE DEF ids
<1>5. E = {ids[i] : i \in 1 .. n}
  BY <1>4 DEF Elements
<1>6. ids \in [1 .. n -> E]
  <2>1. ids = [i \in 1 .. n |-> ids[i]]
    BY <1>3, <1>4
  <2>2. \A i \in 1 .. n : ids[i] \in E
    BY <1>5
  <2> HIDE DEF E
  <2> QED BY <2>1, <2>2
<1>7. Len(ids) = n
  <2>1. ids \in Seq(E)
    <3> HIDE DEF E
    <3> QED BY <1>6, SeqDef
  <2> QED BY <1>1, <1>4, <2>1, LenProperties
<1>8. IsFiniteSet(E) /\ Cardinality(E) <= n
  <2>1. IsFiniteSet(1 .. n) /\ Cardinality(1 .. n) = n
    <3>1. n \in Int /\ 1 \in Int
      BY <1>1
    <3>2. IsFiniteSet(1 .. n) /\ Cardinality(1 .. n) = IF 1 > n THEN 0 ELSE n - 1 + 1
      BY <3>1, FS_Interval
    <3> QED BY <1>1, <3>2
  <2>2. ids \in Surjection(1 .. n, E)
    <3>1. \A x \in E : \E i \in 1 .. n : ids[i] = x
      BY <1>5
    <3> HIDE DEF E
    <3> QED BY <1>6, <3>1 DEF Surjection
  <2> HIDE DEF E
  <2> QED BY <2>1, <2>2, FS_Surjection
<1>9. \A id \in E : Len(id.chain) <= MaxChain /\ id.index \in Nat
  <2>1. SUFFICES ASSUME NEW i \in 1 .. n PROVE Len(ids[i].chain) <= MaxChain /\ ids[i].index \in Nat
    BY <1>5
  <2>2. ids[i].chain = Chain[tree][page.nodes[i].node] /\ ids[i].index = page.nodes[i].index
    BY <1>4 DEF NodeId
  <2> QED BY <1>2, <2>2, ChainIs
<1> DEFINE seen == Seen(page)
<1>10. seen = [i \in 1 .. n |-> page.nodes[i].node]
  BY <1>1 DEF Seen
<1>11. DOMAIN seen = 1 .. n /\ \A i \in 1 .. n : seen[i] = page.nodes[i].node
  BY <1>10
<1> HIDE DEF seen
<1>12. seen \in [1 .. n -> Nodes(tree)]
  BY <1>2, <1>10
<1>13. seen \in Seq(Nodes(tree))
  BY <1>12, SeqDef
<1>14. Len(seen) = n
  BY <1>1, <1>11, <1>13, LenProperties
<1> QED BY <1>1, <1>7, <1>8, <1>9, <1>11, <1>13, <1>14 DEF ids, seen

\* A read: a page of the region from the one root it has.
LEMMA ReadIs ==
    ASSUME TreesAssumption, TreeInv, NEW region, NEW offset \in Nat, NEW read \in Reads(region, offset)
    PROVE  /\ offset + PageSize <= MaxOffset
           /\ read.root \in Nodes(tree) /\ read.page = Page(tree, read.root, region, offset)
           /\ RegionRoots(tree, region, About(region)) = {read.root}
           /\ region \notin {Window, Menu} => IsLike(tree, read.root, About(region))
           /\ \A order : order = OrderOf(tree, read.root, region) => PageShown(tree, order, offset, read.page)
<1>1. PICK about \in AboutRegion(region) : \E root \in RegionRoots(tree, region, about) :
         /\ ~(offset + PageSize > MaxOffset)
         /\ read = [page |-> Page(tree, root, region, offset), root |-> root]
  BY DEF Reads
<1>a. PICK root \in RegionRoots(tree, region, about) :
         /\ ~(offset + PageSize > MaxOffset)
         /\ read = [page |-> Page(tree, root, region, offset), root |-> root]
  BY <1>1
<1>2. about = About(region)
  <2>1. CASE region \in {Window, Menu}
    BY <2>1 DEF AboutRegion
  <2>2. CASE region \notin {Window, Menu}
    <3>1. about \in {About(id) : id \in metadata \cap {region}} \cup {r.about : r \in {s \in scopeRoot : s.id = region}}
      BY <2>2 DEF AboutRegion
    <3>2. CASE about \in {About(id) : id \in metadata \cap {region}}
      BY <3>2
    <3>3. CASE about \in {r.about : r \in {s \in scopeRoot : s.id = region}}
      <4>1. PICK r \in scopeRoot : r.id = region /\ about = r.about
        BY <3>3
      <4> QED BY <2>2, <4>1 DEF TreeInv, ScopeInv
    <3> QED BY <3>1, <3>2, <3>3
  <2> QED BY <2>1, <2>2
<1>3. read.root = root /\ read.page = Page(tree, root, region, offset)
  BY <1>a
<1>4. tree \in Trees
  BY DEF TreeInv
<1>5. /\ root \in Nodes(tree) /\ RegionRoots(tree, region, About(region)) = {root}
      /\ region \notin {Window, Menu} => IsLike(tree, root, About(region))
  <2>1. root \in RegionRoots(tree, region, About(region))
    BY <1>2, <1>a
  <2> QED BY <1>4, <2>1, RegionRootIs
<1>6. offset + PageSize <= MaxOffset
  BY <1>a DEF TreesAssumption
<1>b. PICK order : order = OrderOf(tree, root, region)
  OBVIOUS
<1>7. PICK ends : IsOrder(tree, root, region, order, ends)
  <2>1. \E ends : IsOrder(tree, root, region, order, ends)
    BY <1>4, <1>5, <1>b, OrderOfIs
  <2> QED BY <2>1
<1>8. PICK page : page = Page(tree, root, region, offset)
  OBVIOUS
<1>9. PageShown(tree, order, offset, page)
  BY <1>4, <1>5, <1>7, <1>8, PageShows
<1>10. page = read.page
  BY <1>3, <1>8
<1> QED BY <1>3, <1>5, <1>6, <1>9, <1>10, <1>b

\* What the adapter keeps of it.
LEMMA RemembersWell ==
    ASSUME TreesAssumption, TreeInv, NEW region, NEW offset \in Nat, NEW read \in Reads(region, offset),
           Remembers(region, read)
    PROVE  MetadataInv' /\ ScopeInv' /\ AtMostOne(scopeRoot)'
<1>1. tree \in Trees /\ PageSize \in Nat
  BY DEF TreeInv, TreesAssumption
<1>a. PICK order : order = OrderOf(tree, read.root, region)
  OBVIOUS
<1>2. /\ region \notin {Window, Menu} => IsLike(tree, read.root, About(region))
      /\ Len(read.page.nodes) \in Nat /\ Len(read.page.nodes) <= PageSize
      /\ read.page.nodes \in Seq([node : Nodes(tree), index : Nat])
  BY <1>a, ReadIs DEF PageShown
<1>3. metadata' = Elements(Ids(read.page))
  BY DEF Remembers
<1>4. MetadataInv'
  <2>1. /\ IsFiniteSet(Elements(Ids(read.page))) /\ Cardinality(Elements(Ids(read.page))) <= Len(read.page.nodes)
        /\ \A id \in Elements(Ids(read.page)) : Len(id.chain) <= MaxChain /\ id.index \in Nat
    BY <1>1, <1>2, IdsAre
  <2>2. Cardinality(Elements(Ids(read.page))) \in Nat
    BY <2>1, FS_CardinalityType
  <2>3. Cardinality(Elements(Ids(read.page))) <= PageSize
    BY <1>1, <1>2, <2>1, <2>2
  <2> QED BY <1>3, <2>1, <2>3 DEF MetadataInv
<1>5. CASE region = Window
  BY <1>4, <1>5 DEF Remembers, ScopeInv, AtMostOne
<1>6. CASE region # Window
  <2>1. PICK scope : scope = [id |-> region, about |-> About(NodeId(tree, read.root, 0))]
    OBVIOUS
  <2>2. scopeRoot' = {scope}
    BY <1>6, <2>1 DEF Remembers
  <2>3. region \notin {Window, Menu} => About(NodeId(tree, read.root, 0)) = About(region)
    BY <1>2 DEF IsLike, About, NodeId
  <2>4. scope.id = region /\ (region \notin {Window, Menu} => scope.about = About(region))
    BY <2>1, <2>3
  <2>5. ScopeInv'
    BY <2>2, <2>4 DEF ScopeInv
  <2> QED BY <1>4, <2>2, <2>5 DEF AtMostOne
<1> QED BY <1>5, <1>6

-----------------------------------------------------------------------------
(* Every step keeps the invariant. *)

LEMMA SpaceMoves ==
    ASSUME NEW s, IsSpace(s), NEW offset, NEW ids, NEW truncated
    PROVE  [s EXCEPT !.offset = offset, !.ids = ids, !.truncated = truncated] =
             [region |-> s.region, offset |-> offset, ids |-> ids, truncated |-> truncated]
<1>1. PICK a, b, c, d : s = [region |-> a, offset |-> b, ids |-> c, truncated |-> d]
  BY DEF IsSpace
<1>2. s.region = a
  BY <1>1
<1>3. [[region |-> a, offset |-> b, ids |-> c, truncated |-> d] EXCEPT !.offset = offset] =
        [region |-> a, offset |-> offset, ids |-> c, truncated |-> d]
  OBVIOUS
<1>4. [[region |-> a, offset |-> offset, ids |-> c, truncated |-> d] EXCEPT !.ids = ids] =
        [region |-> a, offset |-> offset, ids |-> ids, truncated |-> d]
  OBVIOUS
<1>5. [[region |-> a, offset |-> offset, ids |-> ids, truncated |-> d] EXCEPT !.truncated = truncated] =
        [region |-> a, offset |-> offset, ids |-> ids, truncated |-> truncated]
  OBVIOUS
<1>6. [s EXCEPT !.offset = offset, !.ids = ids, !.truncated = truncated] =
        [[[s EXCEPT !.offset = offset] EXCEPT !.ids = ids] EXCEPT !.truncated = truncated]
  OBVIOUS
<1> QED BY <1>1, <1>2, <1>3, <1>4, <1>5, <1>6

LEMMA ReadingMoves ==
    ASSUME NEW r, r = [region |-> r.region, tree |-> r.tree, nodes |-> r.nodes, more |-> r.more],
           NEW seen, NEW more
    PROVE  [r EXCEPT !.nodes = @ \o seen, !.more = more] =
             [region |-> r.region, tree |-> r.tree, nodes |-> r.nodes \o seen, more |-> more]
<1>1. PICK a, b, c, d : r = [region |-> a, tree |-> b, nodes |-> c, more |-> d]
  OBVIOUS
<1>2. r.region = a /\ r.tree = b /\ r.nodes = c
  BY <1>1
<1>3. PICK both : both = c \o seen
  OBVIOUS
<1>4. [[region |-> a, tree |-> b, nodes |-> c, more |-> d] EXCEPT !.nodes = both] =
        [region |-> a, tree |-> b, nodes |-> both, more |-> d]
  OBVIOUS
<1>5. [[region |-> a, tree |-> b, nodes |-> both, more |-> d] EXCEPT !.more = more] =
        [region |-> a, tree |-> b, nodes |-> both, more |-> more]
  OBVIOUS
<1>6. [r EXCEPT !.nodes = @ \o seen, !.more = more] = [[r EXCEPT !.nodes = r.nodes \o seen] EXCEPT !.more = more]
  OBVIOUS
<1> QED BY <1>1, <1>2, <1>3, <1>4, <1>5, <1>6

LEMMA ObservesKeeps == ASSUME TreesAssumption, TreeInv, NEW region, Observes(region) PROVE TreeInv'
<1>1. PICK read \in Reads(region, 0) :
         /\ Remembers(region, read)
         /\ space' = {[region |-> region, offset |-> 0, ids |-> Ids(read.page), truncated |-> read.page.truncated]}
         /\ reading' = {[region |-> region, tree |-> tree, nodes |-> Seen(read.page), more |-> HasMore(read.page)]}
  BY DEF Observes
<1>2. PICK s : s = [region |-> region, offset |-> 0, ids |-> Ids(read.page), truncated |-> read.page.truncated]
  OBVIOUS
<1>3. PICK r : r = [region |-> region, tree |-> tree, nodes |-> Seen(read.page), more |-> HasMore(read.page)]
  OBVIOUS
<1>4. PICK order : order = OrderOf(tree, read.root, region)
  OBVIOUS
<1>5. /\ tree \in Trees /\ read.root \in Nodes(tree) /\ 0 + PageSize <= MaxOffset
      /\ RegionRoots(tree, region, About(region)) = {read.root}
      /\ PageShown(tree, order, 0, read.page)
  <2>1. 0 \in Nat
    OBVIOUS
  <2> QED BY <1>4, <2>1, ReadIs DEF TreeInv
<1>6. /\ Len(read.page.nodes) \in Nat /\ Len(read.page.nodes) <= PageSize /\ read.page.truncated \in BOOLEAN
      /\ read.page.nodes \in Seq([node : Nodes(tree), index : Nat])
      /\ 0 <= Len(order) =>
            /\ 0 + Len(read.page.nodes) <= Len(order)
            /\ \A i \in 1 .. Len(read.page.nodes) : read.page.nodes[i].node = order[0 + i].node
            /\ ~HasMore(read.page) => 0 + Len(read.page.nodes) = Len(order)
  BY <1>5 DEF PageShown
<1>7. /\ Len(Ids(read.page)) = Len(read.page.nodes) /\ Seen(read.page) \in Seq(Nodes(tree))
      /\ Len(Seen(read.page)) = Len(read.page.nodes)
      /\ \A i \in 1 .. Len(read.page.nodes) : Seen(read.page)[i] = read.page.nodes[i].node
  BY <1>5, <1>6, IdsAre
<1>8. Len(order) \in Nat
  BY <1>4, <1>5, OrderOfIs
<1>9. /\ s.region = region /\ s.offset = 0 /\ s.ids = Ids(read.page) /\ s.truncated = read.page.truncated
      /\ r.region = region /\ r.tree = tree /\ r.nodes = Seen(read.page) /\ r.more = HasMore(read.page)
  BY <1>2, <1>3
<1>10. Shows(read.root, r)
  <2>1. order = OrderOf(r.tree, read.root, r.region)
    BY <1>4, <1>9
  <2>2. \A i \in 1 .. Len(r.nodes) : r.nodes[i] = order[i].node
    BY <1>6, <1>7, <1>8, <1>9
  <2>3. Len(r.nodes) <= Len(order) /\ (~r.more => Len(r.nodes) = Len(order))
    BY <1>6, <1>7, <1>8, <1>9
  <2> QED BY <2>1, <2>2, <2>3 DEF Shows
<1>11. Tiles(r, s)
  <2>1. Len(r.nodes) = s.offset + Len(s.ids)
    BY <1>6, <1>7, <1>9
  <2> QED BY <1>5, <1>7, <1>9, <1>10, <2>1 DEF Tiles
<1>12. MetadataInv' /\ ScopeInv' /\ AtMostOne(scopeRoot)'
  <2>1. 0 \in Nat
    OBVIOUS
  <2> QED BY <1>1, <2>1, RemembersWell
<1>13. space' = {s} /\ reading' = {r}
  BY <1>1, <1>2, <1>3
<1>14. SpaceInv'
  <2>1. IsSpace(s)
    BY <1>2 DEF IsSpace
  <2>2. s.offset \in 0 .. MaxOffset /\ s.truncated \in BOOLEAN /\ Len(s.ids) \in 0 .. PageSize
    <3>1. MaxOffset \in Nat /\ PageSize \in Nat
      BY DEF TreesAssumption
    <3> QED BY <1>6, <1>7, <1>9, <3>1
  <2> QED BY <1>13, <2>1, <2>2 DEF SpaceInv
<1>15. ReadingInv'
  <2>1. r = [region |-> r.region, tree |-> r.tree, nodes |-> r.nodes, more |-> r.more]
    BY <1>3
  <2> QED BY <1>11, <1>13, <2>1 DEF ReadingInv
<1>16. UNCHANGED <<tree, treeChanges, replay>>
  BY DEF Observes
<1>17. ReplayInv' /\ AtMostOne(replay)' /\ AtMostOne(space)' /\ AtMostOne(reading)'
  BY <1>13, <1>16 DEF TreeInv, ReplayInv, AtMostOne
<1> QED BY <1>12, <1>14, <1>15, <1>16, <1>17 DEF TreeInv

LEMMA ContinuesKeeps == ASSUME TreesAssumption, TreeInv, Continues PROVE TreeInv'
<1>1. PICK s \in space : \E read \in Reads(s.region, s.offset + Len(s.ids)) :
         /\ Remembers(s.region, read)
         /\ space' = {[s EXCEPT !.offset = s.offset + Len(s.ids), !.ids = Ids(read.page),
                                !.truncated = read.page.truncated]}
         /\ reading' = {[r EXCEPT !.nodes = @ \o Seen(read.page), !.more = HasMore(read.page)] :
                           r \in {q \in reading : q.tree = tree}}
  BY DEF Continues
<1>2. PICK offset : offset = s.offset + Len(s.ids)
  OBVIOUS
<1>3. PICK read \in Reads(s.region, offset) :
         /\ Remembers(s.region, read)
         /\ space' = {[s EXCEPT !.offset = offset, !.ids = Ids(read.page), !.truncated = read.page.truncated]}
         /\ reading' = {[r EXCEPT !.nodes = @ \o Seen(read.page), !.more = HasMore(read.page)] :
                           r \in {q \in reading : q.tree = tree}}
  BY <1>1, <1>2
<1>4. MaxOffset \in Nat /\ PageSize \in Nat /\ tree \in Trees
  BY DEF TreesAssumption, TreeInv
<1>5. /\ IsSpace(s)
      /\ s.offset \in 0 .. MaxOffset /\ Len(s.ids) \in 0 .. PageSize
  BY DEF TreeInv, SpaceInv
<1>6. offset \in Nat
  BY <1>2, <1>4, <1>5
<1>7. PICK next : next = [region |-> s.region, offset |-> offset, ids |-> Ids(read.page), truncated |-> read.page.truncated]
  OBVIOUS
<1>8. space' = {next}
  <2>1. [s EXCEPT !.offset = offset, !.ids = Ids(read.page), !.truncated = read.page.truncated] = next
    <3>1. [s EXCEPT !.offset = offset, !.ids = Ids(read.page), !.truncated = read.page.truncated] =
            [region |-> s.region, offset |-> offset, ids |-> Ids(read.page), truncated |-> read.page.truncated]
      BY <1>5, SpaceMoves
    <3> QED BY <1>7, <3>1
  <2> QED BY <1>3, <2>1
<1>9. PICK order : order = OrderOf(tree, read.root, s.region)
  OBVIOUS
<1>10. /\ read.root \in Nodes(tree) /\ offset + PageSize <= MaxOffset
       /\ RegionRoots(tree, s.region, About(s.region)) = {read.root}
       /\ PageShown(tree, order, offset, read.page)
  BY <1>6, <1>9, ReadIs
<1>11. /\ Len(read.page.nodes) \in Nat /\ Len(read.page.nodes) <= PageSize /\ read.page.truncated \in BOOLEAN
       /\ read.page.nodes \in Seq([node : Nodes(tree), index : Nat])
       /\ offset <= Len(order) =>
             /\ offset + Len(read.page.nodes) <= Len(order)
             /\ \A i \in 1 .. Len(read.page.nodes) : read.page.nodes[i].node = order[offset + i].node
             /\ ~HasMore(read.page) => offset + Len(read.page.nodes) = Len(order)
  BY <1>10 DEF PageShown
<1>12. /\ Len(Ids(read.page)) = Len(read.page.nodes) /\ Seen(read.page) \in Seq(Nodes(tree))
       /\ Len(Seen(read.page)) = Len(read.page.nodes)
       /\ \A i \in 1 .. Len(read.page.nodes) : Seen(read.page)[i] = read.page.nodes[i].node
  BY <1>4, <1>11, IdsAre
<1>13. next.region = s.region /\ next.offset = offset /\ next.ids = Ids(read.page) /\ next.truncated = read.page.truncated
  BY <1>7
<1>14. SpaceInv'
  <2>1. IsSpace(next)
    BY <1>7 DEF IsSpace
  <2>2. next.offset \in 0 .. MaxOffset
    BY <1>4, <1>6, <1>10, <1>13
  <2>3. next.truncated \in BOOLEAN /\ Len(next.ids) \in 0 .. PageSize
    BY <1>4, <1>11, <1>12, <1>13
  <2> QED BY <1>8, <2>1, <2>2, <2>3 DEF SpaceInv
<1>15. ASSUME NEW r \in reading, r.tree = tree,
              NEW q, q = [region |-> r.region, tree |-> r.tree, nodes |-> r.nodes \o Seen(read.page), more |-> HasMore(read.page)]
       PROVE  Tiles(q, next)
  <2>1. Tiles(r, s)
    <3>1. PICK s2 \in space : Tiles(r, s2)
      BY DEF TreeInv, ReadingInv
    <3>2. s2 = s
      BY DEF TreeInv, AtMostOne
    <3> QED BY <3>1, <3>2
  <2>2. r.region = s.region /\ r.nodes \in Seq(Nodes(tree)) /\ Len(r.nodes) = offset
    BY <1>2, <1>15, <2>1 DEF Tiles
  <2>3. Shows(read.root, r)
    <3>1. PICK root \in Nodes(r.tree) : RegionRoots(r.tree, r.region, About(r.region)) = {root} /\ Shows(root, r)
      BY <2>1 DEF Tiles
    <3>2. root = read.root
      BY <1>10, <1>15, <2>2, <3>1
    <3> QED BY <3>1, <3>2
  <2>4. Len(r.nodes) <= Len(order) /\ \A i \in 1 .. Len(r.nodes) : r.nodes[i] = order[i].node
    BY <1>9, <1>15, <2>2, <2>3 DEF Shows
  <2>5. Len(order) \in Nat
    BY <1>4, <1>9, <1>10, OrderOfIs
  <2>6. PICK n \in Nat : n = Len(read.page.nodes)
    BY <1>11
  <2>7. PICK both : both = r.nodes \o Seen(read.page)
    OBVIOUS
  <2>8. /\ both \in Seq(Nodes(tree)) /\ Len(both) = offset + n
        /\ \A i \in 1 .. offset + n : both[i] = IF i <= offset THEN r.nodes[i] ELSE Seen(read.page)[i - offset]
    <3>1. /\ both \in Seq(Nodes(tree)) /\ Len(both) = Len(r.nodes) + Len(Seen(read.page))
          /\ \A i \in 1 .. Len(r.nodes) + Len(Seen(read.page)) :
                both[i] = IF i <= Len(r.nodes) THEN r.nodes[i] ELSE Seen(read.page)[i - Len(r.nodes)]
      <4>1. PICK a \in Seq(Nodes(tree)) : a = r.nodes
        BY <2>2
      <4>2. PICK b \in Seq(Nodes(tree)) : b = Seen(read.page)
        BY <1>12
      <4>3. /\ a \o b \in Seq(Nodes(tree)) /\ Len(a \o b) = Len(a) + Len(b)
            /\ \A i \in 1 .. Len(a) + Len(b) : (a \o b)[i] = IF i <= Len(a) THEN a[i] ELSE b[i - Len(a)]
        BY ConcatProperties
      <4> QED BY <2>7, <4>1, <4>2, <4>3
    <3>2. Len(r.nodes) = offset /\ Len(Seen(read.page)) = n
      BY <1>12, <2>2, <2>6
    <3> QED BY <3>1, <3>2
  <2>9. ASSUME NEW i \in 1 .. offset + n PROVE both[i] = order[i].node
    <3>1. CASE i <= offset
      <4>1. i \in 1 .. Len(r.nodes)
        BY <1>6, <2>2, <3>1
      <4> QED BY <2>4, <2>8, <3>1, <4>1
    <3>2. CASE ~(i <= offset)
      <4>1. PICK j \in 1 .. n : j = i - offset /\ offset + j = i
        <5>1. i - offset \in 1 .. n /\ offset + (i - offset) = i
          BY <1>6, <2>6, <3>2
        <5> QED BY <5>1
      <4>2. both[i] = Seen(read.page)[j]
        BY <2>8, <3>2, <4>1
      <4>3. Seen(read.page)[j] = read.page.nodes[j].node
        BY <1>12, <2>6
      <4>4. read.page.nodes[j].node = order[offset + j].node
        BY <1>11, <2>2, <2>4, <2>6
      <4> QED BY <4>1, <4>2, <4>3, <4>4
    <3> QED BY <3>1, <3>2
  <2>10. q.region = s.region /\ q.tree = tree /\ q.nodes = both /\ q.more = HasMore(read.page)
    BY <1>15, <2>2, <2>7
  <2>11. Len(both) <= Len(order) /\ (~HasMore(read.page) => Len(both) = Len(order))
    BY <1>11, <2>2, <2>4, <2>6, <2>8
  <2>12. Shows(read.root, q)
    <3>1. order = OrderOf(q.tree, read.root, q.region)
      BY <1>9, <2>10
    <3>2. \A i \in 1 .. Len(q.nodes) : q.nodes[i] = order[i].node
      BY <2>8, <2>9, <2>10
    <3> QED BY <2>10, <2>11, <3>1, <3>2 DEF Shows
  <2>13. Len(q.nodes) = next.offset + Len(next.ids)
    BY <1>12, <1>13, <2>6, <2>8, <2>10
  <2> QED BY <1>4, <1>10, <1>13, <2>8, <2>10, <2>12, <2>13 DEF Tiles
<1>16. \A q \in reading' : \E r \in reading :
          r.tree = tree /\ q = [region |-> r.region, tree |-> r.tree, nodes |-> r.nodes \o Seen(read.page), more |-> HasMore(read.page)]
  <2>1. SUFFICES ASSUME NEW r \in reading, r.tree = tree
                 PROVE  [r EXCEPT !.nodes = @ \o Seen(read.page), !.more = HasMore(read.page)] =
                          [region |-> r.region, tree |-> r.tree, nodes |-> r.nodes \o Seen(read.page), more |-> HasMore(read.page)]
    BY <1>3
  <2>2. r = [region |-> r.region, tree |-> r.tree, nodes |-> r.nodes, more |-> r.more]
    BY DEF TreeInv, ReadingInv
  <2> QED BY <2>2, ReadingMoves
<1>17. ReadingInv'
  <2>1. SUFFICES ASSUME NEW q \in reading'
                 PROVE  /\ q = [region |-> q.region, tree |-> q.tree, nodes |-> q.nodes, more |-> q.more]
                        /\ Tiles(q, next)
    BY <1>8 DEF ReadingInv
  <2>2. PICK r \in reading : /\ r.tree = tree
                             /\ q = [region |-> r.region, tree |-> r.tree, nodes |-> r.nodes \o Seen(read.page), more |-> HasMore(read.page)]
    BY <1>16
  <2>3. Tiles(q, next)
    BY <1>15, <2>2
  <2>4. q = [region |-> q.region, tree |-> q.tree, nodes |-> q.nodes, more |-> q.more]
    BY <2>2
  <2> QED BY <2>3, <2>4
<1>18. AtMostOne(reading')
  <2>1. PICK x : reading \subseteq {x}
    BY DEF TreeInv, AtMostOne
  <2>2. PICK y : y = [region |-> x.region, tree |-> x.tree, nodes |-> x.nodes \o Seen(read.page), more |-> HasMore(read.page)]
    OBVIOUS
  <2>3. \A q \in reading' : q = y
    BY <1>16, <2>1, <2>2
  <2> QED BY <2>3 DEF AtMostOne
<1>19. MetadataInv' /\ ScopeInv' /\ AtMostOne(scopeRoot)'
  BY <1>3, <1>6, RemembersWell
<1>20. UNCHANGED <<tree, treeChanges, replay>>
  BY DEF Continues
<1>21. ReplayInv' /\ AtMostOne(replay)' /\ AtMostOne(space)'
  BY <1>8, <1>20 DEF TreeInv, ReplayInv, AtMostOne
<1> QED BY <1>14, <1>17, <1>18, <1>19, <1>20, <1>21 DEF TreeInv

LEMMA ReplayMoves ==
    ASSUME NEW r, IsReplay(r), NEW region, NEW offset
    PROVE  /\ [r EXCEPT !.region = region, !.offset = offset, !.rounds = @ - 1, !.visited = @ \cup {region}] =
                [wanted |-> r.wanted, region |-> region, offset |-> offset, visited |-> r.visited \cup {region},
                 rounds |-> r.rounds - 1]
           /\ [r EXCEPT !.offset = offset, !.rounds = @ - 1] =
                [wanted |-> r.wanted, region |-> r.region, offset |-> offset, visited |-> r.visited,
                 rounds |-> r.rounds - 1]
<1>1. PICK w, g, o, v, n : r = [wanted |-> w, region |-> g, offset |-> o, visited |-> v, rounds |-> n]
  BY DEF IsReplay
<1>2. r.wanted = w /\ r.region = g /\ r.visited = v /\ r.rounds = n
  BY <1>1
<1>3. PICK m, u : m = n - 1 /\ u = v \cup {region}
  OBVIOUS
<1>4. [[wanted |-> w, region |-> g, offset |-> o, visited |-> v, rounds |-> n] EXCEPT !.region = region] =
        [wanted |-> w, region |-> region, offset |-> o, visited |-> v, rounds |-> n]
  OBVIOUS
<1>5. [[wanted |-> w, region |-> region, offset |-> o, visited |-> v, rounds |-> n] EXCEPT !.offset = offset] =
        [wanted |-> w, region |-> region, offset |-> offset, visited |-> v, rounds |-> n]
  OBVIOUS
<1>6. [[wanted |-> w, region |-> region, offset |-> offset, visited |-> v, rounds |-> n] EXCEPT !.rounds = m] =
        [wanted |-> w, region |-> region, offset |-> offset, visited |-> v, rounds |-> m]
  OBVIOUS
<1>7. [[wanted |-> w, region |-> region, offset |-> offset, visited |-> v, rounds |-> m] EXCEPT !.visited = u] =
        [wanted |-> w, region |-> region, offset |-> offset, visited |-> u, rounds |-> m]
  OBVIOUS
<1>8. [r EXCEPT !.region = region, !.offset = offset, !.rounds = @ - 1, !.visited = @ \cup {region}] =
        [[[[r EXCEPT !.region = region] EXCEPT !.offset = offset] EXCEPT !.rounds = r.rounds - 1]
           EXCEPT !.visited = r.visited \cup {region}]
  OBVIOUS
<1>9. [[wanted |-> w, region |-> g, offset |-> o, visited |-> v, rounds |-> n] EXCEPT !.offset = offset] =
        [wanted |-> w, region |-> g, offset |-> offset, visited |-> v, rounds |-> n]
  OBVIOUS
<1>10. [[wanted |-> w, region |-> g, offset |-> offset, visited |-> v, rounds |-> n] EXCEPT !.rounds = m] =
         [wanted |-> w, region |-> g, offset |-> offset, visited |-> v, rounds |-> m]
  OBVIOUS
<1>11. [r EXCEPT !.offset = offset, !.rounds = @ - 1] = [[r EXCEPT !.offset = offset] EXCEPT !.rounds = r.rounds - 1]
  OBVIOUS
<1>12. [r EXCEPT !.region = region, !.offset = offset, !.rounds = @ - 1, !.visited = @ \cup {region}] =
         [wanted |-> w, region |-> region, offset |-> offset, visited |-> u, rounds |-> m]
  <2>1. [r EXCEPT !.region = region] = [wanted |-> w, region |-> region, offset |-> o, visited |-> v, rounds |-> n]
    BY <1>1, <1>4
  <2>2. [[r EXCEPT !.region = region] EXCEPT !.offset = offset] =
          [wanted |-> w, region |-> region, offset |-> offset, visited |-> v, rounds |-> n]
    BY <1>5, <2>1
  <2>3. [[[r EXCEPT !.region = region] EXCEPT !.offset = offset] EXCEPT !.rounds = m] =
          [wanted |-> w, region |-> region, offset |-> offset, visited |-> v, rounds |-> m]
    BY <1>6, <2>2
  <2>4. r.rounds - 1 = m /\ r.visited \cup {region} = u
    BY <1>2, <1>3
  <2>5. [r EXCEPT !.region = region, !.offset = offset, !.rounds = @ - 1, !.visited = @ \cup {region}] =
          [[[[r EXCEPT !.region = region] EXCEPT !.offset = offset] EXCEPT !.rounds = m] EXCEPT !.visited = u]
    BY <1>8, <2>4
  <2> QED BY <1>7, <2>3, <2>5
<1>13. [r EXCEPT !.offset = offset, !.rounds = @ - 1] =
         [wanted |-> w, region |-> g, offset |-> offset, visited |-> v, rounds |-> m]
  BY <1>1, <1>2, <1>3, <1>9, <1>10, <1>11
<1> QED BY <1>2, <1>3, <1>12, <1>13

\* What a round may come to: the same locator, with a round less.
LEMMA DecidesWell ==
    ASSUME TreesAssumption, TreeInv, NEW r \in replay, r.rounds > 0,
           NEW offset \in Nat, NEW read \in Reads(r.region, offset), Decides(r, read.page)
    PROVE  AtMostOne(replay') /\ ReplayInv'
<1> DEFINE ids == Elements(Ids(read.page))
           regions == UNION {Around(ids, r.wanted, k) : k \in Nearest(ids, r.wanted)}
           elsewhere == {[r EXCEPT !.region = region, !.offset = 0, !.rounds = @ - 1,
                                   !.visited = @ \cup {region}] : region \in regions}
           further == {[r EXCEPT !.offset = TraversalLimit(r.offset), !.rounds = @ - 1]}
<1>1. IsReplay(r) /\ r.rounds \in 0 .. MaxTreeRounds /\ r.wanted \in Wanted /\ r.offset \in Nat
  BY DEF TreeInv, ReplayInv
<1>2. MaxTreeRounds \in Nat /\ PageSize \in Nat /\ tree \in Trees
  BY DEF TreesAssumption, TreeInv
<1>3. r.rounds - 1 \in 0 .. MaxTreeRounds /\ TraversalLimit(r.offset) \in Nat /\ 0 \in Nat
  BY <1>1, <1>2 DEF TraversalLimit
<1>4. \/ replay' = {}
      \/ ~(Cardinality(regions) > 1) /\ replay' = elsewhere
      \/ replay' = further
  BY DEF Decides
<1> DEFINE Went(x) == IsReplay(x) /\ x.rounds \in 0 .. MaxTreeRounds /\ x.wanted \in Wanted /\ x.offset \in Nat
<1>5. ASSUME NEW region, NEW o \in Nat,
             NEW x, x = [wanted |-> r.wanted, region |-> region, offset |-> o, visited |-> x.visited, rounds |-> r.rounds - 1]
      PROVE  Went(x)
  <2>1. x.wanted = r.wanted /\ x.region = region /\ x.offset = o /\ x.rounds = r.rounds - 1
    BY <1>5
  <2>2. IsReplay(x)
    BY <1>5, <2>1 DEF IsReplay
  <2> QED BY <1>1, <1>3, <2>1, <2>2
<1>6. CASE replay' = {}
  BY <1>6 DEF AtMostOne, ReplayInv
<1>7. CASE ~(Cardinality(regions) > 1) /\ replay' = elsewhere
  <2>1. IsFiniteSet(ids)
    <3>1. PICK order : order = OrderOf(tree, read.root, r.region)
      OBVIOUS
    <3>2. PageShown(tree, order, offset, read.page)
      BY <3>1, ReadIs
    <3> QED BY <1>2, <3>2, IdsAre DEF PageShown
  <2>2. regions \in SUBSET ids
    BY DEF Around
  <2> HIDE DEF ids, regions
  <2>3. IsFiniteSet(regions) /\ Cardinality(regions) \in Nat
    BY <2>1, <2>2, FS_Subset, FS_CardinalityType
  <2>4. regions = {} \/ \E g : regions = {g}
    <3>1. Cardinality(regions) = 0 \/ Cardinality(regions) = 1
      <4>1. PICK c \in Nat : c = Cardinality(regions)
        BY <2>3
      <4>2. ~(c > 1)
        BY <1>7, <4>1
      <4>3. c = 0 \/ c = 1
        BY <4>1, <4>2
      <4> QED BY <4>1, <4>3
    <3> QED BY <2>3, <3>1, FS_EmptySet, FS_Singleton
  <2>5. AtMostOne(replay')
    BY <1>7, <2>4 DEF AtMostOne
  <2>6. ASSUME NEW x \in replay' PROVE Went(x)
    <3>1. PICK region \in regions : x = [r EXCEPT !.region = region, !.offset = 0, !.rounds = @ - 1, !.visited = @ \cup {region}]
      BY <1>7
    <3>2. x = [wanted |-> r.wanted, region |-> region, offset |-> 0, visited |-> r.visited \cup {region}, rounds |-> r.rounds - 1]
      BY <1>1, <3>1, ReplayMoves
    <3>3. x = [wanted |-> r.wanted, region |-> region, offset |-> 0, visited |-> x.visited, rounds |-> r.rounds - 1]
      BY <3>2
    <3> HIDE DEF Went
    <3> QED BY <1>3, <1>5, <3>3
  <2> QED BY <2>5, <2>6 DEF ReplayInv
<1>8. CASE replay' = further
  <2>1. PICK o \in Nat : o = TraversalLimit(r.offset)
    BY <1>3
  <2>2. PICK x : x = [r EXCEPT !.offset = o, !.rounds = @ - 1]
    OBVIOUS
  <2>3. x = [wanted |-> r.wanted, region |-> r.region, offset |-> o, visited |-> r.visited, rounds |-> r.rounds - 1]
    BY <1>1, <2>2, ReplayMoves
  <2>4. x = [wanted |-> r.wanted, region |-> r.region, offset |-> o, visited |-> x.visited, rounds |-> r.rounds - 1]
    BY <2>3
  <2>5. Went(x)
    <3> HIDE DEF Went
    <3> QED BY <1>5, <2>4
  <2>6. replay' = {x}
    BY <1>8, <2>1, <2>2
  <2> QED BY <2>5, <2>6 DEF AtMostOne, ReplayInv
<1> QED BY <1>4, <1>6, <1>7, <1>8

LEMMA LocateReadKeeps == ASSUME TreesAssumption, TreeInv, LocateRead PROVE TreeInv'
<1>1. PICK r \in replay : r.rounds > 0 /\ \E read \in Reads(r.region, r.offset) : Remembers(r.region, read) /\ Decides(r, read.page)
  BY DEF LocateRead
<1>2. PICK read \in Reads(r.region, r.offset) : Remembers(r.region, read) /\ Decides(r, read.page)
  BY <1>1
<1>3. PICK offset \in Nat : offset = r.offset
  BY DEF TreeInv, ReplayInv
<1>4. read \in Reads(r.region, offset)
  BY <1>3
<1>5. MetadataInv' /\ ScopeInv' /\ AtMostOne(scopeRoot)'
  BY <1>2, <1>4, RemembersWell
<1>6. AtMostOne(replay') /\ ReplayInv'
  BY <1>1, <1>2, <1>4, DecidesWell
<1>7. UNCHANGED <<tree, treeChanges, space, reading>>
  BY DEF LocateRead
<1>8. SpaceInv' /\ ReadingInv' /\ AtMostOne(space)' /\ AtMostOne(reading)'
  BY <1>7 DEF TreeInv, SpaceInv, ReadingInv, AtMostOne
<1> QED BY <1>5, <1>6, <1>7, <1>8 DEF TreeInv

LEMMA StartsWell == ASSUME TreesAssumption, TreeInit PROVE TreeInv
<1>1. MetadataInv
  BY FS_EmptySet DEF TreeInit, TreesAssumption, MetadataInv
<1>2. AtMostOne(scopeRoot) /\ AtMostOne(space) /\ AtMostOne(replay) /\ AtMostOne(reading)
  BY DEF TreeInit, AtMostOne
<1>3. ScopeInv /\ SpaceInv /\ ReplayInv /\ ReadingInv
  BY DEF TreeInit, ScopeInv, SpaceInv, ReplayInv, ReadingInv
<1>4. tree \in Trees /\ treeChanges \in 0 .. MaxTreeChanges
  BY DEF TreeInit, TreesAssumption
<1> QED BY <1>1, <1>2, <1>3, <1>4 DEF TreeInv

LEMMA TreeInvHolds == ASSUME TreesAssumption, TreeInv, [TreeNext]_treeVars PROVE TreeInv'
<1> USE DEF MetadataInv, ScopeInv, SpaceInv, ReplayInv, ReadingInv, AtMostOne
<1>1. CASE \E region \in {Window, Menu} \cup UNION {Elements(s.ids) : s \in space} : Observes(region)
  BY <1>1, ObservesKeeps
<1>2. CASE Continues
  BY <1>2, ContinuesKeeps
<1>3. ASSUME NEW wanted \in Wanted, Locates(wanted) PROVE TreeInv'
  <2>1. UNCHANGED <<tree, treeChanges, metadata, scopeRoot, space, reading>>
    BY <1>3 DEF Locates
  <2>2. PICK x : x = [wanted |-> wanted, region |-> Window, offset |-> 0, visited |-> {}, rounds |-> MaxTreeRounds]
    OBVIOUS
  <2>3. replay' = {x}
    BY <1>3, <2>2 DEF Locates
  <2>4. IsReplay(x) /\ x.rounds \in 0 .. MaxTreeRounds /\ x.wanted \in Wanted /\ x.offset \in Nat
    BY <2>2 DEF IsReplay, TreesAssumption
  <2> QED BY <2>1, <2>3, <2>4 DEF TreeInv
<1>4. CASE LocateRead
  BY <1>4, LocateReadKeeps
<1>5. CASE LocateGivesUp
  BY <1>5 DEF LocateGivesUp, TreeInv
<1>6. ASSUME NEW t \in Trees, TreeChange(t) PROVE TreeInv'
  <2>1. treeChanges' \in 0 .. MaxTreeChanges
    BY <1>6 DEF TreeChange, TreeInv, TreesAssumption
  <2> QED BY <1>6, <2>1 DEF TreeChange, TreeInv
<1>7. CASE UNCHANGED treeVars
  BY <1>7 DEF treeVars, TreeInv
<1> QED BY <1>1, <1>2, <1>3, <1>4, <1>5, <1>6, <1>7 DEF TreeNext, Locating

\* Whatever the window turns into between two reads, a page has no more nodes than an
\* observation may have, what is said of a node's ancestors is no longer than the
\* adapter goes up, no offset is past the limit, and one region, observation and
\* replay is kept at a time.
THEOREM TreeTypeCorrect == TreeInit /\ [][TreeNext]_treeVars => []TreeTypeOK
<1>1. TreeInit => TreeInv
  BY TreesAssumption, StartsWell
<1>2. TreeInv /\ [TreeNext]_treeVars => TreeInv'
  BY TreesAssumption, TreeInvHolds
<1>3. TreeInv => TreeTypeOK
  BY TreesAssumption, InvTypes
<1> QED BY <1>1, <1>2, <1>3, PTL

\* An observation and its continuations show every control of the region once, if they
\* were all of one tree: no page of page_traversal_limit overlaps another or leaves a
\* gap, whatever the depth, the menus or a full queue cut off.
THEOREM TreePagesTile == TreeInit /\ [][TreeNext]_treeVars => []PagesTile
<1>1. TreeInit => TreeInv
  BY TreesAssumption, StartsWell
<1>2. TreeInv /\ [TreeNext]_treeVars => TreeInv'
  BY TreesAssumption, TreeInvHolds
<1>3. TreeInv => PagesTile
  BY TreesAssumption, InvTiles
<1> QED BY <1>1, <1>2, <1>3, PTL
==============================================================================
