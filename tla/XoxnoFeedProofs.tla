-------------------------- MODULE XoxnoFeedProofs --------------------------
(***************************************************************************)
(* What the operators of XoxnoOracle.tla compute, for every set of         *)
(* signers, feeds and assets: on one feed, the loops, the median of a      *)
(* quorum and whom it needs, the history and the entry that a dated read   *)
(* finds; across feeds, the registry, which implements FeedCatalog.        *)
(***************************************************************************)
EXTENDS XoxnoOracle, FiniteSetTheorems, WellFoundedInduction, TLAPS

\* Induction on the naturals, for a set.
LEMMA SetInduction ==
  ASSUME NEW T, 0 \in T, \A n \in Nat : n \in T => n + 1 \in T
  PROVE  Nat \subseteq T
<1> DEFINE C == Nat \ T
<1> SUFFICES ASSUME C # {} PROVE FALSE
  OBVIOUS
<1>1. PICK n \in C : \A k \in C : ~(<<k, n>> \in OpToRel(<, Nat))
  BY WFMin, NatLessThanWellFounded, Zenon
<1>2. n # 0 /\ n - 1 \in Nat /\ n - 1 < n
  OBVIOUS
<1>3. n - 1 \notin C
  BY <1>1, <1>2, Zenon DEF OpToRel
<1>4. n \in T
  BY <1>2, <1>3
<1> QED
  BY <1>4

-----------------------------------------------------------------------------
(* Greatest and least values of finite sets.                                *)

\* One element of a finite set has the greatest value.
LEMMA HighestExists ==
  ASSUME NEW S, IsFiniteSet(S), S # {}, NEW f \in [S -> Int]
  PROVE  \E x \in S : \A y \in S : f[y] <= f[x]
<1> DEFINE Has(u) == \E x \in u : \A y \in u : f[y] <= f[x]
           T == {n \in Nat : \A u \in SUBSET S : u # {} /\ Cardinality(u) <= n => Has(u)}
<1>0. \A u \in SUBSET S : IsFiniteSet(u) /\ Cardinality(u) \in Nat
  BY FS_Subset, FS_CardinalityType
<1>1. 0 \in T
  BY <1>0, FS_EmptySet
<1>2. ASSUME NEW n \in Nat, n \in T PROVE n + 1 \in T
  <2> SUFFICES ASSUME NEW u \in SUBSET S, u # {}, Cardinality(u) <= n + 1 PROVE Has(u)
    OBVIOUS
  <2>1. PICK z : z \in u
    OBVIOUS
  <2> DEFINE w == u \ {z}
  <2>2. w \in SUBSET S /\ Cardinality(w) <= n
    BY <1>0, <2>1, FS_RemoveElement
  <2>3. CASE w = {}
    BY <2>1, <2>3
  <2>4. CASE w # {}
    <3>1. PICK x \in w : \A y \in w : f[y] <= f[x]
      BY <1>2, <2>2, <2>4
    <3>2. \A y \in u : y = z \/ y \in w
      OBVIOUS
    <3>3. \A y \in u : f[y] \in Int
      OBVIOUS
    <3>4. CASE f[z] <= f[x]
      BY <3>1, <3>2, <3>4
    <3>5. CASE ~(f[z] <= f[x])
      <4>1. \A y \in u : f[y] <= f[z]
        BY <3>1, <3>2, <3>3, <3>5, <2>1
      <4> QED
        BY <4>1, <2>1
    <3> QED
      BY <3>4, <3>5
  <2> QED
    BY <2>3, <2>4
<1>3. Cardinality(S) \in T
  <2> HIDE DEF T
  <2>1. Nat \subseteq T
    BY <1>1, <1>2, SetInduction
  <2> QED
    BY <2>1, <1>0
<1> QED
  BY <1>0, <1>3

\* And one has the least.
LEMMA LowestExists ==
  ASSUME NEW S, IsFiniteSet(S), S # {}, NEW f \in [S -> Int]
  PROVE  \E x \in S : \A y \in S : f[x] <= f[y]
<1> DEFINE g == [x \in S |-> -f[x]]
<1>1. g \in [S -> Int]
  OBVIOUS
<1>2. PICK x \in S : \A y \in S : g[y] <= g[x]
  BY <1>1, HighestExists, Zenon
<1>3. \A y \in S : f[x] <= f[y]
  BY <1>2
<1> QED
  BY <1>3

\* Max and Min of a finite set of integers are its bounds.
LEMMA Extremes ==
  ASSUME NEW S \in SUBSET Int, IsFiniteSet(S), S # {}
  PROVE  /\ Max(S) \in S /\ \A y \in S : y <= Max(S)
         /\ Min(S) \in S /\ \A y \in S : Min(S) <= y
<1> DEFINE f == [x \in S |-> x]
<1>1. f \in [S -> Int]
  OBVIOUS
<1>2. PICK x \in S : \A y \in S : f[y] <= f[x]
  BY <1>1, HighestExists, Zenon
<1>3. PICK z \in S : \A y \in S : f[z] <= f[y]
  BY <1>1, LowestExists, Zenon
<1>4. x \in S /\ \A y \in S : x >= y
  BY <1>2
<1>5. z \in S /\ \A y \in S : z =< y
  BY <1>3
<1>6. Max(S) \in S /\ \A y \in S : Max(S) >= y
  BY <1>4, Zenon DEF Max
<1>7. Min(S) \in S /\ \A y \in S : Min(S) =< y
  BY <1>5, Zenon DEF Min
<1> QED
  BY <1>6, <1>7

\* The image of a finite set is finite.
LEMMA FiniteImage ==
  ASSUME NEW S, IsFiniteSet(S), NEW f, DOMAIN f = S
  PROVE  IsFiniteSet({f[x] : x \in S})
<1> DEFINE T == {f[x] : x \in S}
           g == [x \in S |-> f[x]]
<1>1. g \in Surjection(S, T)
  BY DEF Surjection
<1> QED
  BY <1>1, FS_Surjection

-----------------------------------------------------------------------------
(* A loop over a list is a fold, which recurs on sets of positions and      *)
(* takes the greatest position off: it ends after every entry, in order.    *)

\* h folds the n steps of step from base, as far as its values are in W.
Folds(h, n, W, base, step) ==
  \A u \in SUBSET (1..n) :
    IF u = {} THEN h[u] = base
    ELSE h[u \ {Max(u)}] \in W => h[u] = step[<<Max(u), h[u \ {Max(u)}]>>]

\* The greatest of some positions, and what is left without it.
LEMMA TakeLast ==
  ASSUME NEW n \in Nat, NEW u \in SUBSET (1..n), u # {}
  PROVE  /\ Max(u) \in u /\ Max(u) \in 1..n
         /\ u \ {Max(u)} \in SUBSET (1..(Max(u) - 1))
<1>1. u \in SUBSET Int /\ IsFiniteSet(u)
  <2>1. IsFiniteSet(1..n) /\ 1..n \subseteq Int
    BY FS_Interval
  <2> QED
    BY <2>1, FS_Subset, Zenon
<1>2. Max(u) \in u /\ \A y \in u : y <= Max(u)
  BY <1>1, Extremes
<1>3. PICK m : m = Max(u)
  OBVIOUS
<1>4. m \in 1..n /\ \A y \in u : y \in 1..n /\ y <= m
  BY <1>2, <1>3, Zenon
<1>5. \A y \in u : y # m => y \in 1..(m - 1)
  BY <1>4
<1> QED
  BY <1>2, <1>3, <1>4, <1>5, Zenon

\* g is the recursive function of the fold.
FoldsAll(g, n, base, step) ==
  \A u \in SUBSET (1..n) : g[u] = IF u = {} THEN base ELSE step[<<Max(u), g[u \ {Max(u)}]>>]

\* Such a function exists.
LEMMA FoldExists ==
  ASSUME NEW n \in Nat, NEW W, NEW base \in W, NEW step \in [(1..n) \X W -> W]
  PROVE  \E g \in [SUBSET (1..n) -> W] : FoldsAll(g, n, base, step)
<1> DEFINE Some(k) == \E g \in [SUBSET (1..k) -> W] : FoldsAll(g, k, base, step)
           T == {k \in Nat : k <= n => Some(k)}
<1>1. 0 \in T
  <2>1. SUBSET (1..0) = {{}}
    <3>1. 1..0 = {}
      OBVIOUS
    <3> QED
      BY <3>1
  <2>2. FoldsAll([u \in SUBSET (1..0) |-> base], 0, base, step)
    BY <2>1 DEF FoldsAll
  <2> QED
    BY <2>2
<1>2. ASSUME NEW k \in Nat, k \in T PROVE k + 1 \in T
  <2>0. k <= n => Some(k)
    BY <1>2, Zenon
  <2> SUFFICES ASSUME k + 1 <= n PROVE Some(k + 1)
    <3> HIDE DEF Some
    <3> QED
      OBVIOUS
  <2>1. PICK g \in [SUBSET (1..k) -> W] : FoldsAll(g, k, base, step)
    <3>1. k <= n
      OBVIOUS
    <3>2. Some(k)
      <4> HIDE DEF Some
      <4> QED
        BY <2>0, <3>1
    <3> QED
      BY <3>2
  <2> DEFINE h == [u \in SUBSET (1..(k + 1)) |->
                     IF u = {} THEN base ELSE step[<<Max(u), g[u \ {Max(u)}]>>]]
  <2>2. ASSUME NEW u \in SUBSET (1..(k + 1)), u # {}
        PROVE  /\ Max(u) \in 1..n /\ u \ {Max(u)} \in SUBSET (1..k)
               /\ g[u \ {Max(u)}] \in W
    <3>1. Max(u) \in 1..(k + 1) /\ u \ {Max(u)} \in SUBSET (1..(Max(u) - 1))
      BY <2>2, TakeLast
    <3>2. u \ {Max(u)} \in SUBSET (1..k)
      BY <3>1
    <3> QED
      BY <3>1, <3>2, <2>1
  <2>3. h \in [SUBSET (1..(k + 1)) -> W]
    BY <2>2, Zenon
  <2>4. ASSUME NEW u \in SUBSET (1..k) PROVE h[u] = g[u]
    <3>1. u \in SUBSET (1..(k + 1))
      OBVIOUS
    <3> QED
      BY <3>1, <2>1, Zenon DEF FoldsAll
  <2>5. FoldsAll(h, k + 1, base, step)
    BY <2>2, <2>4, Zenon DEF FoldsAll
  <2> HIDE DEF h
  <2> QED
    BY <2>3, <2>5
<1>3. n \in T
  <2> HIDE DEF T
  <2> QED
    BY <1>1, <1>2, SetInduction
<1>4. Some(n)
  <2> HIDE DEF Some
  <2> QED
    BY <1>3
<1> QED
  BY <1>4

\* What every step of a fold keeps, its result has.
LEMMA FoldKeeps ==
  ASSUME NEW n \in Nat, NEW W, NEW base, NEW step,
         NEW V \in [0..n -> SUBSET W], base \in V[0],
         \A k \in 1..n : \A v \in V[k - 1] : step[<<k, v>>] \in V[k],
         NEW h, Folds(h, n, W, base, step)
  PROVE  h[1..n] \in V[n]
<1> DEFINE T == {k \in Nat : k <= n => h[1..k] \in V[k]}
<1>1. 0 \in T
  <2>1. 1..0 = {} /\ {} \in SUBSET (1..n)
    OBVIOUS
  <2> QED
    BY <2>1, Zenon DEF Folds
<1>2. ASSUME NEW k \in Nat, k \in T PROVE k + 1 \in T
  <2> SUFFICES ASSUME k + 1 <= n PROVE h[1..(k + 1)] \in V[k + 1]
    OBVIOUS
  <2> DEFINE u == 1..(k + 1)
  <2>1. u \in SUBSET (1..n) /\ u # {} /\ k + 1 \in u /\ k \in 0..n /\ k + 1 \in 1..n
    OBVIOUS
  <2>2. Max(u) \in u /\ u \ {Max(u)} \in SUBSET (1..(Max(u) - 1))
    BY <2>1, TakeLast, Zenon
  <2>3. Max(u) = k + 1
    <3>1. Max(u) # k + 1 => k + 1 \in 1..(Max(u) - 1)
      BY <2>1, <2>2
    <3> QED
      BY <2>2, <3>1
  <2>4. u \ {Max(u)} = 1..k
    BY <2>3
  <2>5. h[1..k] \in V[k] /\ h[1..k] \in W
    BY <1>2, <2>1
  <2>6. h[u] = step[<<k + 1, h[1..k]>>]
    <3> HIDE DEF u
    <3> QED
      BY <2>1, <2>3, <2>4, <2>5, Zenon DEF Folds
  <2> QED
    BY <2>1, <2>5, <2>6
<1>3. n \in T
  <2> HIDE DEF T
  <2> QED
    BY <1>1, <1>2, SetInduction
<1> QED
  BY <1>3

-----------------------------------------------------------------------------
(* The lower median.                                                        *)

\* Some posted price has any given place in the sorted copy: the least one
\* that more than rank prices do not exceed.
LEMMA RankTaken ==
  ASSUME NEW rec, NEW S, IsFiniteSet(S), S # {}, \A s \in S : rec.latest[s].price \in Int,
         NEW rank \in Nat, rank < Cardinality(S)
  PROVE  \E price \in PricesOf(rec, S) : AtRank(rec, S, rank, price)
<1> DEFINE v == [s \in S |-> rec.latest[s].price]
           AtMost(x) == {s \in S : v[s] <= v[x]}
           Below(x)  == {s \in S : v[s] < v[x]}
           Enough    == {x \in S : Cardinality(AtMost(x)) > rank}
<1>0. v \in [S -> Int]
  OBVIOUS
<1>1. \A x \in S : AtMost(x) \in SUBSET S /\ Below(x) \in SUBSET S
  OBVIOUS
<1>2. \A u \in SUBSET S : IsFiniteSet(u) /\ Cardinality(u) \in Nat
  BY FS_Subset, FS_CardinalityType
<1> HIDE DEF v
<1>3. Enough # {}
  <2>1. PICK x \in S : \A y \in S : v[y] <= v[x]
    BY <1>0, HighestExists
  <2>2. AtMost(x) = S
    BY <2>1
  <2> QED
    BY <2>2
<1>4. PICK x \in Enough : \A y \in Enough : v[x] <= v[y]
  <2> DEFINE w == [y \in Enough |-> v[y]]
  <2>1. Enough \in SUBSET S
    OBVIOUS
  <2>2. w \in [Enough -> Int] /\ IsFiniteSet(Enough)
    BY <1>0, <1>2, <2>1, Zenon
  <2> HIDE DEF Enough
  <2>3. PICK x \in Enough : \A y \in Enough : w[x] <= w[y]
    BY <2>2, <1>3, LowestExists, Zenon
  <2> QED
    BY <2>3
<1>5. x \in S /\ Cardinality(AtMost(x)) > rank
  OBVIOUS
<1>6. Cardinality(Below(x)) <= rank
  <2>1. CASE Below(x) = {}
    <3>1. Cardinality(Below(x)) = 0
      BY <2>1, FS_EmptySet, Zenon
    <3> QED
      BY <3>1
  <2>2. CASE Below(x) # {}
    <3> DEFINE B == Below(x)
               w == [y \in B |-> v[y]]
    <3>1. w \in [B -> Int] /\ IsFiniteSet(B)
      BY <1>0, <1>1, <1>2, <1>5
    <3>2. PICK z \in B : \A y \in B : v[y] <= v[z]
      <4>1. B # {}
        BY <2>2
      <4> HIDE DEF B
      <4>2. PICK z \in B : \A y \in B : w[y] <= w[z]
        BY <3>1, <4>1, HighestExists, Zenon
      <4> QED
        BY <4>2
    <3>3. z \in S /\ v[z] < v[x]
      OBVIOUS
    <3>4. AtMost(z) = Below(x)
      <4>1. \A s \in S : v[s] \in Int
        BY <1>0
      <4> QED
        BY <3>2, <3>3, <4>1, <1>5
    <3>5. z \notin Enough
      <4>1. v[z] \in Int /\ v[x] \in Int /\ ~(v[x] <= v[z])
        BY <1>0, <1>5, <3>3
      <4> HIDE DEF Enough
      <4> QED
        BY <4>1, <1>4
    <3>6. ~(Cardinality(AtMost(z)) > rank) /\ Cardinality(AtMost(z)) \in Nat
      <4>1. ~(Cardinality(AtMost(z)) > rank)
        BY <3>3, <3>5
      <4>2. Cardinality(AtMost(z)) \in Nat
        BY <3>3, <1>1, <1>2
      <4> QED
        BY <4>1, <4>2
    <3>7. \A k \in Nat : ~(k > rank) => k <= rank
      OBVIOUS
    <3> HIDE DEF AtMost, Below
    <3> QED
      BY <3>4, <3>6, <3>7
  <2> QED
    BY <2>1, <2>2
<1>7. v[x] \in PricesOf(rec, S)
  BY <1>5 DEF PricesOf, v
<1>8. AtRank(rec, S, rank, v[x])
  BY <1>5, <1>6, Zenon DEF AtRank, v
<1> QED
  BY <1>7, <1>8

\* The median is posted, and half of the prices lie on either side of it.
LEMMA MedianIsPosted ==
  ASSUME NEW rec, NEW S, IsFiniteSet(S), S # {}, \A s \in S : rec.latest[s].price \in Int
  PROVE  /\ MedianOf(rec, S) \in PricesOf(rec, S)
         /\ AtRank(rec, S, (Cardinality(S) - 1) \div 2, MedianOf(rec, S))
<1>1. Cardinality(S) \in Nat /\ Cardinality(S) # 0
  BY FS_CardinalityType, FS_EmptySet
<1> DEFINE rank == (Cardinality(S) - 1) \div 2
<1>2. rank \in Nat /\ rank < Cardinality(S)
  BY <1>1
<1> HIDE DEF rank
<1>3. \E price \in PricesOf(rec, S) : AtRank(rec, S, rank, price)
  BY <1>2, RankTaken
<1>4. MedianOf(rec, S) = CHOOSE price \in PricesOf(rec, S) : AtRank(rec, S, rank, price)
  BY DEF MedianOf, rank
<1>5. MedianOf(rec, S) \in PricesOf(rec, S) /\ AtRank(rec, S, rank, MedianOf(rec, S))
  BY <1>3, <1>4
<1> QED
  BY <1>5 DEF rank

-----------------------------------------------------------------------------
(* What a minority cannot do.                                               *)

\* A price no higher is no higher by more than the spread.
LEMMA WithinScale ==
  ASSUME NEW a \in Nat, NEW b \in Nat, a <= b, NEW B \in Nat, NEW sp \in Nat
  PROVE  a * B <= b * B /\ a * B <= b * (B + sp)
<1>1. PICK d \in Nat : b = a + d
  <2>1. b - a \in Nat /\ b = a + (b - a)
    OBVIOUS
  <2> QED
    BY <2>1
<1>2. b * B = a * B + d * B
  BY <1>1
<1>3. b * (B + sp) = b * B + b * sp
  OBVIOUS
<1>4. a * B \in Nat /\ b * B \in Nat /\ d * B \in Nat /\ b * sp \in Nat
  OBVIOUS
<1> QED
  BY <1>2, <1>3, <1>4

\* More signers than a minority has: one of them is honest.
LEMMA OneOutside ==
  ASSUME NEW A, NEW F, IsFiniteSet(A), IsFiniteSet(F), Cardinality(A) > Cardinality(F)
  PROVE  \E x \in A : x \notin F
<1> SUFFICES ASSUME A \in SUBSET F PROVE FALSE
  OBVIOUS
<1>1. Cardinality(A) <= Cardinality(F)
  BY FS_Subset
<1>2. Cardinality(A) \in Nat /\ Cardinality(F) \in Nat
  BY FS_CardinalityType
<1> QED
  BY <1>1, <1>2

\* The signers of a cluster at or above a price are those not below it.
LEMMA CountAbove ==
  ASSUME NEW C, IsFiniteSet(C), NEW v \in [C -> Int], NEW m \in Int
  PROVE  /\ Cardinality({s \in C : v[s] >= m}) = Cardinality(C) - Cardinality({s \in C : v[s] < m})
         /\ Cardinality({s \in C : v[s] < m}) \in Nat
<1> DEFINE up == {s \in C : v[s] >= m}
           dn == {s \in C : v[s] < m}
<1>1. up \in SUBSET C /\ dn \in SUBSET C /\ up \cup dn = C /\ up \cap dn = {}
  OBVIOUS
<1> HIDE DEF up, dn
<1>2. IsFiniteSet(up) /\ IsFiniteSet(dn)
  BY <1>1, FS_Subset
<1>3. Cardinality(C) = Cardinality(up) + Cardinality(dn) - 0
  BY <1>1, <1>2, FS_Union, FS_EmptySet
<1>4. Cardinality(up) \in Nat /\ Cardinality(dn) \in Nat /\ Cardinality(C) \in Nat
  BY <1>2, FS_CardinalityType
<1>5. Cardinality(up) = Cardinality(C) - Cardinality(dn)
  BY <1>3, <1>4
<1> QED
  BY <1>4, <1>5 DEF up, dn

\* The cluster of a quorum, with all that the argument needs of it.
Clustered(c, rec, C) ==
  /\ IsFiniteSet(c.signers) /\ C \in SUBSET c.signers
  /\ c.threshold \in Nat \ {0} /\ c.spread \in Nat
  /\ \A s \in C : rec.latest[s].price \in Nat
  /\ Quorum(c, rec, C)

\* A cluster that reaches the quorum is finite and as large as the threshold,
\* and its median is a price of one of its signers, at the lower middle rank.
LEMMA ClusterCounts ==
  ASSUME NEW c, NEW rec, NEW C, Clustered(c, rec, C)
  PROVE  /\ IsFiniteSet(C) /\ C # {} /\ Cardinality(C) \in Nat /\ Cardinality(C) >= c.threshold
         /\ MedianOf(rec, C) \in PricesOf(rec, C) /\ MedianOf(rec, C) \in Nat
         /\ AtRank(rec, C, (Cardinality(C) - 1) \div 2, MedianOf(rec, C))
<1>1. IsFiniteSet(C)
  BY FS_Subset DEF Clustered
<1>2. Cardinality(C) \in Nat
  BY <1>1, FS_CardinalityType
<1>3. Cardinality(C) >= c.threshold /\ c.threshold \in Nat \ {0}
  BY DEF Clustered, Quorum
<1>4. C # {}
  BY <1>2, <1>3, FS_EmptySet
<1>5. \A s \in C : rec.latest[s].price \in Nat
  BY DEF Clustered
<1>6. \A s \in C : rec.latest[s].price \in Int
  BY <1>5
<1>7. /\ MedianOf(rec, C) \in PricesOf(rec, C)
      /\ AtRank(rec, C, (Cardinality(C) - 1) \div 2, MedianOf(rec, C))
  BY <1>1, <1>4, <1>6, MedianIsPosted
<1>8. MedianOf(rec, C) \in Nat
  BY <1>5, <1>7 DEF PricesOf
<1> QED
  BY <1>1, <1>2, <1>3, <1>4, <1>7, <1>8

\* A cluster past the spread-free size has an honest price on both sides of
\* its median.
LEMMA SupportedByCount ==
  ASSUME NEW c, NEW rec, NEW C, Clustered(c, rec, C), Cardinality(C) >= SpreadFree(c),
         NEW F \in SUBSET c.signers, Cardinality(F) <= Cardinality(c.signers) - c.threshold
  PROVE  BetweenHonest(c, PricesOf(rec, C \ F), MedianOf(rec, C))
<1> DEFINE v == [s \in C |-> rec.latest[s].price]
           n == Cardinality(C)
           rank == (n - 1) \div 2
<1>1. PICK m : m = MedianOf(rec, C)
  OBVIOUS
<1>2. /\ IsFiniteSet(C) /\ n \in Nat /\ n # 0 /\ m \in Nat /\ AtRank(rec, C, rank, m)
  BY <1>1, ClusterCounts, FS_EmptySet
<1>3. v \in [C -> Nat] /\ v \in [C -> Int]
  BY DEF Clustered
<1>4. IsFiniteSet(F) /\ Cardinality(F) \in Nat
  BY FS_Subset, FS_CardinalityType DEF Clustered
<1>5. /\ Cardinality(c.signers) \in Nat /\ c.threshold \in Nat /\ c.spread \in Nat
  BY FS_CardinalityType DEF Clustered
<1>6. n >= 2 * Cardinality(F) + 1
  BY <1>2, <1>4, <1>5 DEF SpreadFree, Monus
<1> HIDE DEF n
<1>7. rank \in Nat /\ rank >= Cardinality(F) /\ n - rank > Cardinality(F)
  BY <1>2, <1>4, <1>6
<1> HIDE DEF rank
<1>8. PICK x \in C : x \notin F /\ v[x] <= m
  <2> DEFINE A == {s \in C : v[s] <= m}
  <2>1. A \in SUBSET C /\ A = {s \in C : rec.latest[s].price <= m}
    OBVIOUS
  <2>2. Cardinality(A) > rank
    BY <1>2, <2>1, Zenon DEF AtRank
  <2>3. IsFiniteSet(A) /\ Cardinality(A) \in Nat
    BY <1>2, <2>1, FS_Subset, FS_CardinalityType, Zenon
  <2> HIDE DEF A
  <2>4. Cardinality(A) > Cardinality(F)
    BY <1>4, <1>7, <2>2, <2>3
  <2>5. PICK x \in A : x \notin F
    BY <1>4, <2>3, <2>4, OneOutside
  <2> QED
    BY <2>5 DEF A
<1>9. PICK y \in C : y \notin F /\ v[y] >= m
  <2> DEFINE A == {s \in C : v[s] >= m}
             B == {s \in C : v[s] < m}
  <2>1. A \in SUBSET C /\ B = {s \in C : rec.latest[s].price < m}
    OBVIOUS
  <2>2. Cardinality(B) <= rank
    BY <1>2, <2>1, Zenon DEF AtRank
  <2>3. Cardinality(A) = n - Cardinality(B) /\ Cardinality(B) \in Nat
    <3>1. m \in Int
      BY <1>2
    <3> HIDE DEF v
    <3> QED
      BY <1>2, <1>3, <3>1, CountAbove DEF n
  <2>4. IsFiniteSet(A)
    BY <1>2, <2>1, FS_Subset, Zenon
  <2> HIDE DEF A, B
  <2>5. Cardinality(A) > Cardinality(F)
    BY <1>2, <1>4, <1>7, <2>2, <2>3
  <2>6. PICK y \in A : y \notin F
    BY <1>4, <2>4, <2>5, OneOutside, Zenon
  <2> QED
    BY <2>6 DEF A
<1>10. v[x] \in PricesOf(rec, C \ F) /\ v[y] \in PricesOf(rec, C \ F)
  BY <1>8, <1>9 DEF PricesOf
<1>11. BPS \in Nat
  BY ConstantsAreSound
<1>12. v[x] * BPS <= m * (BPS + c.spread)
  BY <1>2, <1>3, <1>5, <1>8, <1>11, WithinScale, Zenon
<1>13. m * BPS <= v[y] * (BPS + c.spread)
  BY <1>2, <1>3, <1>5, <1>9, <1>11, WithinScale
<1> HIDE DEF v
<1> QED
  BY <1>1, <1>10, <1>12, <1>13 DEF BetweenHonest

\* A cluster within the spread needs only one honest signer, and a majority
\* threshold gives it one.
LEMMA SupportedBySpread ==
  ASSUME NEW c, NEW rec, NEW C, Clustered(c, rec, C),
         WithinSpread(Min(PricesOf(rec, C)), Max(PricesOf(rec, C)), c.spread),
         2 * c.threshold > Cardinality(c.signers),
         NEW F \in SUBSET c.signers, Cardinality(F) <= Cardinality(c.signers) - c.threshold
  PROVE  BetweenHonest(c, PricesOf(rec, C \ F), MedianOf(rec, C))
<1> DEFINE v == [s \in C |-> rec.latest[s].price]
           P == PricesOf(rec, C)
<1>1. PICK m : m = MedianOf(rec, C)
  OBVIOUS
<1>2. /\ IsFiniteSet(C) /\ Cardinality(C) \in Nat /\ Cardinality(C) >= c.threshold /\ m \in P /\ C # {}
  BY <1>1, ClusterCounts, Zenon
<1>3. v \in [C -> Nat]
  BY DEF Clustered
<1>4. IsFiniteSet(F) /\ Cardinality(F) \in Nat
  BY FS_Subset, FS_CardinalityType DEF Clustered
<1>5. /\ Cardinality(c.signers) \in Nat /\ c.threshold \in Nat /\ c.spread \in Nat
  BY FS_CardinalityType DEF Clustered
<1>6. PICK x \in C : x \notin F
  <2>1. Cardinality(C) > Cardinality(F)
    BY <1>2, <1>4, <1>5
  <2> QED
    BY <1>2, <1>4, <2>1, OneOutside, Zenon
<1>7. P = {v[s] : s \in C} /\ DOMAIN v = C
  BY DEF PricesOf
<1>8. P \in SUBSET Nat /\ IsFiniteSet(P) /\ P # {}
  <2>1. P \in SUBSET Nat /\ P # {}
    BY <1>2, <1>3, <1>7, Zenon
  <2> HIDE DEF P, v
  <2>2. IsFiniteSet({v[s] : s \in C})
    BY <1>2, <1>7, FiniteImage, Zenon
  <2> QED
    BY <2>1, <2>2, <1>7, Zenon
<1>9. v[x] \in P /\ v[x] \in PricesOf(rec, C \ F)
  BY <1>6, <1>7 DEF PricesOf
<1> HIDE DEF P, v
<1>10. PICK lo, hi : lo = Min(P) /\ hi = Max(P)
  OBVIOUS
<1>11. P \in SUBSET Int
  BY <1>8
<1>12. lo \in P /\ hi \in P /\ \A y \in P : lo <= y /\ y <= hi
  BY <1>8, <1>10, <1>11, Extremes, Zenon
<1>13. hi * BPS <= lo * (BPS + c.spread)
  BY <1>10 DEF WithinSpread, P
<1>14. BPS \in Nat
  BY ConstantsAreSound, Zenon
<1>15. ASSUME NEW a \in P, NEW b \in P PROVE a * BPS <= b * (BPS + c.spread)
  <2>1. a \in Nat /\ b \in Nat /\ lo \in Nat /\ hi \in Nat /\ a <= hi /\ lo <= b
    BY <1>8, <1>12
  <2>2. a * BPS <= hi * BPS
    BY <2>1, <1>14, <1>5, WithinScale, Zenon
  <2>3. BPS + c.spread \in Nat /\ 0 \in Nat
    BY <1>5, <1>14
  <2>4. lo * (BPS + c.spread) <= b * (BPS + c.spread)
    BY <2>1, <2>3, WithinScale, Zenon
  <2>5. /\ a * BPS \in Nat /\ hi * BPS \in Nat
        /\ lo * (BPS + c.spread) \in Nat /\ b * (BPS + c.spread) \in Nat
    BY <2>1, <2>3, <1>14
  <2> QED
    BY <2>2, <2>4, <2>5, <1>13
<1> QED
  BY <1>1, <1>2, <1>9, <1>15, Zenon DEF BetweenHonest

\* A quorum bounds what a minority does to the median.
LEMMA QuorumSupports ==
  ASSUME NEW c, NEW rec, NEW C, Clustered(c, rec, C), rec.aggregate.price = MedianOf(rec, C)
  PROVE  MinorityCannotMove(c, rec, C)
<1> SUFFICES ASSUME 2 * c.threshold > Cardinality(c.signers), NEW F \in SUBSET c.signers,
                    Cardinality(F) <= Cardinality(c.signers) - c.threshold
             PROVE  BetweenHonest(c, PricesOf(rec, C \ F), MedianOf(rec, C))
  BY Zenon DEF MinorityCannotMove
<1>1. \/ Cardinality(C) >= SpreadFree(c)
      \/ WithinSpread(Min(PricesOf(rec, C)), Max(PricesOf(rec, C)), c.spread)
  BY DEF Clustered, Quorum
<1> QED
  BY <1>1, SupportedByCount, SupportedBySpread, Zenon

-----------------------------------------------------------------------------
(* Records and what a recomputation makes of them.                          *)

Submission == [price : Nat, ts : Nat]
Aggregate  == [price : Nat, package : Nat, write : Nat]
Record     == [latest : [Signer -> Submission \cup {None}],
               aggregate : Aggregate \cup {None}, history : Seq(Aggregate)]
Config     == [signers : SUBSET Signer, threshold : Nat \ {0}, maxStale : Nat, maxAge : Nat,
               maxSkew : Nat, spread : Nat, resolution : Nat]

\* A history is bounded, in the order of its writes, none of them after t.
WritesOrdered(h, t) ==
  /\ Len(h) <= MAX_HISTORY_LEN
  /\ \A i \in 1..Len(h) : h[i].write <= t
  /\ \A i, j \in 1..Len(h) : i <= j => h[i].write <= h[j].write

\* And it ends with the aggregate, if there is one.
HistoryOK(rec, t) ==
  /\ WritesOrdered(rec.history, t)
  /\ rec.aggregate # None => rec.history # <<>> /\ rec.history[Len(rec.history)] = rec.aggregate

\* A record whose submissions reach the quorum has their median.
Supported(c, rec) ==
  Quorum(c, rec, Cluster(c, rec)) => rec.aggregate.price = MedianOf(rec, Cluster(c, rec))

\* The operators of an aggregation read the submissions of a record only.
KeptIn(c, latest, t) ==
  {s \in c.signers : /\ latest[s] # None
                     /\ Monus(t, latest[s].ts \div MS_PER_SECOND) <= c.maxAge}
NewestIn(kept, latest, t) == Lesser(Max({0} \cup {latest[s].ts : s \in kept}), t * MS_PER_SECOND)
ClusterIn(c, latest, t) ==
  {s \in KeptIn(c, latest, t) : Monus(NewestIn(KeptIn(c, latest, t), latest, t), latest[s].ts)
                                  <= MaxRelativeSkew(c) * MS_PER_SECOND}
PricesIn(latest, S) == {latest[s].price : s \in S}
RankIn(latest, S, rank, price) ==
  /\ Cardinality({s \in S : latest[s].price < price}) <= rank
  /\ Cardinality({s \in S : latest[s].price <= price}) > rank
MedianIn(latest, S) ==
  CHOOSE price \in PricesIn(latest, S) : RankIn(latest, S, (Cardinality(S) - 1) \div 2, price)
QuorumIn(c, latest, C, t) ==
  /\ Cardinality(KeptIn(c, latest, t)) >= c.threshold
  /\ Cardinality(C) >= c.threshold
  /\ \/ Cardinality(C) >= SpreadFree(c)
     \/ WithinSpread(Min(PricesIn(latest, C)), Max(PricesIn(latest, C)), c.spread)

\* Cluster, quorum and median depend on the latest submissions alone, never on
\* the aggregate or the history of the feed.
LEMMA LatestOnly ==
  ASSUME NEW c, NEW rec, NEW C
  PROVE  /\ Cluster(c, rec) = ClusterIn(c, rec.latest, now)
         /\ Quorum(c, rec, C) = QuorumIn(c, rec.latest, C, now)
         /\ MedianOf(rec, C) = MedianIn(rec.latest, C)
<1>1. Kept(c, rec) = KeptIn(c, rec.latest, now)
  BY DEF Kept, KeptIn
<1>2. Cluster(c, rec) = ClusterIn(c, rec.latest, now)
  BY <1>1 DEF Cluster, ClusterIn, NewestStamp, NewestIn
<1>3. PricesOf(rec, C) = PricesIn(rec.latest, C)
  BY DEF PricesOf, PricesIn
<1>4. Quorum(c, rec, C) = QuorumIn(c, rec.latest, C, now)
  BY <1>1, <1>3 DEF Quorum, QuorumIn
<1>5. MedianOf(rec, C) = MedianIn(rec.latest, C)
  BY DEF MedianOf, MedianIn, PricesOf, PricesIn, AtRank, RankIn
<1> QED
  BY <1>2, <1>4, <1>5

\* The submissions of a cluster are there, and belong to signers.
LEMMA ClusterType ==
  ASSUME NEW c \in Config, NEW rec \in Record
  PROVE  /\ Cluster(c, rec) \in SUBSET c.signers
         /\ \A s \in Cluster(c, rec) : rec.latest[s] \in Submission
<1>1. Cluster(c, rec) \in SUBSET Kept(c, rec)
  BY DEF Cluster
<1>2. Kept(c, rec) \in SUBSET c.signers /\ \A s \in Kept(c, rec) : rec.latest[s] # None
  BY DEF Kept
<1>3. c.signers \in SUBSET Signer
  BY DEF Config
<1>4. \A s \in Signer : rec.latest[s] \in Submission \cup {None}
  BY DEF Record
<1> QED
  BY <1>1, <1>2, <1>3, <1>4

\* The cluster that recompute_aggregate selects is one of configured signers,
\* each with a submission.
LEMMA QuorumClusters ==
  ASSUME NEW c \in Config, NEW rec \in Record, Quorum(c, rec, Cluster(c, rec))
  PROVE  Clustered(c, rec, Cluster(c, rec))
<1>1. /\ Cluster(c, rec) \in SUBSET c.signers
      /\ \A s \in Cluster(c, rec) : rec.latest[s] \in Submission
  BY ClusterType
<1>2. \A s \in Cluster(c, rec) : rec.latest[s].price \in Nat
  BY <1>1 DEF Submission
<1>3. c.signers \in SUBSET Signer /\ c.threshold \in Nat \ {0} /\ c.spread \in Nat
  BY DEF Config
<1>4. IsFiniteSet(c.signers)
  BY <1>3, ConstantsAreSound, FS_Subset, Zenon
<1> QED
  BY <1>1, <1>2, <1>3, <1>4 DEF Clustered

\* The aggregate of a quorum.
AggregateOf(c, rec) ==
  [price |-> MedianOf(rec, Cluster(c, rec)),
   package |-> Min({rec.latest[s].ts : s \in Cluster(c, rec)}), write |-> now * MS_PER_SECOND]

\* What recompute_aggregate stores is an aggregate.
LEMMA AggregateType ==
  ASSUME NEW c \in Config, NEW rec \in Record, Quorum(c, rec, Cluster(c, rec)), now \in Nat
  PROVE  AggregateOf(c, rec) \in Aggregate
<1>1. PICK C : C = Cluster(c, rec)
  BY Zenon
<1>2. Clustered(c, rec, C) /\ \A s \in C : rec.latest[s] \in Submission
  BY <1>1, QuorumClusters, ClusterType
<1>3. IsFiniteSet(C) /\ C # {} /\ MedianOf(rec, C) \in Nat
  BY <1>2, ClusterCounts, Zenon
<1> DEFINE v == [s \in C |-> rec.latest[s].ts]
           P == {v[s] : s \in C}
<1>4. P \in SUBSET Nat /\ P # {} /\ P = {rec.latest[s].ts : s \in C} /\ DOMAIN v = C
  BY <1>2, <1>3 DEF Submission
<1> HIDE DEF v
<1>5. IsFiniteSet(P)
  BY <1>3, <1>4, FiniteImage
<1> HIDE DEF P
<1>6. P \in SUBSET Int
  BY <1>4
<1>7. Min(P) \in P
  BY <1>4, <1>5, <1>6, Extremes, Zenon
<1>8. Min({rec.latest[s].ts : s \in C}) \in Nat
  BY <1>4, <1>7
<1>9. now * MS_PER_SECOND \in Nat
  BY ConstantsAreSound
<1> QED
  BY <1>1, <1>3, <1>8, <1>9 DEF AggregateOf, Aggregate

\* push_history keeps the order: the new entry replaces the last, or follows
\* it, and the oldest leaves when the history is full.
LEMMA PushKept ==
  ASSUME NEW c, NEW h \in Seq(Aggregate), NEW t \in Nat, WritesOrdered(h, t),
         NEW agg \in Aggregate, agg.write = t
  PROVE  LET q == PushHistory(c, h, agg)
         IN  q \in Seq(Aggregate) /\ WritesOrdered(q, t) /\ q # <<>> /\ q[Len(q)] = agg
<1>0. /\ MAX_HISTORY_LEN \in Nat \ {0} /\ Len(h) \in Nat /\ DOMAIN h = 1..Len(h)
      /\ Len(h) <= MAX_HISTORY_LEN /\ \A i \in 1..Len(h) : h[i].write \in Nat
  <2>1. \A i \in 1..Len(h) : h[i] \in Aggregate
    OBVIOUS
  <2>2. \A a \in Aggregate : a.write \in Nat
    BY DEF Aggregate
  <2>3. MAX_HISTORY_LEN \in Nat \ {0} /\ Len(h) <= MAX_HISTORY_LEN
    BY ConstantsAreSound DEF WritesOrdered
  <2> QED
    BY <2>1, <2>2, <2>3
<1>1. ASSUME h # <<>> PROVE Len(h) >= 1
  BY <1>1
<1>2. ASSUME NEW n \in 1..MAX_HISTORY_LEN, NEW q \in Seq(Aggregate), Len(q) = n, q[n] = agg,
             \A i \in 1..(n - 1) : q[i].write <= t,
             \A i, j \in 1..(n - 1) : i <= j => q[i].write <= q[j].write
      PROVE  WritesOrdered(q, t) /\ q # <<>> /\ q[Len(q)] = agg
  <2>1. \A i \in 1..n : i = n \/ i \in 1..(n - 1)
    OBVIOUS
  <2>2. \A i \in 1..n : q[i].write <= t
    BY <1>2, <2>1
  <2>3. ASSUME NEW i \in 1..n, NEW j \in 1..n, i <= j PROVE q[i].write <= q[j].write
    <3>1. CASE j = n
      BY <1>2, <2>2, <3>1
    <3>2. CASE j # n
      <4>1. i \in 1..(n - 1) /\ j \in 1..(n - 1)
        BY <2>3, <3>2
      <4> QED
        BY <1>2, <2>3, <4>1
    <3> QED
      BY <3>1, <3>2
  <2>4. q # <<>>
    BY <1>2
  <2>5. n <= MAX_HISTORY_LEN
    BY <1>0
  <2> QED
    BY <1>2, <2>2, <2>3, <2>4, <2>5, Zenon DEF WritesOrdered
<1>3. CASE h # <<>> /\ agg.write < h[Len(h)].write + c.resolution * MS_PER_SECOND
  <2> DEFINE n == Len(h)
             q == [h EXCEPT ![n] = agg]
  <2>1. PushHistory(c, h, agg) = q
    BY <1>3 DEF PushHistory
  <2>2. n \in 1..MAX_HISTORY_LEN
    BY <1>0, <1>1, <1>3
  <2>3. q \in Seq(Aggregate) /\ Len(q) = n /\ q[n] = agg /\ \A i \in 1..(n - 1) : q[i] = h[i]
    BY <1>0, <2>2
  <2> HIDE DEF q
  <2>4. \A i \in 1..(n - 1) : i \in 1..Len(h)
    BY <1>0
  <2>5. /\ \A i \in 1..Len(h) : h[i].write <= t
        /\ \A i, j \in 1..Len(h) : i <= j => h[i].write <= h[j].write
    BY DEF WritesOrdered
  <2>6. /\ \A i \in 1..(n - 1) : q[i].write <= t
        /\ \A i, j \in 1..(n - 1) : i <= j => q[i].write <= q[j].write
    BY <2>3, <2>4, <2>5, Zenon
  <2>7. WritesOrdered(q, t) /\ q # <<>> /\ q[Len(q)] = agg
    BY <1>2, <2>2, <2>3, <2>6
  <2> QED
    BY <2>1, <2>3, <2>7
<1>4. CASE ~(h # <<>> /\ agg.write < h[Len(h)].write + c.resolution * MS_PER_SECOND)
  <2>1. CASE Len(h) >= MAX_HISTORY_LEN
    <3> DEFINE k == Tail(h)
               q == Append(k, agg)
               n == Len(h)
    <3>1. PushHistory(c, h, agg) = q
      BY <1>4, <2>1 DEF PushHistory
    <3>2. n \in 1..MAX_HISTORY_LEN /\ h # <<>>
      BY <1>0, <2>1
    <3>3. k \in Seq(Aggregate) /\ Len(k) = n - 1 /\ \A i \in 1..(n - 1) : k[i] = h[i + 1]
      BY <3>2
    <3> HIDE DEF k
    <3>4. q \in Seq(Aggregate) /\ Len(q) = n /\ q[n] = agg /\ \A i \in 1..(n - 1) : q[i] = k[i]
      BY <3>2, <3>3, <1>0
    <3> HIDE DEF q
    <3>5. \A i \in 1..(n - 1) : i + 1 \in 1..Len(h)
      BY <1>0
    <3>6. \A i \in 1..(n - 1) : q[i].write <= t
      BY <3>3, <3>4, <3>5, Zenon DEF WritesOrdered
    <3>7. ASSUME NEW i \in 1..(n - 1), NEW j \in 1..(n - 1), i <= j
          PROVE  q[i].write <= q[j].write
      <4>1. i + 1 \in 1..Len(h) /\ j + 1 \in 1..Len(h) /\ i + 1 <= j + 1
        BY <3>5, <3>7
      <4>2. h[i + 1].write <= h[j + 1].write
        BY <4>1, Zenon DEF WritesOrdered
      <4> QED
        BY <3>3, <3>4, <4>2, Zenon
    <3> HIDE DEF n
    <3> QED
      BY <1>2, <3>1, <3>2, <3>4, <3>6, <3>7, Zenon
  <2>2. CASE ~(Len(h) >= MAX_HISTORY_LEN)
    <3> DEFINE q == Append(h, agg)
               n == Len(h) + 1
    <3>1. PushHistory(c, h, agg) = q
      BY <1>4, <2>2 DEF PushHistory
    <3>2. n \in 1..MAX_HISTORY_LEN
      BY <1>0, <2>2
    <3>3. q \in Seq(Aggregate) /\ Len(q) = n /\ q[n] = agg /\ \A i \in 1..(n - 1) : q[i] = h[i]
      BY <1>0
    <3> HIDE DEF q
    <3>4. \A i \in 1..(n - 1) : i \in 1..Len(h)
      BY <1>0
    <3>5. \A i \in 1..(n - 1) : q[i].write <= t
      BY <3>3, <3>4 DEF WritesOrdered
    <3>6. \A i, j \in 1..(n - 1) : i <= j => q[i].write <= q[j].write
      BY <3>3, <3>4, Zenon DEF WritesOrdered
    <3> HIDE DEF n
    <3> QED
      BY <1>2, <3>1, <3>2, <3>3, <3>5, <3>6, Zenon
  <2> QED
    BY <2>1, <2>2
<1> QED
  BY <1>3, <1>4

\* recompute_aggregate leaves the submissions, keeps the history in order, and
\* writes the median whenever there is a quorum.
LEMMA RecomputeSound ==
  ASSUME NEW c \in Config, NEW rec \in Record, NEW onMiss, now \in Nat,
         HistoryOK(rec, now * MS_PER_SECOND)
  PROVE  LET q == RecomputeAggregate(c, rec, onMiss)
         IN  /\ q \in Record /\ q.latest = rec.latest
             /\ HistoryOK(q, now * MS_PER_SECOND) /\ Supported(c, q)
<1> DEFINE q == RecomputeAggregate(c, rec, onMiss)
           C == Cluster(c, rec)
<1>1. CASE ~Quorum(c, rec, C)
  <2>1. q = ApplyQuorumMiss(rec, onMiss)
    BY <1>1 DEF RecomputeAggregate, RecomputeWith
  <2>2. q = rec \/ q = [rec EXCEPT !.aggregate = None]
    BY <2>1 DEF ApplyQuorumMiss
  <2> HIDE DEF q
  <2>3. q \in Record /\ q.latest = rec.latest /\ q.history = rec.history
        /\ (q.aggregate = rec.aggregate \/ q.aggregate = None)
    BY <2>2 DEF Record
  <2>4. HistoryOK(q, now * MS_PER_SECOND)
    BY <2>3 DEF HistoryOK
  <2>5. ~Quorum(c, q, Cluster(c, q))
    <3>1. Cluster(c, q) = ClusterIn(c, q.latest, now) /\ C = ClusterIn(c, rec.latest, now)
      BY LatestOnly
    <3>2. /\ Quorum(c, q, Cluster(c, q)) = QuorumIn(c, q.latest, Cluster(c, q), now)
          /\ Quorum(c, rec, C) = QuorumIn(c, rec.latest, C, now)
      BY LatestOnly, Zenon
    <3> HIDE DEF C
    <3> QED
      BY <3>1, <3>2, <2>3, <1>1
  <2> QED
    BY <2>3, <2>4, <2>5, Zenon DEF q, Supported
<1>2. CASE Quorum(c, rec, C)
  <2> DEFINE agg == AggregateOf(c, rec)
             h   == PushHistory(c, rec.history, agg)
  <2>1. q = WriteAggregate(c, rec, agg)
    BY <1>2, Zenon DEF RecomputeAggregate, RecomputeWith, AggregateOf
  <2>2. agg \in Aggregate /\ agg.write = now * MS_PER_SECOND /\ agg.price = MedianOf(rec, C)
    BY <1>2, AggregateType DEF AggregateOf
  <2> HIDE DEF agg
  <2>3. rec.history \in Seq(Aggregate) /\ WritesOrdered(rec.history, now * MS_PER_SECOND)
        /\ now * MS_PER_SECOND \in Nat
    BY ConstantsAreSound DEF Record, HistoryOK
  <2>4. h \in Seq(Aggregate) /\ WritesOrdered(h, now * MS_PER_SECOND) /\ h # <<>> /\ h[Len(h)] = agg
    BY <2>2, <2>3, PushKept, Zenon
  <2>5. q = [rec EXCEPT !.aggregate = agg, !.history = h]
    BY <2>1 DEF WriteAggregate
  <2> HIDE DEF h, q
  <2>6. q \in Record /\ q.latest = rec.latest /\ q.history = h /\ q.aggregate = agg
    BY <2>2, <2>4, <2>5, Zenon DEF Record
  <2>7. HistoryOK(q, now * MS_PER_SECOND)
    BY <2>4, <2>6 DEF HistoryOK
  <2>8. MedianOf(q, Cluster(c, q)) = MedianOf(rec, C)
    <3>1. Cluster(c, q) = ClusterIn(c, q.latest, now) /\ C = ClusterIn(c, rec.latest, now)
      BY LatestOnly
    <3>2. /\ MedianOf(q, Cluster(c, q)) = MedianIn(q.latest, Cluster(c, q))
          /\ MedianOf(rec, C) = MedianIn(rec.latest, C)
      BY LatestOnly, Zenon
    <3> HIDE DEF C
    <3> QED
      BY <3>1, <3>2, <2>6, Zenon
  <2> QED
    BY <2>2, <2>6, <2>7, <2>8, Zenon DEF q, Supported
<1> QED
  BY <1>1, <1>2, Zenon

-----------------------------------------------------------------------------
(* The loop of submit_prices.                                               *)

Post(s, e, ts, m) ==
  [m EXCEPT ![e.feed] =
     RecomputeAggregate(config, StoreSubmission(@, s, e.price, ts), "Retain")]

\* What the fold over the entries of a batch calls, by positions.
BatchBody(s, entries, ts, g) ==
  [u \in SUBSET DOMAIN entries |->
     IF u = {} THEN feeds ELSE Post(s, entries[Max(u)], ts, g[u \ {Max(u)}])]

\* What every entry of a batch keeps, the batch keeps.
LEMMA BatchKeeps ==
  ASSUME NEW s, NEW ts, NEW n \in Nat, NEW entries, DOMAIN entries = 1..n,
         NEW V, feeds \in V, \A i \in 1..n : \A m \in V : Post(s, entries[i], ts, m) \in V,
         SubmitEntries(s, entries, ts)
  PROVE  feeds' \in V
<1> DEFINE step == [p \in (1..n) \X V |-> Post(s, entries[p[1]], ts, p[2])]
           iter == CHOOSE g : g = BatchBody(s, entries, ts, g)
<1>1. feeds' = iter[DOMAIN entries]
  BY DEF SubmitEntries, Loop, MapThenFoldSet, BatchBody, Post
<1>2. step \in [(1..n) \X V -> V]
  OBVIOUS
<1>3. \A k \in 1..n : \A v \in V : step[<<k, v>>] = Post(s, entries[k], ts, v)
  OBVIOUS
<1> HIDE DEF step
<1>4. PICK g \in [SUBSET (1..n) -> V] : FoldsAll(g, n, feeds, step)
  BY <1>2, FoldExists, Zenon
<1>5. g = BatchBody(s, entries, ts, g)
  <2>1. \A u \in SUBSET (1..n) :
          g[u] = IF u = {} THEN feeds ELSE Post(s, entries[Max(u)], ts, g[u \ {Max(u)}])
    <3>1. ASSUME NEW u \in SUBSET (1..n), u # {}
          PROVE  g[u] = Post(s, entries[Max(u)], ts, g[u \ {Max(u)}])
      <4>1. Max(u) \in 1..n
        BY <3>1, TakeLast
      <4>2. g[u \ {Max(u)}] \in V
        BY Zenon
      <4>3. g[u] = step[<<Max(u), g[u \ {Max(u)}]>>]
        BY <3>1, <1>4, Zenon DEF FoldsAll
      <4> QED
        BY <4>1, <4>2, <4>3, <1>3, Zenon
    <3>2. g[{}] = feeds
      BY <1>4, Zenon DEF FoldsAll
    <3> QED
      BY <3>1, <3>2, Zenon
  <2> QED
    BY <2>1, Zenon DEF BatchBody
<1>6. iter = BatchBody(s, entries, ts, iter)
  BY <1>5
<1> HIDE DEF iter
<1>7. Folds(iter, n, V, feeds, step)
  <2>1. ASSUME NEW u \in SUBSET (1..n), u # {}, iter[u \ {Max(u)}] \in V
        PROVE  iter[u] = step[<<Max(u), iter[u \ {Max(u)}]>>]
    <3>1. Max(u) \in 1..n
      BY <2>1, TakeLast
    <3>2. iter[u] = Post(s, entries[Max(u)], ts, iter[u \ {Max(u)}])
      BY <1>6, <2>1, Zenon DEF BatchBody
    <3> QED
      BY <2>1, <3>1, <3>2, <1>3, Zenon
  <2>2. iter[{}] = feeds
    BY <1>6, Zenon DEF BatchBody
  <2> QED
    BY <2>1, <2>2, Zenon DEF Folds
<1> DEFINE U == [k \in 0..n |-> V]
<1>8. U \in [0..n -> SUBSET V] /\ feeds \in U[0]
      /\ \A k \in 1..n : \A v \in U[k - 1] : step[<<k, v>>] \in U[k]
  <2>1. \A k \in 1..n : k \in 0..n /\ k - 1 \in 0..n
    OBVIOUS
  <2>2. \A k \in 0..n : U[k] = V
    OBVIOUS
  <2> QED
    BY <2>1, <2>2, <1>3
<1>9. U[n] = V
  OBVIOUS
<1> HIDE DEF U
<1>10. iter[1..n] \in U[n]
  BY <1>7, <1>8, FoldKeeps, Zenon
<1> QED
  BY <1>1, <1>9, <1>10, Zenon

-----------------------------------------------------------------------------
(* The loop of price().                                                     *)

FoundIn(r, t) == Loop(LAMBDA best, entry : CloserEntry(best, entry, t), None, r)

ReadBody(r, t, g) ==
  [u \in SUBSET DOMAIN r |-> IF u = {} THEN None ELSE CloserEntry(g[u \ {Max(u)}], r[Max(u)], t)]

\* What every entry of the loop of price() keeps, the loop keeps.
LEMMA LoopKeeps ==
  ASSUME NEW r \in Seq(Aggregate), NEW n, n = Len(r), NEW t,
         NEW V \in [0..n -> SUBSET (Aggregate \cup {None})], None \in V[0],
         \A k \in 1..n : \A v \in V[k - 1] : CloserEntry(v, r[k], t) \in V[k]
  PROVE  FoundIn(r, t) \in V[n]
<1> DEFINE W    == Aggregate \cup {None}
           step == [p \in (1..n) \X W |-> CloserEntry(p[2], r[p[1]], t)]
           iter == CHOOSE g : g = ReadBody(r, t, g)
<1>0. n \in Nat /\ DOMAIN r = 1..n /\ \A i \in 1..n : r[i] \in Aggregate
  OBVIOUS
<1>1. FoundIn(r, t) = iter[DOMAIN r]
  BY Zenon DEF FoundIn, Loop, MapThenFoldSet, ReadBody
<1>2. step \in [(1..n) \X W -> W]
  BY <1>0, Zenon DEF CloserEntry
<1>3. \A k \in 1..n : \A v \in W : step[<<k, v>>] = CloserEntry(v, r[k], t)
  OBVIOUS
<1> HIDE DEF step, W
<1>4. None \in W
  BY DEF W
<1>5. PICK g \in [SUBSET (1..n) -> W] : FoldsAll(g, n, None, step)
  BY <1>0, <1>2, <1>4, FoldExists, Zenon
<1>6. g = ReadBody(r, t, g)
  <2>1. ASSUME NEW u \in SUBSET (1..n), u # {}
        PROVE  g[u] = CloserEntry(g[u \ {Max(u)}], r[Max(u)], t)
    <3>1. Max(u) \in 1..n
      BY <1>0, <2>1, TakeLast
    <3>2. g[u \ {Max(u)}] \in W
      BY Zenon
    <3>3. g[u] = step[<<Max(u), g[u \ {Max(u)}]>>]
      BY <2>1, <1>5, Zenon DEF FoldsAll
    <3> QED
      BY <3>1, <3>2, <3>3, <1>3, Zenon
  <2>2. g[{}] = None
    BY <1>5, Zenon DEF FoldsAll
  <2> QED
    BY <1>0, <2>1, <2>2, Zenon DEF ReadBody
<1>7. iter = ReadBody(r, t, iter)
  BY <1>6
<1> HIDE DEF iter
<1>8. Folds(iter, n, W, None, step)
  <2>1. ASSUME NEW u \in SUBSET (1..n), u # {}, iter[u \ {Max(u)}] \in W
        PROVE  iter[u] = step[<<Max(u), iter[u \ {Max(u)}]>>]
    <3>1. Max(u) \in 1..n
      BY <1>0, <2>1, TakeLast
    <3>2. iter[u] = CloserEntry(iter[u \ {Max(u)}], r[Max(u)], t)
      BY <1>0, <1>7, <2>1, Zenon DEF ReadBody
    <3> QED
      BY <2>1, <3>1, <3>2, <1>3, Zenon
  <2>2. iter[{}] = None
    BY <1>7, Zenon DEF ReadBody
  <2> QED
    BY <2>1, <2>2, Zenon DEF Folds
<1>9. V \in [0..n -> SUBSET W] /\ \A k \in 1..n : \A v \in V[k - 1] : step[<<k, v>>] \in V[k]
  <2>1. V \in [0..n -> SUBSET W]
    BY DEF W
  <2>2. \A k \in 1..n : k - 1 \in 0..n
    BY <1>0
  <2>3. ASSUME NEW k \in 1..n, NEW v \in V[k - 1] PROVE v \in W
    <3>1. V[k - 1] \in SUBSET W
      BY <2>1, <2>2
    <3> QED
      BY <3>1
  <2> QED
    BY <2>1, <2>3, <1>3, SMTT(30)
<1>10. iter[1..n] \in V[n]
  BY <1>0, <1>8, <1>9, FoldKeeps, Zenon
<1> QED
  BY <1>0, <1>1, <1>10

\* An entry no later than asked that is at least as late as each of the first
\* k, or none where none of them is early enough.
Early(e, t) == e.package \div MS_PER_SECOND <= t

Best(r, k, t, e) ==
  \/ e = None /\ \A j \in 1..k : ~Early(r[j], t)
  \/ /\ \E j \in 1..k : e = r[j]
     /\ Early(e, t)
     /\ \A j \in 1..k : Early(r[j], t) =>
          r[j].package < e.package \/ (r[j].package = e.package /\ r[j].write <= e.write)

\* The loop of price(), newest write first, ends with the best of all entries.
LEMMA LoopFindsBest ==
  ASSUME NEW r \in Seq(Aggregate), NEW t \in Nat,
         \A i, j \in 1..Len(r) : i <= j => r[j].write <= r[i].write
  PROVE  Best(r, Len(r), t, FoundIn(r, t))
<1> DEFINE n == Len(r)
           W == Aggregate \cup {None}
           V == [k \in 0..n |-> {e \in W : Best(r, k, t, e)}]
<1>0. n \in Nat /\ \A i \in 1..n : r[i] \in Aggregate
  OBVIOUS
<1>1. \A e \in Aggregate : e # None /\ e.package \in Nat /\ e.write \in Nat
  BY NoneIsNoRecord DEF Aggregate
<1>2. \A i \in 1..n : r[i] # None /\ r[i].package \in Nat /\ r[i].write \in Nat
  BY <1>0, <1>1
<1>3. V \in [0..n -> SUBSET W]
  OBVIOUS
<1>4. None \in V[0]
  BY <1>0 DEF Best
<1>5. ASSUME NEW k \in 1..n, NEW v \in V[k - 1] PROVE CloserEntry(v, r[k], t) \in V[k]
  <2>0. k \in 0..n /\ k - 1 \in 0..n /\ k - 1 \in Nat
    BY <1>0
  <2>1. v \in W /\ Best(r, k - 1, t, v)
    BY <2>0
  <2>2. \A j \in 1..k : j = k \/ j \in 1..(k - 1)
    BY <1>0
  <2>3. \A j \in 1..(k - 1) : j \in 1..n /\ j \in 1..k /\ j <= k
    BY <1>0
  <2> SUFFICES CloserEntry(v, r[k], t) \in W /\ Best(r, k, t, CloserEntry(v, r[k], t))
    BY <2>0, Zenon
  <2>4. CASE Early(r[k], t) /\ (v = None \/ r[k].package > v.package)
    <3>1. CloserEntry(v, r[k], t) = r[k]
      BY <2>4, Zenon DEF CloserEntry, Early
    <3>2. \A j \in 1..(k - 1) : Early(r[j], t) => r[j].package < r[k].package
      <4>1. CASE v = None
        BY <2>1, <4>1, <2>3, <1>2, Zenon DEF Best
      <4>2. CASE v # None
        <5>1. v \in Aggregate
          BY <2>1, <4>2, Zenon
        <5>2. v.package \in Nat /\ r[k].package > v.package
          BY <5>1, <4>2, <2>4, <1>1, Zenon
        <5>3. \A j \in 1..(k - 1) : Early(r[j], t) => r[j].package <= v.package
          BY <2>1, <4>2, <2>3, <1>2, <5>2, SMTT(30) DEF Best
        <5> QED
          BY <5>2, <5>3, <2>3, <1>2
      <4> QED
        BY <4>1, <4>2, Zenon
    <3>3. \A j \in 1..k : Early(r[j], t) =>
            r[j].package < r[k].package \/ (r[j].package = r[k].package /\ r[j].write <= r[k].write)
      BY <2>2, <3>2, <1>2
    <3>4. k \in 1..k
      OBVIOUS
    <3> QED
      BY <3>1, <3>3, <3>4, <2>4, <1>0, Zenon DEF Best
  <2>5. CASE ~(Early(r[k], t) /\ (v = None \/ r[k].package > v.package))
    <3>1. CloserEntry(v, r[k], t) = v
      BY <2>5, Zenon DEF CloserEntry, Early
    <3>2. CASE v = None
      <4>1. ~Early(r[k], t) /\ \A j \in 1..(k - 1) : ~Early(r[j], t)
        BY <2>1, <2>3, <2>5, <3>2, <1>2, Zenon DEF Best
      <4>2. \A j \in 1..k : ~Early(r[j], t)
        BY <4>1, <2>2, Zenon
      <4> QED
        BY <3>1, <3>2, <4>2, Zenon DEF Best
    <3>3. CASE v # None
      <4>1. PICK i \in 1..(k - 1) : v = r[i]
        BY <2>1, <3>3, Zenon DEF Best
      <4>2. /\ Early(v, t)
            /\ \A j \in 1..(k - 1) : Early(r[j], t) =>
                 r[j].package < v.package \/ (r[j].package = v.package /\ r[j].write <= v.write)
        BY <2>1, <3>3, Zenon DEF Best
      <4>3. r[k].write <= v.write
        BY <4>1, <2>3, <1>0, Zenon
      <4>4. Early(r[k], t) => r[k].package <= v.package
        BY <2>5, <3>3, <4>1, <2>3, <1>2
      <4>5. Early(r[k], t) =>
              r[k].package < v.package \/ (r[k].package = v.package /\ r[k].write <= v.write)
        BY <4>1, <4>3, <4>4, <2>3, <1>2
      <4>6. \A j \in 1..k : Early(r[j], t) =>
              r[j].package < v.package \/ (r[j].package = v.package /\ r[j].write <= v.write)
        BY <2>2, <4>2, <4>5
      <4> QED
        BY <2>1, <2>3, <3>1, <4>1, <4>2, <4>6, Zenon DEF Best
    <3> QED
      BY <3>2, <3>3, Zenon
  <2> QED
    BY <2>4, <2>5, Zenon
<1>6. n \in 0..n
  BY <1>0
<1>7. \A e \in V[n] : Best(r, n, t, e)
  BY <1>6, Zenon
<1> HIDE DEF V
<1>8. FoundIn(r, t) \in V[n]
  BY <1>3, <1>4, <1>5, LoopKeeps, Zenon
<1> QED
  BY <1>7, <1>8

-----------------------------------------------------------------------------
(* The registry.                                                            *)

\* A list of slots over S and its reverse index agree.
IndexOK(ix, S) ==
  /\ ix.at \in Seq(S)
  /\ DOMAIN ix.index = Range(ix.at)
  /\ \A slot \in DOMAIN ix.at : ix.index[ix.at[slot]] = slot

MappingOK(r) ==
  /\ r.mapping = [a \in DOMAIN r.mapping |-> r.mapping[a]]
  /\ DOMAIN r.mapping = Range(r.asset.at)
  /\ \A a \in DOMAIN r.mapping : r.mapping[a] \in DOMAIN r.owner /\ r.owner[r.mapping[a]] = a
  /\ \A f \in DOMAIN r.owner : r.owner[f] \in DOMAIN r.mapping /\ r.mapping[r.owner[f]] = f
  /\ DOMAIN r.owner \subseteq DOMAIN r.feed.index

RegistryOK(r) ==
  /\ DOMAIN r = {"feed", "asset", "mapping", "owner"}
  /\ IndexOK(r.feed, Feed) /\ IndexOK(r.asset, Asset)
  /\ MappingOK(r)

\* A new element takes the slot after the last.
LEMMA InsertKept ==
  ASSUME NEW ix, NEW S, NEW e \in S, IndexOK(ix, S), e \notin DOMAIN ix.index
  PROVE  /\ IndexOK(IndexInsert(ix, e), S)
         /\ Range(IndexInsert(ix, e).at) = Range(ix.at) \cup {e}
<1> DEFINE at == ix.at
           n  == Len(at)
           jx == IndexInsert(ix, e)
<1>1. at \in Seq(S) /\ n \in Nat /\ DOMAIN at = 1..n
  BY DEF IndexOK
<1>2. jx.at = Append(at, e) /\ jx.index = Bind(ix.index, e, n + 1)
  BY Zenon DEF IndexInsert
<1>3. jx.at \in Seq(S) /\ DOMAIN jx.at = 1..(n + 1)
      /\ jx.at[n + 1] = e /\ \A i \in 1..n : jx.at[i] = at[i]
  BY <1>1, <1>2
<1>4. Range(jx.at) = Range(at) \cup {e}
  BY <1>1, <1>3, SMTT(30) DEF Range
<1>5. DOMAIN jx.index = Range(jx.at)
  BY <1>2, <1>4 DEF Bind, IndexOK
<1>6. ASSUME NEW i \in DOMAIN jx.at PROVE jx.index[jx.at[i]] = i
  <2>1. CASE i = n + 1
    BY <2>1, <1>2, <1>3, Zenon DEF Bind
  <2>2. CASE i \in 1..n
    <3>1. at[i] \in Range(at)
      BY <2>2, <1>1, Zenon DEF Range
    <3>2. at[i] \in DOMAIN ix.index /\ at[i] # e
      BY <3>1 DEF IndexOK
    <3> QED
      BY <2>2, <3>2, <1>1, <1>2, <1>3 DEF Bind, IndexOK
  <2> QED
    BY <2>1, <2>2, <1>1, <1>3
<1> QED
  BY <1>3, <1>4, <1>5, <1>6 DEF IndexOK

\* Removal puts the last element into the slot of the removed one.
LEMMA RemoveKept ==
  ASSUME NEW ix, NEW S, NEW e, IndexOK(ix, S)
  PROVE  /\ IndexOK(IndexRemove(ix, e), S)
         /\ Range(IndexRemove(ix, e).at) = Range(ix.at) \ {e}
<1> DEFINE at   == ix.at
           n    == Len(at)
           jx   == IndexRemove(ix, e)
           slot == ix.index[e]
           rest == Restrict(ix.index, DOMAIN ix.index \ {e})
<1>1. at \in Seq(S) /\ n \in Nat /\ DOMAIN at = 1..n
  BY DEF IndexOK
<1>2. CASE e \notin DOMAIN ix.index
  BY <1>2 DEF IndexRemove, IndexOK
<1>3. CASE e \in DOMAIN ix.index
  <2>1. slot \in 1..n /\ at[slot] = e
    BY <1>1, <1>3 DEF IndexOK, Range
  <2>2. \A i \in 1..n : at[i] = e => i = slot
    BY <1>1 DEF IndexOK
  <2>3. \A i, j \in 1..n : at[i] = at[j] => i = j
    BY <1>1 DEF IndexOK
  <2>4. DOMAIN rest = Range(at) \ {e} /\ \A x \in DOMAIN rest : rest[x] = ix.index[x]
    BY DEF Restrict, IndexOK
  <2>5. jx = FillSlot(ix, rest, slot)
    BY <1>3, Zenon DEF IndexRemove
  <2> HIDE DEF rest
  <2>6. CASE slot = n
    <3>1. jx.at = SubSeq(at, 1, n - 1) /\ jx.index = rest /\ n - 1 \in Nat /\ n - 1 <= n
      BY <2>1, <2>5, <2>6, <1>1 DEF FillSlot, DropLast
    <3>2. jx.at \in Seq(S) /\ DOMAIN jx.at = 1..(n - 1) /\ \A i \in 1..(n - 1) : jx.at[i] = at[i]
      <4>1. \A i \in 1..(n - 1) : at[i] \in S
        BY <1>1, <3>1
      <4> HIDE DEF jx
      <4> QED
        BY <3>1, <1>1, <4>1
    <3>3. Range(jx.at) = Range(at) \ {e}
      <4>1. \A i \in 1..(n - 1) : i \in 1..n /\ at[i] # e
        BY <2>2, <2>6, <1>1
      <4>2. Range(jx.at) \subseteq Range(at) \ {e}
        BY <3>2, <4>1, <1>1 DEF Range
      <4>3. ASSUME NEW x \in Range(at), x # e PROVE x \in Range(jx.at)
        <5>1. PICK i \in 1..n : x = at[i]
          BY <1>1 DEF Range
        <5>2. i \in 1..(n - 1)
          BY <5>1, <4>3, <2>1, <2>6, <1>1
        <5> QED
          BY <5>1, <5>2, <3>2, Zenon DEF Range
      <4> QED
        BY <4>2, <4>3
    <3>4. ASSUME NEW i \in 1..(n - 1) PROVE jx.index[jx.at[i]] = i
      <4>1. i \in 1..n /\ at[i] # e
        BY <2>2, <2>6, <1>1
      <4>2. at[i] \in DOMAIN rest
        BY <4>1, <2>4, <1>1, Zenon DEF Range
      <4> QED
        BY <4>1, <4>2, <2>4, <3>1, <3>2, <1>1, Zenon DEF IndexOK
    <3> QED
      BY <3>1, <3>2, <3>3, <3>4, <2>4, Zenon DEF IndexOK
  <2>7. CASE slot # n
    <3> DEFINE moved == [at EXCEPT ![slot] = at[n]]
    <3>1. jx.at = SubSeq(moved, 1, Len(moved) - 1) /\ jx.index = Bind(rest, at[n], slot)
      BY <2>5, <2>7 DEF FillSlot, DropLast
    <3>2. n \in 1..n /\ slot \in 1..(n - 1)
      BY <2>1, <2>7, <1>1
    <3>3. moved \in Seq(S) /\ Len(moved) = n /\ DOMAIN moved = 1..n
          /\ \A i \in 1..n : moved[i] = IF i = slot THEN at[n] ELSE at[i]
      BY <1>1, <3>2
    <3> HIDE DEF moved
    <3>4. jx.at \in Seq(S) /\ DOMAIN jx.at = 1..(n - 1)
          /\ \A i \in 1..(n - 1) : jx.at[i] = IF i = slot THEN at[n] ELSE at[i]
      BY <3>1, <3>2, <3>3
    <3>5. at[n] # e
      BY <2>2, <2>7, <3>2, Zenon
    <3>6. Range(jx.at) = Range(at) \ {e}
      <4>1. Range(jx.at) \subseteq Range(at) \ {e}
        BY <3>4, <3>5, <2>2, <3>2, <1>1 DEF Range
      <4>2. ASSUME NEW x \in Range(at), x # e PROVE x \in Range(jx.at)
        <5>1. PICK i \in 1..n : x = at[i]
          BY <1>1 DEF Range
        <5>2. i # slot
          BY <5>1, <2>1, <4>2, Zenon
        <5>3. CASE i = n
          BY <5>1, <5>3, <3>2, <3>4, Zenon DEF Range
        <5>4. CASE i # n
          <6>1. i \in 1..(n - 1)
            BY <5>4, <1>1
          <6> QED
            BY <5>1, <5>2, <6>1, <3>4, Zenon DEF Range
        <5> QED
          BY <5>3, <5>4
      <4> QED
        BY <4>1, <4>2
    <3>7. DOMAIN jx.index = Range(jx.at)
      <4>1. at[n] \in Range(at)
        BY <3>2, <1>1, Zenon DEF Range
      <4> QED
        BY <3>1, <3>5, <3>6, <4>1, <2>4, Zenon DEF Bind
    <3>8. ASSUME NEW i \in 1..(n - 1) PROVE jx.index[jx.at[i]] = i
      <4>1. CASE i = slot
        BY <4>1, <3>1, <3>4, Zenon DEF Bind
      <4>2. CASE i # slot
        <5>1. i \in 1..n /\ at[i] # e /\ at[i] # at[n]
          BY <4>2, <2>2, <2>3, <3>2, <1>1
        <5>2. at[i] \in DOMAIN rest
          BY <5>1, <2>4, <1>1, Zenon DEF Range
        <5>3. rest[at[i]] = i
          BY <5>1, <5>2, <2>4, <1>1, ZenonT(30) DEF IndexOK
        <5> QED
          BY <4>2, <5>1, <5>2, <5>3, <3>1, <3>4, SMTT(30) DEF Bind
      <4> QED
        BY <4>1, <4>2, Zenon
    <3> QED
      BY <3>4, <3>6, <3>7, <3>8, ZenonT(30) DEF IndexOK
  <2> QED
    BY <2>6, <2>7
<1> QED
  BY <1>2, <1>3

\* What a change of the registry does to the catalog of known and named feeds.
Known(r) == Range(r.feed.at)

\* ensure_known_feed adds the feed once and leaves the rest alone.
LEMMA EnsureKept ==
  ASSUME NEW r, NEW f \in Feed,
         DOMAIN r = {"feed", "asset", "mapping", "owner"}, IndexOK(r.feed, Feed)
  PROVE  LET q == EnsureKnownFeed(r, f)
         IN  /\ DOMAIN q = {"feed", "asset", "mapping", "owner"}
             /\ IndexOK(q.feed, Feed) /\ Known(q) = Known(r) \cup {f}
             /\ q.asset = r.asset /\ q.mapping = r.mapping /\ q.owner = r.owner
<1>1. CASE f \in DOMAIN r.feed.index
  BY <1>1 DEF EnsureKnownFeed, IndexOK, Known
<1>2. CASE f \notin DOMAIN r.feed.index
  <2> DEFINE ix == IndexInsert(r.feed, f)
  <2>1. IndexOK(ix, Feed) /\ Range(ix.at) = Range(r.feed.at) \cup {f}
    BY <1>2, InsertKept, Zenon
  <2> HIDE DEF ix
  <2>2. EnsureKnownFeed(r, f) = [r EXCEPT !.feed = ix]
    BY <1>2, Zenon DEF EnsureKnownFeed, ix
  <2> QED
    BY <2>1, <2>2 DEF Known
<1> QED
  BY <1>1, <1>2

\* register_feed
LEMMA RegisterKept ==
  ASSUME NEW r, RegistryOK(r), NEW f \in Feed
  PROVE  LET q == EnsureKnownFeed(r, f)
         IN  RegistryOK(q) /\ Known(q) = Known(r) \cup {f} /\ q.mapping = r.mapping
<1> DEFINE q == EnsureKnownFeed(r, f)
<1>1. /\ DOMAIN q = {"feed", "asset", "mapping", "owner"}
      /\ IndexOK(q.feed, Feed) /\ Known(q) = Known(r) \cup {f}
      /\ q.asset = r.asset /\ q.mapping = r.mapping /\ q.owner = r.owner
  BY EnsureKept, Zenon DEF RegistryOK
<1> HIDE DEF q
<1>2. DOMAIN r.feed.index \subseteq DOMAIN q.feed.index
  BY <1>1, Zenon DEF RegistryOK, IndexOK, Known
<1>3. MappingOK(q)
  BY <1>1, <1>2, Zenon DEF RegistryOK, MappingOK
<1>4. RegistryOK(q)
  BY <1>1, <1>3 DEF RegistryOK
<1> QED
  BY <1>1, <1>4, Zenon DEF q

\* add_feed gives a free asset a feed that no asset names.
LEMMA AddKept ==
  ASSUME NEW r, RegistryOK(r), NEW f \in Feed, NEW a \in Asset,
         a \notin DOMAIN r.mapping, f \notin DOMAIN r.owner
  PROVE  LET q == [EnsureKnownFeed(MapFeed(r, a, f), f) EXCEPT !.asset = IndexInsert(@, a)]
         IN  /\ RegistryOK(q) /\ Known(q) = Known(r) \cup {f}
             /\ q.mapping = [b \in DOMAIN r.mapping \cup {a} |-> IF b = a THEN f ELSE r.mapping[b]]
<1> DEFINE m == MapFeed(r, a, f)
           k == EnsureKnownFeed(m, f)
           ix == IndexInsert(r.asset, a)
           q == [k EXCEPT !.asset = IndexInsert(@, a)]
<1>1. /\ DOMAIN m = {"feed", "asset", "mapping", "owner"}
      /\ m.feed = r.feed /\ m.asset = r.asset
      /\ m.mapping = Bind(r.mapping, a, f) /\ m.owner = Bind(r.owner, f, a)
  BY Zenon DEF MapFeed, RegistryOK
<1> HIDE DEF m
<1>2. /\ DOMAIN k = {"feed", "asset", "mapping", "owner"}
      /\ IndexOK(k.feed, Feed) /\ Known(k) = Known(m) \cup {f}
      /\ k.asset = m.asset /\ k.mapping = m.mapping /\ k.owner = m.owner
  BY <1>1, EnsureKept, Zenon DEF RegistryOK
<1> HIDE DEF k
<1>3. Known(m) = Known(r)
  BY <1>1 DEF Known
<1>4. IndexOK(ix, Asset) /\ Range(ix.at) = Range(r.asset.at) \cup {a}
  <2>1. IndexOK(r.asset, Asset) /\ a \notin DOMAIN r.asset.index
    BY DEF RegistryOK, IndexOK, MappingOK
  <2> QED
    BY <2>1, InsertKept, Zenon
<1> HIDE DEF ix
<1>5. /\ DOMAIN q = {"feed", "asset", "mapping", "owner"}
      /\ q.feed = k.feed /\ q.asset = ix /\ q.mapping = m.mapping /\ q.owner = m.owner
  BY <1>1, <1>2, Zenon DEF ix
<1> HIDE DEF q
<1>6. Known(q) = Known(r) \cup {f}
  BY <1>2, <1>3, <1>5, Zenon DEF Known
<1>7. DOMAIN r.owner \cup {f} \subseteq DOMAIN q.feed.index
  BY <1>2, <1>5, <1>6, Zenon DEF RegistryOK, IndexOK, Known, MappingOK
<1>8. MappingOK(q)
  <2>1. q.mapping = [b \in DOMAIN q.mapping |-> q.mapping[b]]
    BY <1>1, <1>5, Zenon DEF Bind
  <2>2. DOMAIN q.mapping = Range(q.asset.at)
    BY <1>1, <1>4, <1>5, SMTT(30) DEF Bind, RegistryOK, MappingOK
  <2>3. \A b \in DOMAIN q.mapping : q.mapping[b] \in DOMAIN q.owner /\ q.owner[q.mapping[b]] = b
    BY <1>1, <1>5 DEF Bind, RegistryOK, MappingOK
  <2>4. \A g \in DOMAIN q.owner : q.owner[g] \in DOMAIN q.mapping /\ q.mapping[q.owner[g]] = g
    BY <1>1, <1>5 DEF Bind, RegistryOK, MappingOK
  <2>5. DOMAIN q.owner \subseteq DOMAIN q.feed.index
    BY <1>1, <1>5, <1>7, Zenon DEF Bind
  <2> QED
    BY <2>1, <2>2, <2>3, <2>4, <2>5, Zenon DEF MappingOK
<1>9. RegistryOK(q)
  BY <1>2, <1>4, <1>5, <1>8, Zenon DEF RegistryOK
<1> QED
  BY <1>1, <1>5, <1>6, <1>9, Zenon DEF q, k, m, ix, Bind

\* What clear_feed_state leaves of a registry.
Cleared(r, f) == [r EXCEPT !.owner = Restrict(@, DOMAIN @ \ {f}), !.feed = IndexRemove(@, f)]

WithoutFeed(mapping, f) == Restrict(mapping, {a \in DOMAIN mapping : mapping[a] # f})

\* purge_feed of a feed that no asset names.
LEMMA PurgeKept ==
  ASSUME NEW r, RegistryOK(r), NEW f \in Feed, f \notin DOMAIN r.owner
  PROVE  LET q == Cleared(r, f)
         IN  RegistryOK(q) /\ Known(q) = Known(r) \ {f} /\ q.mapping = WithoutFeed(r.mapping, f)
<1> DEFINE ix == IndexRemove(r.feed, f)
           q  == Cleared(r, f)
<1>1. IndexOK(ix, Feed) /\ Range(ix.at) = Known(r) \ {f}
  BY RemoveKept, Zenon DEF RegistryOK, Known
<1> HIDE DEF ix
<1>2. /\ DOMAIN q = {"feed", "asset", "mapping", "owner"}
      /\ q.feed = ix /\ q.asset = r.asset /\ q.mapping = r.mapping
      /\ q.owner = Restrict(r.owner, DOMAIN r.owner \ {f})
  BY DEF Cleared, RegistryOK, ix
<1> HIDE DEF q
<1>3. DOMAIN q.owner = DOMAIN r.owner /\ \A g \in DOMAIN q.owner : q.owner[g] = r.owner[g]
  BY <1>2, Zenon DEF Restrict
<1>4. DOMAIN q.owner \subseteq DOMAIN q.feed.index
  BY <1>1, <1>2, <1>3, Zenon DEF RegistryOK, IndexOK, MappingOK, Known
<1>5. MappingOK(q)
  BY <1>2, <1>3, <1>4, SMTT(30) DEF RegistryOK, MappingOK
<1>6. RegistryOK(q)
  BY <1>1, <1>2, <1>5 DEF RegistryOK
<1>7. q.mapping = WithoutFeed(r.mapping, f)
  <2>1. {a \in DOMAIN r.mapping : r.mapping[a] # f} = DOMAIN r.mapping
    BY DEF RegistryOK, MappingOK
  <2> QED
    BY <1>2, <2>1, Zenon DEF RegistryOK, MappingOK, WithoutFeed, Restrict
<1> QED
  BY <1>1, <1>2, <1>6, <1>7 DEF q, Known

\* remove_feed, and purge_feed of a feed that an asset names: the feed and the
\* name go together.
LEMMA DropKept ==
  ASSUME NEW r, RegistryOK(r), NEW a \in DOMAIN r.mapping, NEW f, f = r.mapping[a]
  PROVE  LET q == Cleared(RemoveFeedMapping(r, a), f)
         IN  RegistryOK(q) /\ Known(q) = Known(r) \ {f} /\ q.mapping = WithoutFeed(r.mapping, f)
<1> DEFINE ix == IndexRemove(r.feed, f)
           jx == IndexRemove(r.asset, a)
           q  == Cleared(RemoveFeedMapping(r, a), f)
<1>1. IndexOK(ix, Feed) /\ Range(ix.at) = Known(r) \ {f}
  BY RemoveKept DEF RegistryOK, Known
<1>2. IndexOK(jx, Asset) /\ Range(jx.at) = Range(r.asset.at) \ {a}
  BY RemoveKept, Zenon DEF RegistryOK
<1> HIDE DEF ix, jx
<1>3. /\ DOMAIN q = {"feed", "asset", "mapping", "owner"}
      /\ q.feed = ix /\ q.asset = jx /\ q.mapping = Restrict(r.mapping, DOMAIN r.mapping \ {a})
      /\ q.owner = Restrict(r.owner, DOMAIN r.owner \ {f})
  BY DEF Cleared, RemoveFeedMapping, RegistryOK, ix, jx
<1> HIDE DEF q
<1>4. /\ DOMAIN q.owner = DOMAIN r.owner \ {f} /\ \A g \in DOMAIN q.owner : q.owner[g] = r.owner[g]
      /\ DOMAIN q.mapping = DOMAIN r.mapping \ {a}
      /\ \A b \in DOMAIN q.mapping : q.mapping[b] = r.mapping[b]
  BY <1>3, Zenon DEF Restrict
<1>5. \A b \in DOMAIN r.mapping : r.mapping[b] = f => b = a
  BY Zenon DEF RegistryOK, MappingOK
<1>6. r.owner[f] = a
  BY Zenon DEF RegistryOK, MappingOK
<1>7. MappingOK(q)
  <2>1. q.mapping = [b \in DOMAIN q.mapping |-> q.mapping[b]]
    BY <1>3 DEF Restrict
  <2>2. DOMAIN q.mapping = Range(q.asset.at)
    BY <1>2, <1>3, <1>4, ZenonT(30) DEF RegistryOK, MappingOK
  <2>3. \A b \in DOMAIN q.mapping : q.mapping[b] \in DOMAIN q.owner /\ q.owner[q.mapping[b]] = b
    BY <1>4, <1>5 DEF RegistryOK, MappingOK
  <2>4. \A g \in DOMAIN q.owner : q.owner[g] \in DOMAIN q.mapping /\ q.mapping[q.owner[g]] = g
    BY <1>4 DEF RegistryOK, MappingOK
  <2>5. DOMAIN q.owner \subseteq DOMAIN q.feed.index
    BY <1>1, <1>3, <1>4, Zenon DEF RegistryOK, MappingOK, IndexOK, Known
  <2> QED
    BY <2>1, <2>2, <2>3, <2>4, <2>5, Zenon DEF MappingOK
<1>8. RegistryOK(q)
  BY <1>1, <1>2, <1>3, <1>7, Zenon DEF RegistryOK
<1>9. q.mapping = WithoutFeed(r.mapping, f)
  <2>1. {b \in DOMAIN r.mapping : r.mapping[b] # f} = DOMAIN r.mapping \ {a}
    BY <1>5
  <2> QED
    BY <1>3, <2>1 DEF WithoutFeed
<1> QED
  BY <1>1, <1>3, <1>8, <1>9, Zenon DEF q, Known

\* The catalog sees only steps of the registry.
LEMMA RegistryStep ==
  ASSUME RegistryOK(reg), Next
  PROVE  /\ RegistryOK(reg')
         /\ Catalog!CatalogNext \/ UNCHANGED <<Known(reg), reg.mapping>>
<1> USE DEF Known
<1>1. CASE UNCHANGED reg
  BY <1>1
<1>2. ASSUME NEW f \in Feed, RegisterFeed(f) PROVE RegistryOK(reg') /\ Catalog!CatalogNext
  <2>1. reg' = EnsureKnownFeed(reg, f) /\ f \notin DOMAIN reg.feed.index
    BY <1>2 DEF RegisterFeed, KnownFeed
  <2>2. RegistryOK(reg') /\ Known(reg') = Known(reg) \cup {f} /\ reg'.mapping = reg.mapping
    BY <2>1, RegisterKept, Zenon
  <2>3. f \notin Known(reg)
    BY <2>1 DEF RegistryOK, IndexOK
  <2>4. Catalog!Register(f)
    BY <2>2, <2>3, Zenon DEF Catalog!Register, LoadAll
  <2> QED
    BY <2>2, <2>4 DEF Catalog!CatalogNext
<1>3. ASSUME NEW f \in Feed, NEW a \in Asset, AddFeed(f, a) PROVE RegistryOK(reg') /\ Catalog!CatalogNext
  <2>1. /\ a \notin DOMAIN reg.mapping /\ f \notin DOMAIN reg.owner
        /\ reg' = [EnsureKnownFeed(MapFeed(reg, a, f), f) EXCEPT !.asset = IndexInsert(@, a)]
    BY <1>3 DEF AddFeed
  <2>2. /\ RegistryOK(reg') /\ Known(reg') = Known(reg) \cup {f}
        /\ reg'.mapping = [b \in DOMAIN reg.mapping \cup {a} |-> IF b = a THEN f ELSE reg.mapping[b]]
    BY <2>1, AddKept
  <2>3. f \notin Range(reg.mapping)
    BY <2>1 DEF RegistryOK, MappingOK, Range
  <2>4. Catalog!Map(f, a)
    BY <2>1, <2>2, <2>3 DEF Catalog!Map, LoadAll, Range, Catalog!Range
  <2> QED
    BY <2>2, <2>4 DEF Catalog!CatalogNext
<1>4. ASSUME NEW f \in Feed, f \in Known(reg), RegistryOK(reg'), Known(reg') = Known(reg) \ {f},
             reg'.mapping = WithoutFeed(reg.mapping, f)
      PROVE  Catalog!CatalogNext
  <2>1. Catalog!Drop(f)
    BY <1>4, Zenon DEF Catalog!Drop, LoadAll, WithoutFeed, Restrict, Catalog!RestrictValues, Catalog!Restrict
  <2> QED
    BY <2>1, Zenon DEF Catalog!CatalogNext
<1>5. \A f \in DOMAIN reg.owner : f \in Known(reg) /\ f \in Feed
  BY DEF RegistryOK, MappingOK, IndexOK, Range
<1>6. ASSUME NEW a \in Asset, RemoveFeed(a) PROVE RegistryOK(reg') /\ Catalog!CatalogNext
  <2>1. PICK f : f = reg.mapping[a]
    OBVIOUS
  <2>2. a \in DOMAIN reg.mapping /\ reg' = Cleared(RemoveFeedMapping(reg, a), f)
    BY <1>6, <2>1, Zenon DEF RemoveFeed, ClearFeedState, Cleared
  <2>3. RegistryOK(reg') /\ Known(reg') = Known(reg) \ {f} /\ reg'.mapping = WithoutFeed(reg.mapping, f)
    BY <2>1, <2>2, DropKept, SMTT(30)
  <2>4. f \in DOMAIN reg.owner
    BY <2>1, <2>2 DEF RegistryOK, MappingOK
  <2> QED
    BY <2>3, <2>4, <1>4, <1>5, Zenon
<1>7. ASSUME NEW f \in Feed, PurgeFeed(f) PROVE RegistryOK(reg') /\ Catalog!CatalogNext
  <2>0. f \in Known(reg)
    BY <1>7 DEF PurgeFeed, KnownFeed, RegistryOK, IndexOK
  <2>1. CASE f \in DOMAIN reg.owner
    <3>1. PICK a : a = reg.owner[f]
      BY Zenon
    <3>2. a \in DOMAIN reg.mapping /\ reg.mapping[a] = f
      BY <2>1, <3>1 DEF RegistryOK, MappingOK
    <3>3. reg' = Cleared(RemoveFeedMapping(reg, a), f)
      BY <1>7, <2>1, <3>1, Zenon DEF PurgeFeed, ClearFeedState, Cleared
    <3>4. RegistryOK(reg') /\ Known(reg') = Known(reg) \ {f} /\ reg'.mapping = WithoutFeed(reg.mapping, f)
      BY <3>2, <3>3, DropKept, SMTT(30)
    <3> QED
      BY <3>4, <1>4, <2>0
  <2>2. CASE f \notin DOMAIN reg.owner
    <3>1. reg' = Cleared(reg, f)
      BY <1>7, <2>2, Zenon DEF PurgeFeed, ClearFeedState, Cleared
    <3>2. RegistryOK(reg') /\ Known(reg') = Known(reg) \ {f} /\ reg'.mapping = WithoutFeed(reg.mapping, f)
      BY <3>1, <2>2, PurgeKept, Zenon
    <3> QED
      BY <3>2, <1>4, <2>0
  <2> QED
    BY <2>1, <2>2, Zenon
<1>8. CASE RegistryNext
  BY <1>8, <1>2, <1>3, <1>6, <1>7, Zenon DEF RegistryNext
<1>9. CASE SignerNext
  BY <1>9, <1>1, ZenonT(30) DEF SignerNext, SubmitPrice, SubmitPrices, SubmitEntries
<1>10. CASE ConfigNext
  BY <1>10, <1>1, Zenon DEF ConfigNext, Configure, AddSigner, RemoveSigner, RemoveSignerTo, SetThreshold,
       SetMaxStaleSeconds, SetMaxSubmissionAgeSeconds, SetMaxRelativeSkewSeconds, SetResolution,
       SetMaxClusterSpreadBps, RecomputeFeeds
<1>11. CASE Tick
  BY <1>11, <1>1 DEF Tick
<1> QED
  BY <1>8, <1>9, <1>10, <1>11 DEF Next

RInv == RegistryOK(reg)

\* The registry starts empty.
LEMMA RegistryStart == Init => RInv /\ Catalog!CatalogInit
<1> SUFFICES ASSUME Init PROVE RInv /\ Catalog!CatalogInit
  BY Zenon
<1>1. reg = [feed |-> EmptyIndex, asset |-> EmptyIndex, mapping |-> <<>>, owner |-> <<>>]
  BY DEF Init
<1>2. IndexOK(EmptyIndex, Feed) /\ IndexOK(EmptyIndex, Asset) /\ Range(EmptyIndex.at) = {}
  BY DEF IndexOK, EmptyIndex, Range
<1> QED
  BY <1>1, <1>2 DEF RInv, RegistryOK, MappingOK, Catalog!CatalogInit, LoadAll

\* Every reachable registry is well formed: registering, naming, removing and
\* purging feeds keep the slots, the reverse index and the mapping in step.
LEMMA RegistryInductive == Spec => []RInv
<1>1. RInv /\ [Next]_vars => RInv'
  BY RegistryStep DEF vars, RInv
<1> QED
  BY <1>1, RegistryStart, PTL DEF Spec

\* The slots, indexes and mappings of the oracle implement the plain registry
\* of FeedCatalog, whatever the sets of feeds and assets and in whatever order
\* feeds are registered, named, removed and purged.
THEOREM RegistryImplementsCatalog == Spec => ImplementsCatalog
<1>1. RInv /\ [Next]_vars => [Catalog!CatalogNext]_<<LoadAll(reg.feed), reg.mapping>>
  BY RegistryStep DEF vars, LoadAll, Known, RInv
<1> QED
  BY <1>1, RegistryInductive, RegistryStart, PTL DEF Spec, ImplementsCatalog, Catalog!CatalogSpec

\* The reverse index and the slots agree, the two directions of the mapping
\* are inverse, and an asset only names a registered feed.
THEOREM RegistryStaysCoherent == Spec => []RegistryCoherent
<1>1. RInv => RegistryCoherent
  BY DEF RInv, RegistryOK, IndexOK, MappingOK, RegistryCoherent, Range
<1> QED
  BY <1>1, RegistryInductive, PTL
=============================================================================
