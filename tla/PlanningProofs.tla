---------------------------- MODULE PlanningProofs ----------------------------
(* Theorems about planning and profiling, for every manifest, ladder and     *)
(* number of failures. The first half is about the chunks a deployment's     *)
(* shards are cut into, the time of a wave and the lock; the second about    *)
(* the points of a profile: what an attempt knows of those on the Bucket,    *)
(* what it selects, and that it comes to all of them again.                  *)
EXTENDS ProfiledCampaign, FiniteSetTheorems, WellFoundedInduction, TLAPS

-----------------------------------------------------------------------------
(* Arithmetic.                                                             *)

(* What integer division means.                                            *)
LEMMA DivBounds ==
    ASSUME NEW a \in Nat, NEW k \in Nat \ {0}
    PROVE  a \div k \in Nat /\ k * (a \div k) <= a /\ a < k * (a \div k) + k
BY SMTT(20)

(* Products with a natural number grow with their factor.                  *)
LEMMA TimesMonotone ==
    ASSUME NEW a \in Nat, NEW b \in Nat, NEW k \in Nat, a <= b
    PROVE  k * a <= k * b
BY SMTT(20)

(* The quotient is the one number within the bounds.                       *)
LEMMA DivUnique ==
    ASSUME NEW a \in Nat, NEW k \in Nat \ {0}, NEW q \in Nat, k * q <= a, a < k * q + k
    PROVE  a \div k = q
<1> DEFINE p == a \div k
<1>1. p \in Nat /\ k * p <= a /\ a < k * p + k
  BY DivBounds
<1> HIDE DEF p
<1>2. CASE p < q
  <2>1. k * (p + 1) <= k * q
    BY <1>1, <1>2, TimesMonotone
  <2>2. k * (p + 1) = k * p + k
    BY <1>1
  <2> QED
    BY <1>1, <2>1, <2>2
<1>3. CASE q < p
  <2>1. k * (q + 1) <= k * p
    BY <1>1, <1>3, TimesMonotone
  <2>2. k * (q + 1) = k * q + k
    BY <1>1
  <2> QED
    BY <1>1, <2>1, <2>2
<1> QED
  BY <1>1, <1>2, <1>3 DEF p

(* A quotient grows with its dividend.                                     *)
LEMMA DivMonotone ==
    ASSUME NEW a \in Nat, NEW b \in Nat, NEW k \in Nat \ {0}, a <= b
    PROVE  a \div k <= b \div k
<1> DEFINE p == a \div k
           q == b \div k
<1>1. p \in Nat /\ k * p <= a /\ a < k * p + k /\ q \in Nat /\ k * q <= b /\ b < k * q + k
  BY DivBounds
<1> HIDE DEF p, q
<1>2. CASE q < p
  <2>1. k * (q + 1) <= k * p
    BY <1>1, <1>2, TimesMonotone
  <2>2. k * (q + 1) = k * q + k
    BY <1>1
  <2> QED
    BY <1>1, <2>1, <2>2
<1> QED
  BY <1>1, <1>2 DEF p, q

(* The numbers of a place.                                                 *)
LEMMA IntervalSize ==
    ASSUME NEW lo \in Nat, NEW k \in Nat \ {0}
    PROVE  IsFiniteSet(lo..(lo + k - 1)) /\ Cardinality(lo..(lo + k - 1)) = k
<1> DEFINE hi == lo + k - 1
<1>1. hi \in Int /\ lo \in Int /\ ~(lo > hi) /\ hi - lo + 1 = k
  OBVIOUS
<1> HIDE DEF hi
<1>2. IsFiniteSet(lo..hi) /\ Cardinality(lo..hi) = IF lo > hi THEN 0 ELSE hi - lo + 1
  BY <1>1, FS_Interval
<1>3. IsFiniteSet(lo..hi) /\ Cardinality(lo..hi) = k
  BY <1>1, <1>2
<1> QED
  BY <1>3 DEF hi

-----------------------------------------------------------------------------
(* Ranks in a finite, strictly ordered set.                                *)
StrictlyOrders(order, S) ==
    /\ \A a \in S : <<a, a>> \notin order
    /\ \A a, b \in S : a # b => <<a, b>> \in order \/ <<b, a>> \in order
    /\ \A a, b, c \in S : <<a, b>> \in order /\ <<b, c>> \in order => <<a, c>> \in order

(* An element's rank is below the number of elements.                      *)
LEMMA RankInRange ==
    ASSUME NEW S, IsFiniteSet(S), NEW order, StrictlyOrders(order, S), NEW s \in S
    PROVE  Rank(S, order, s) \in 0..(Cardinality(S) - 1)
<1> DEFINE P == {r \in S : <<r, s>> \in order}
<1>1. P \subseteq S \ {s}
  BY DEF StrictlyOrders
<1>2. IsFiniteSet(S \ {s}) /\ Cardinality(S \ {s}) = Cardinality(S) - 1
  BY FS_RemoveElement
<1>3. IsFiniteSet(P) /\ Cardinality(P) <= Cardinality(S \ {s})
  BY <1>1, <1>2, FS_Subset
<1>4. Cardinality(P) \in Nat /\ Cardinality(S) \in Nat
  BY <1>3, FS_CardinalityType
<1> QED
  BY <1>2, <1>3, <1>4 DEF Rank

(* What comes before has a smaller rank.                                   *)
LEMMA RankGrows ==
    ASSUME NEW S, IsFiniteSet(S), NEW order, StrictlyOrders(order, S), NEW a \in S, NEW b \in S,
           <<a, b>> \in order
    PROVE  Rank(S, order, a) < Rank(S, order, b)
<1> DEFINE P == {r \in S : <<r, a>> \in order}
           Q == {r \in S : <<r, b>> \in order}
<1>1. P \subseteq Q /\ a \in Q /\ a \notin P
  BY DEF StrictlyOrders
<1>2. IsFiniteSet(Q)
  BY FS_Subset
<1>3. IsFiniteSet(P) /\ Cardinality(P) <= Cardinality(Q) /\ (Cardinality(Q) = Cardinality(P) => Q = P)
  BY <1>1, <1>2, FS_Subset
<1>4. Cardinality(P) \in Nat /\ Cardinality(Q) \in Nat
  BY <1>2, <1>3, FS_CardinalityType
<1> QED
  BY <1>1, <1>3, <1>4 DEF Rank

(* Different elements have different ranks.                                *)
LEMMA RanksAreDistinct ==
    ASSUME NEW S, IsFiniteSet(S), NEW order, StrictlyOrders(order, S), NEW a \in S, NEW b \in S,
           Rank(S, order, a) = Rank(S, order, b)
    PROVE  a = b
<1>1. Rank(S, order, a) \in Int /\ Rank(S, order, b) \in Int
  BY RankInRange
<1>2. ASSUME a # b PROVE FALSE
  <2>1. <<a, b>> \in order \/ <<b, a>> \in order
    BY <1>2 DEF StrictlyOrders
  <2>2. Rank(S, order, a) < Rank(S, order, b) \/ Rank(S, order, b) < Rank(S, order, a)
    BY <2>1, RankGrows
  <2> QED
    BY <1>1, <2>2
<1> QED
  BY <1>2

(* Every rank below the number of elements is taken.                       *)
LEMMA RanksAreTaken ==
    ASSUME NEW S, IsFiniteSet(S), NEW order, StrictlyOrders(order, S),
           NEW i \in 0..(Cardinality(S) - 1)
    PROVE  \E s \in S : Rank(S, order, s) = i
<1> DEFINE n == Cardinality(S)
           f == [s \in S |-> Rank(S, order, s)]
<1>1. n \in Nat
  BY FS_CardinalityType
<1>2. IsFiniteSet(0..(n - 1)) /\ Cardinality(0..(n - 1)) = n
  BY <1>1, FS_Interval
<1>3. f \in [S -> 0..(n - 1)]
  BY RankInRange
<1>4. \A a, b \in S : f[a] = f[b] => a = b
  BY RanksAreDistinct
<1> HIDE DEF n
<1>5. f \in Injection(S, 0..(n - 1))
  <2> HIDE DEF f
  <2> QED
    BY <1>3, <1>4 DEF Injection, IsInjective
<1>6. f \in Surjection(S, 0..(n - 1))
  <2> HIDE DEF f
  <2> QED
    BY <1>2, <1>5, FS_Injection DEF n
<1>7. \E s \in S : f[s] = i
  <2> HIDE DEF f
  <2> QED
    BY <1>6 DEF Surjection, n
<1> QED
  BY <1>7
-----------------------------------------------------------------------------
(* Chunks.                                                                 *)
ChunkAt(S, order, i) == {s \in S : Place(S, order, s) = i}

(* A place is a natural number, and says which ranks share it.             *)
LEMMA PlaceBounds ==
    ASSUME spec.perWave \in Nat \ {0}, NEW S, IsFiniteSet(S), NEW order, StrictlyOrders(order, S),
           NEW s \in S
    PROVE  /\ Place(S, order, s) \in Nat
           /\ Rank(S, order, s) \in 0..(Cardinality(S) - 1)
           /\ spec.perWave * Place(S, order, s) <= Rank(S, order, s)
           /\ Rank(S, order, s) < spec.perWave * Place(S, order, s) + spec.perWave
<1>1. Rank(S, order, s) \in 0..(Cardinality(S) - 1)
  BY RankInRange
<1>2. Rank(S, order, s) \in Nat
  BY <1>1
<1> QED
  BY <1>1, <1>2, DivBounds DEF Place

(* A chunk is one place, is not empty and has at most perWave elements.    *)
LEMMA ChunksAreSmall ==
    ASSUME spec.perWave \in Nat \ {0}, NEW S, IsFiniteSet(S), NEW order, StrictlyOrders(order, S),
           NEW c \in Chunked(S, order)
    PROVE  /\ c # {} /\ c \subseteq S /\ IsFiniteSet(c)
           /\ Cardinality(c) \in 1..spec.perWave
           /\ \E t \in c : c = ChunkAt(S, order, Place(S, order, t))
<1>1. PICK t \in S : c = ChunkAt(S, order, Place(S, order, t))
  BY DEF Chunked, ChunkAt
<1> DEFINE k == spec.perWave
           i == Place(S, order, t)
           lo == k * i
           f == [s \in c |-> Rank(S, order, s)]
<1>2. t \in c /\ c \subseteq S
  BY <1>1 DEF ChunkAt
<1>3. IsFiniteSet(c)
  BY <1>2, FS_Subset
<1>4. k \in Nat \ {0} /\ i \in Nat /\ lo \in Nat
  BY PlaceBounds
<1>5. \A s \in c : Rank(S, order, s) \in lo..(lo + k - 1)
  <2> SUFFICES ASSUME NEW s \in c PROVE Rank(S, order, s) \in lo..(lo + k - 1)
    OBVIOUS
  <2>1. s \in S /\ Place(S, order, s) = i
    BY <1>1 DEF ChunkAt
  <2>2. /\ Rank(S, order, s) \in 0..(Cardinality(S) - 1)
        /\ lo <= Rank(S, order, s) /\ Rank(S, order, s) < lo + k
    BY <2>1, PlaceBounds
  <2> HIDE DEF lo, k, i
  <2> QED
    BY <1>4, <2>2
<1>6. IsFiniteSet(lo..(lo + k - 1)) /\ Cardinality(lo..(lo + k - 1)) = k
  <2> HIDE DEF lo, k
  <2> QED
    BY <1>4, IntervalSize
<1>7. f \in Injection(c, lo..(lo + k - 1))
  <2>1. f \in [c -> lo..(lo + k - 1)]
    BY <1>5
  <2>2. \A a, b \in c : f[a] = f[b] => a = b
    BY <1>2, RanksAreDistinct
  <2> HIDE DEF f, lo, k
  <2> QED
    BY <2>1, <2>2 DEF Injection, IsInjective
<1>8. Cardinality(c) <= k
  <2> HIDE DEF f, lo, k
  <2> QED
    BY <1>6, <1>7, FS_Injection
<1>9. Cardinality(c) \in Nat /\ Cardinality(c) # 0
  BY <1>2, <1>3, FS_CardinalityType, FS_EmptySet
<1> QED
  BY <1>1, <1>2, <1>3, <1>4, <1>8, <1>9

(* The ranks of a full place: as many elements as perWave.                 *)
LEMMA ChunksAreFull ==
    ASSUME spec.perWave \in Nat \ {0}, NEW S, IsFiniteSet(S), NEW order, StrictlyOrders(order, S),
           NEW i \in Nat, spec.perWave * i + spec.perWave <= Cardinality(S)
    PROVE  Cardinality(ChunkAt(S, order, i)) = spec.perWave
<1> DEFINE k == spec.perWave
           c == ChunkAt(S, order, i)
           lo == k * i
           f == [s \in c |-> Rank(S, order, s)]
<1>1. c \subseteq S /\ IsFiniteSet(c)
  BY FS_Subset DEF ChunkAt
<1>2. k \in Nat \ {0} /\ lo \in Nat /\ Cardinality(S) \in Nat /\ lo + k <= Cardinality(S)
  BY FS_CardinalityType
<1>3. \A s \in c : Rank(S, order, s) \in lo..(lo + k - 1)
  <2> SUFFICES ASSUME NEW s \in c PROVE Rank(S, order, s) \in lo..(lo + k - 1)
    OBVIOUS
  <2>1. s \in S /\ Place(S, order, s) = i
    BY DEF ChunkAt
  <2>2. /\ Rank(S, order, s) \in 0..(Cardinality(S) - 1)
        /\ lo <= Rank(S, order, s) /\ Rank(S, order, s) < lo + k
    BY <2>1, PlaceBounds
  <2> HIDE DEF lo, k
  <2> QED
    BY <1>2, <2>2
<1>4. IsFiniteSet(lo..(lo + k - 1)) /\ Cardinality(lo..(lo + k - 1)) = k
  <2> HIDE DEF lo, k
  <2> QED
    BY <1>2, IntervalSize
<1>5. f \in Injection(c, lo..(lo + k - 1))
  <2>1. f \in [c -> lo..(lo + k - 1)]
    BY <1>3
  <2>2. \A a, b \in c : f[a] = f[b] => a = b
    BY <1>1, RanksAreDistinct
  <2> HIDE DEF f, lo, k, c
  <2> QED
    BY <2>1, <2>2 DEF Injection, IsInjective
<1>6. f \in Surjection(c, lo..(lo + k - 1))
  <2>1. f \in [c -> lo..(lo + k - 1)]
    BY <1>3
  <2>2. ASSUME NEW r \in lo..(lo + k - 1) PROVE \E s \in c : f[s] = r
    <3>1. r \in 0..(Cardinality(S) - 1) /\ r \in Nat /\ lo <= r /\ r < lo + k
      <4> HIDE DEF lo, k
      <4> QED
        BY <1>2, <2>2
    <3>2. PICK s \in S : Rank(S, order, s) = r
      BY <3>1, RanksAreTaken
    <3>3. Place(S, order, s) = i
      BY <1>2, <3>1, <3>2, DivUnique DEF Place
    <3>4. s \in c
      BY <3>3 DEF ChunkAt
    <3> QED
      BY <3>2, <3>4
  <2> HIDE DEF f, lo, k, c
  <2> QED
    BY <2>1, <2>2 DEF Surjection
<1>7. Cardinality(c) = k
  <2> HIDE DEF f, lo, k, c
  <2> QED
    BY <1>4, <1>5, <1>6, FS_Injection
<1> QED
  BY <1>7

(* Taking a chunk away leaves the others as they are.                      *)
LEMMA ChunksStay ==
    ASSUME spec.perWave \in Nat \ {0}, NEW S, IsFiniteSet(S), NEW order, StrictlyOrders(order, S),
           NEW c \in Chunked(S, order)
    PROVE  Chunked(S \ c, order) \subseteq Chunked(S, order)
<1> DEFINE k == spec.perWave
           P(s) == Place(S, order, s)
           N(s) == Place(S \ c, order, s)
<1>1. PICK t \in c : c = ChunkAt(S, order, P(t)) /\ t \in S /\ c \subseteq S /\ IsFiniteSet(c)
  BY ChunksAreSmall
<1> DEFINE i == P(t)
<1>2. i \in Nat /\ k \in Nat \ {0} /\ Cardinality(S) \in Nat
  <2>1. t \in S
    BY <1>1
  <2>2. Place(S, order, t) \in Nat
    BY <2>1, PlaceBounds
  <2> QED
    BY <2>2, FS_CardinalityType
<1>3. ASSUME NEW s \in S \ c, P(s) < i PROVE N(s) = P(s)
  <2>1. \A r \in c : <<r, s>> \notin order
    <3> SUFFICES ASSUME NEW r \in c, <<r, s>> \in order PROVE FALSE
      OBVIOUS
    <3>1. r \in S /\ P(r) = i
      BY <1>1 DEF ChunkAt
    <3>2. Rank(S, order, r) < Rank(S, order, s)
      BY <3>1, RankGrows
    <3>3. Rank(S, order, r) \in Nat /\ Rank(S, order, s) \in Nat
      BY <3>1, RankInRange
    <3>4. P(r) <= P(s)
      BY <3>2, <3>3, DivMonotone DEF Place
    <3>5. P(s) \in Nat
      BY PlaceBounds
    <3> QED
      BY <1>2, <1>3, <3>1, <3>4, <3>5
  <2>2. {r \in S \ c : <<r, s>> \in order} = {r \in S : <<r, s>> \in order}
    BY <2>1
  <2> QED
    BY <2>2 DEF Place, Rank
<1>4. ASSUME NEW s \in S \ c, i < P(s) PROVE N(s) = P(s) - 1
  <2> DEFINE A == {r \in S : <<r, s>> \in order}
             B == {r \in S \ c : <<r, s>> \in order}
  <2>1. P(s) \in Nat /\ Rank(S, order, s) \in 0..(Cardinality(S) - 1)
        /\ k * P(s) <= Rank(S, order, s) /\ Rank(S, order, s) < k * P(s) + k
    BY PlaceBounds
  <2>2. k * i + k <= k * P(s)
    <3>1. k * (i + 1) <= k * P(s)
      BY <1>2, <1>4, <2>1, TimesMonotone
    <3>2. k * (i + 1) = k * i + k
      BY <1>2
    <3> QED
      BY <3>1, <3>2
  <2>3. k * i \in Nat /\ k * P(s) \in Nat
    BY <1>2, <2>1
  <2>4. k * i + k <= Cardinality(S)
    BY <1>2, <2>1, <2>2, <2>3
  <2>5. Cardinality(c) = k
    BY <1>1, <1>2, <2>4, ChunksAreFull
  <2>6. c \subseteq A
    <3> SUFFICES ASSUME NEW r \in c PROVE <<r, s>> \in order
      BY <1>1
    <3>1. r \in S /\ P(r) = i
      BY <1>1 DEF ChunkAt
    <3>2. r # s
      BY <1>4
    <3>3. ASSUME <<s, r>> \in order PROVE FALSE
      <4>1. Rank(S, order, s) < Rank(S, order, r)
        BY <3>1, <3>3, RankGrows
      <4>2. Rank(S, order, r) \in Nat /\ Rank(S, order, s) \in Nat
        BY <3>1, RankInRange
      <4>3. P(s) <= P(r)
        BY <4>1, <4>2, DivMonotone DEF Place
      <4> QED
        BY <1>2, <1>4, <2>1, <3>1, <4>3
    <3> QED
      BY <3>1, <3>2, <3>3 DEF StrictlyOrders
  <2>7. B = A \ c /\ A \cap c = c
    BY <2>6
  <2>8. IsFiniteSet(A) /\ Cardinality(A) \in Nat
    BY FS_Subset, FS_CardinalityType
  <2>9. Cardinality(B) = Cardinality(A) - k
    <3> HIDE DEF A, B
    <3>1. Cardinality(A \ c) = Cardinality(A) - Cardinality(A \cap c)
      BY <2>8, FS_Difference
    <3> QED
      BY <2>5, <2>7, <3>1
  <2>10. Rank(S, order, s) = Cardinality(A) /\ Rank(S \ c, order, s) = Cardinality(B)
    BY DEF Rank
  <2> HIDE DEF A, B
  <2>11. k * (P(s) - 1) = k * P(s) - k /\ P(s) - 1 \in Nat
    BY <1>2, <1>4, <2>1
  <2>12. /\ Cardinality(B) \in Nat
         /\ k * (P(s) - 1) <= Cardinality(B) /\ Cardinality(B) < k * (P(s) - 1) + k
    BY <1>2, <2>1, <2>2, <2>3, <2>8, <2>9, <2>10, <2>11
  <2>13. Cardinality(B) \div k = P(s) - 1
    BY <1>2, <2>11, <2>12, DivUnique
  <2> QED
    BY <2>10, <2>13 DEF Place
<1>5. ASSUME NEW s \in S \ c PROVE P(s) \in Nat /\ P(s) # i
  BY <1>1, PlaceBounds DEF ChunkAt
<1>6. ASSUME NEW u \in S \ c
      PROVE  {s \in S \ c : N(s) = N(u)} = {s \in S : P(s) = P(u)}
  <2>1. ASSUME NEW s \in S \ c PROVE N(s) = N(u) <=> P(s) = P(u)
    <3>1. P(s) \in Nat /\ P(s) # i /\ P(u) \in Nat /\ P(u) # i
      BY <1>5
    <3> HIDE DEF N, P, i
    <3>2. N(s) = IF P(s) < i THEN P(s) ELSE P(s) - 1
      BY <1>2, <1>3, <1>4, <3>1
    <3>3. N(u) = IF P(u) < i THEN P(u) ELSE P(u) - 1
      BY <1>2, <1>3, <1>4, <3>1
    <3> QED
      BY <1>2, <3>1, <3>2, <3>3
  <2>2. \A s \in c : P(s) # P(u)
    BY <1>1, <1>5 DEF ChunkAt
  <2> HIDE DEF N, P
  <2> QED
    BY <2>1, <2>2
<1>7. ASSUME NEW d \in Chunked(S \ c, order) PROVE d \in Chunked(S, order)
  <2>1. PICK u \in S \ c : d = {s \in S \ c : N(s) = N(u)}
    BY DEF Chunked
  <2>2. d = {s \in S : P(s) = P(u)}
    BY <1>6, <2>1
  <2> QED
    BY <2>1, <2>2 DEF Chunked
<1> QED
  BY <1>7
-----------------------------------------------------------------------------
(* Sums.                                                                   *)

(* A set of natural numbers has a smallest element.                        *)
LEMMA SmallestNumber ==
    ASSUME NEW S, S \subseteq Nat, S # {}
    PROVE  \E n \in S : \A m \in S : n <= m
<1> DEFINE R == OpToRel(<, Nat)
<1>1. IsWellFoundedOn(R, Nat)
  BY NatLessThanWellFounded
<1>2. \A x, y \in Nat : x < y => <<x, y>> \in R
  BY DEF OpToRel
<1> HIDE DEF R
<1>3. PICK x \in S : \A y \in S : ~ (<<y, x>> \in R)
  BY <1>1, WFMin
<1>4. ASSUME NEW y \in S PROVE x <= y
  <2>1. x \in Nat /\ y \in Nat
    OBVIOUS
  <2>2. ~ (y < x)
    BY <1>2, <1>3, <2>1
  <2> QED
    BY <2>1, <2>2
<1> QED
  BY <1>4

Adds(F, f, s) ==
    F[s] = IF s = {} THEN 0 ELSE f[CHOOSE x \in s : TRUE] + F[s \ {CHOOSE x \in s : TRUE}]

(* The sums over the subsets of a finite set exist.                        *)
LEMMA SumsExist ==
    ASSUME NEW S, IsFiniteSet(S), NEW f, \A x \in S : f[x] \in Nat
    PROVE  \E F \in [SUBSET S -> Nat] : \A s \in SUBSET S : Adds(F, f, s)
<1> DEFINE Sub(n) == {s \in SUBSET S : Cardinality(s) <= n}
           Ok(n) == \E F \in [Sub(n) -> Nat] : \A s \in Sub(n) : Adds(F, f, s)
           Bad == {n \in Nat : ~ Ok(n)}
<1>1. \A s \in SUBSET S : IsFiniteSet(s) /\ Cardinality(s) \in Nat /\ Cardinality(s) <= Cardinality(S)
  BY FS_Subset, FS_CardinalityType
<1>2. Cardinality(S) \in Nat
  BY FS_CardinalityType
<1>3. Ok(0)
  <2>1. \A s \in Sub(0) : s = {}
    BY <1>1, FS_EmptySet
  <2> DEFINE F == [s \in Sub(0) |-> 0]
  <2>2. F \in [Sub(0) -> Nat]
    OBVIOUS
  <2>3. \A s \in Sub(0) : Adds(F, f, s)
    BY <2>1 DEF Adds
  <2> QED
    BY <2>2, <2>3
<1>4. ASSUME NEW n \in Nat, Ok(n) PROVE Ok(n + 1)
  <2>1. PICK F \in [Sub(n) -> Nat] : \A s \in Sub(n) : Adds(F, f, s)
    BY <1>4
  <2> DEFINE c(s) == CHOOSE x \in s : TRUE
             G == [s \in Sub(n + 1) |-> IF s = {} THEN 0 ELSE f[c(s)] + F[s \ {c(s)}]]
  <2>2. ASSUME NEW s \in Sub(n + 1), s # {} PROVE c(s) \in s /\ s \ {c(s)} \in Sub(n)
    <3>1. c(s) \in s
      BY <2>2
    <3> HIDE DEF c
    <3>2. Cardinality(s \ {c(s)}) = Cardinality(s) - 1
      BY <1>1, <3>1, FS_RemoveElement
    <3>3. s \ {c(s)} \in SUBSET S /\ Cardinality(s) \in Nat /\ Cardinality(s) <= n + 1
      BY <1>1
    <3> QED
      BY <3>1, <3>2, <3>3
  <2>3. Sub(n) \subseteq Sub(n + 1)
    BY <1>1
  <2> HIDE DEF Sub, c
  <2>4. G \in [Sub(n + 1) -> Nat]
    <3>1. ASSUME NEW s \in Sub(n + 1), s # {} PROVE f[c(s)] + F[s \ {c(s)}] \in Nat
      <4>1. c(s) \in s /\ F[s \ {c(s)}] \in Nat
        BY <2>1, <2>2, <3>1
      <4>2. f[c(s)] \in Nat
        BY <4>1 DEF Sub
      <4> QED
        BY <4>1, <4>2
    <3> QED
      BY <3>1
  <2>5. \A s \in Sub(n) : G[s] = F[s]
    BY <2>1, <2>3 DEF Adds, c
  <2>6. ASSUME NEW s \in Sub(n + 1) PROVE Adds(G, f, s)
    <3>1. G[s] = IF s = {} THEN 0 ELSE f[c(s)] + F[s \ {c(s)}]
      OBVIOUS
    <3>2. s # {} => F[s \ {c(s)}] = G[s \ {c(s)}]
      BY <2>2, <2>5
    <3> HIDE DEF G
    <3> QED
      BY <3>1, <3>2 DEF Adds, c
  <2> QED
    BY <2>4, <2>6
<1>5. Ok(Cardinality(S))
  <2> SUFFICES ASSUME ~ Ok(Cardinality(S)) PROVE FALSE
    OBVIOUS
  <2>1. Bad # {} /\ Bad \subseteq Nat
    BY <1>2
  <2>2. PICK b \in Bad : \A m \in Bad : b <= m
    <3> HIDE DEF Bad
    <3> QED
      BY <2>1, SmallestNumber
  <2>3. b \in Nat /\ ~ Ok(b)
    OBVIOUS
  <2> HIDE DEF Ok
  <2>4. b # 0
    BY <1>3, <2>3
  <2>5. b - 1 \in Nat /\ ~ (b <= b - 1) /\ (b - 1) + 1 = b
    BY <2>3, <2>4
  <2>6. Ok(b - 1)
    BY <2>2, <2>5
  <2>7. Ok((b - 1) + 1)
    BY <1>4, <2>5, <2>6
  <2> QED
    BY <2>3, <2>5, <2>7
<1>6. Sub(Cardinality(S)) = SUBSET S
  BY <1>1
<1> QED
  BY <1>5, <1>6

(* The library's sum over a finite set adds its elements one by one.       *)
LEMMA SumAdds ==
    ASSUME NEW S, IsFiniteSet(S), NEW f, \A x \in S : f[x] \in Nat
    PROVE  \E F : /\ \A s \in SUBSET S : Adds(F, f, s)
                  /\ SumFunctionOnSet(f, S) = F[S]
<1> DEFINE Body(g) == [s \in SUBSET S |->
                          IF s = {} THEN 0
                          ELSE f[CHOOSE x \in s : TRUE] + g[s \ {CHOOSE x \in s : TRUE}]]
           F == CHOOSE g : g = Body(g)
<1>1. PICK g \in [SUBSET S -> Nat] : \A s \in SUBSET S : Adds(g, f, s)
  BY SumsExist
<1>2. g = Body(g)
  BY <1>1 DEF Adds
<1>3. F = Body(F)
  BY <1>2
<1>4. SumFunctionOnSet(f, S) = F[S]
  BY DEF SumFunctionOnSet, FoldFunctionOnSet, MapThenFoldSet
<1> HIDE DEF F
<1>5. \A s \in SUBSET S : Adds(F, f, s)
  BY <1>3 DEF Adds
<1> QED
  BY <1>4, <1>5

(* A set of numbers that holds 0, and n + 1 with n, holds every number.    *)
LEMMA Climbs ==
    ASSUME NEW T, 0 \in T, \A n \in Nat : n \in T => n + 1 \in T
    PROVE  Nat \subseteq T
<1> DEFINE Bad == Nat \ T
<1> SUFFICES ASSUME Bad # {} PROVE FALSE
  OBVIOUS
<1>1. PICK b \in Bad : \A m \in Bad : b <= m
  BY SmallestNumber
<1>2. b # 0 /\ b - 1 \in Nat /\ ~ (b <= b - 1) /\ (b - 1) + 1 = b
  OBVIOUS
<1> QED
  BY <1>1, <1>2

(* A sum of natural numbers is one.                                        *)
LEMMA SumIsNatural ==
    ASSUME NEW S, IsFiniteSet(S), NEW f, \A x \in S : f[x] \in Nat
    PROVE  SumFunctionOnSet(f, S) \in Nat
<1>1. PICK F : (\A s \in SUBSET S : Adds(F, f, s)) /\ SumFunctionOnSet(f, S) = F[S]
  BY SumAdds
<1> DEFINE T == {n \in Nat : \A s \in SUBSET S : Cardinality(s) = n => F[s] \in Nat}
<1>2. \A s \in SUBSET S : IsFiniteSet(s) /\ Cardinality(s) \in Nat
  BY FS_Subset, FS_CardinalityType
<1>3. 0 \in T
  BY <1>1, <1>2, FS_EmptySet DEF Adds
<1>4. ASSUME NEW n \in Nat, n \in T PROVE n + 1 \in T
  <2> SUFFICES ASSUME NEW s \in SUBSET S, Cardinality(s) = n + 1 PROVE F[s] \in Nat
    OBVIOUS
  <2> DEFINE x == CHOOSE x \in s : TRUE
  <2>1. s # {}
    BY FS_EmptySet
  <2>2. x \in s
    BY <2>1
  <2>3. F[s] = f[x] + F[s \ {x}]
    BY <1>1, <2>1 DEF Adds
  <2> HIDE DEF x
  <2>4. s \ {x} \in SUBSET S /\ Cardinality(s \ {x}) = n
    <3>1. IsFiniteSet(s)
      BY <1>2
    <3>2. Cardinality(s \ {x}) = Cardinality(s) - 1
      BY <2>2, <3>1, FS_RemoveElement
    <3> QED
      BY <3>2
  <2>5. F[s \ {x}] \in Nat /\ f[x] \in Nat
    BY <1>4, <2>2, <2>4
  <2> QED
    BY <2>3, <2>5
<1>5. Nat \subseteq T
  <2> HIDE DEF T
  <2> QED
    BY <1>3, <1>4, Climbs
<1> QED
  BY <1>1, <1>2, <1>5

(* The elements of A count l, and the others z.                            *)
TwoValued(f, S, A, z, l) ==
    z \in Nat /\ l \in Nat /\ (\A x \in S \cap A : f[x] = l) /\ (\A x \in S \ A : f[x] = z)

(* Then the sum is that of two products.                                   *)
LEMMA SumOfTwoValues ==
    ASSUME NEW S, IsFiniteSet(S), NEW f, NEW A, NEW z, NEW l, TwoValued(f, S, A, z, l)
    PROVE  SumFunctionOnSet(f, S) = Cardinality(S \ A) * z + Cardinality(S \cap A) * l
<1>0. z \in Nat /\ l \in Nat /\ \A x \in S : f[x] = IF x \in A THEN l ELSE z
  BY DEF TwoValued
<1>1. PICK F : (\A s \in SUBSET S : Adds(F, f, s)) /\ SumFunctionOnSet(f, S) = F[S]
  BY <1>0, SumAdds
<1> DEFINE Value(s) == Cardinality(s \ A) * z + Cardinality(s \cap A) * l
           T == {i \in Nat : \A s \in SUBSET S : Cardinality(s) = i => F[s] = Value(s)}
<1>2. \A s \in SUBSET S : IsFiniteSet(s) /\ Cardinality(s) \in Nat
  BY FS_Subset, FS_CardinalityType
<1>3. 0 \in T
  <2> SUFFICES ASSUME NEW s \in SUBSET S, Cardinality(s) = 0 PROVE F[s] = Value(s)
    OBVIOUS
  <2>1. s = {} /\ s \ A = {} /\ s \cap A = {}
    BY <1>2, FS_EmptySet
  <2>2. F[s] = 0
    BY <1>1, <2>1 DEF Adds
  <2>3. Cardinality(s \ A) = 0 /\ Cardinality(s \cap A) = 0
    BY <2>1, FS_EmptySet
  <2> QED
    BY <1>0, <2>2, <2>3
<1>4. ASSUME NEW i \in Nat, i \in T PROVE i + 1 \in T
  <2> SUFFICES ASSUME NEW s \in SUBSET S, Cardinality(s) = i + 1 PROVE F[s] = Value(s)
    OBVIOUS
  <2> DEFINE x == CHOOSE x \in s : TRUE
  <2>1. s # {}
    BY FS_EmptySet
  <2>2. x \in s
    BY <2>1
  <2>3. F[s] = f[x] + F[s \ {x}]
    BY <1>1, <2>1 DEF Adds
  <2> HIDE DEF x
  <2> DEFINE r == s \ {x}
  <2>4. r \in SUBSET S /\ Cardinality(r) = i
    <3>1. IsFiniteSet(s)
      BY <1>2
    <3>2. Cardinality(s \ {x}) = Cardinality(s) - 1
      BY <2>2, <3>1, FS_RemoveElement
    <3> QED
      BY <3>2
  <2>5. F[r] = Value(r) /\ f[x] = IF x \in A THEN l ELSE z
    BY <1>0, <1>4, <2>2, <2>4
  <2>6. s \ A \in SUBSET S /\ s \cap A \in SUBSET S /\ r \ A \in SUBSET S /\ r \cap A \in SUBSET S
    OBVIOUS
  <2> DEFINE p == Cardinality(r \ A)
             q == Cardinality(r \cap A)
  <2>7. p \in Nat /\ q \in Nat
    BY <1>2, <2>6
  <2>8. CASE x \in A
    <3>1. s \ A = r \ A /\ r \cap A = (s \cap A) \ {x} /\ x \in s \cap A
      BY <2>2, <2>8
    <3>2. q = Cardinality(s \cap A) - 1
      <4>1. IsFiniteSet(s \cap A)
        BY <1>2, <2>6
      <4>2. Cardinality((s \cap A) \ {x}) = Cardinality(s \cap A) - 1
        BY <3>1, <4>1, FS_RemoveElement
      <4> QED
        BY <3>1, <4>2
    <3>3. Cardinality(s \ A) = p /\ Cardinality(s \cap A) \in Nat
      BY <1>2, <2>6, <3>1
    <3>4. Cardinality(s \cap A) = q + 1
      BY <2>7, <3>2, <3>3
    <3>5. F[s] = l + (p * z + q * l)
      BY <2>3, <2>5, <2>8
    <3> HIDE DEF p, q
    <3>6. l + (p * z + q * l) = p * z + (q + 1) * l
      BY <1>0, <2>7
    <3> QED
      BY <3>3, <3>4, <3>5, <3>6
  <2>9. CASE x \notin A
    <3>1. s \cap A = r \cap A /\ r \ A = (s \ A) \ {x} /\ x \in s \ A
      BY <2>2, <2>9
    <3>2. p = Cardinality(s \ A) - 1
      <4>1. IsFiniteSet(s \ A)
        BY <1>2, <2>6
      <4>2. Cardinality((s \ A) \ {x}) = Cardinality(s \ A) - 1
        BY <3>1, <4>1, FS_RemoveElement
      <4> QED
        BY <3>1, <4>2
    <3>3. Cardinality(s \cap A) = q /\ Cardinality(s \ A) \in Nat
      BY <1>2, <2>6, <3>1
    <3>4. Cardinality(s \ A) = p + 1
      BY <2>7, <3>2, <3>3
    <3>5. F[s] = z + (p * z + q * l)
      BY <2>3, <2>5, <2>9
    <3> HIDE DEF p, q
    <3>6. z + (p * z + q * l) = (p + 1) * z + q * l
      BY <1>0, <2>7
    <3> QED
      BY <3>3, <3>4, <3>5, <3>6
  <2> QED
    BY <2>8, <2>9
<1>5. Nat \subseteq T
  <2> HIDE DEF T
  <2> QED
    BY <1>3, <1>4, Climbs
<1>6. Cardinality(S) \in T /\ S \in SUBSET S
  BY <1>2, <1>5
<1> QED
  BY <1>1, <1>6

(* The smallest number of a set.                                           *)
LEMMA MinIsSmallest ==
    ASSUME NEW S, S \subseteq Nat, S # {}
    PROVE  Min(S) \in S /\ \A m \in S : Min(S) <= m
BY SmallestNumber DEF Min

(* The largest number of a finite set.                                     *)
LEMMA MaxIsLargest ==
    ASSUME NEW S, S \subseteq Nat, S # {}, IsFiniteSet(S)
    PROVE  Max(S) \in S /\ \A m \in S : m <= Max(S)
<1> DEFINE T == {n \in Nat : \A s \in SUBSET S : Cardinality(s) = n => \E b \in Nat : \A m \in s : m <= b}
           U == {b \in Nat : \A m \in S : m <= b}
<1>1. \A s \in SUBSET S : IsFiniteSet(s) /\ Cardinality(s) \in Nat
  BY FS_Subset, FS_CardinalityType
<1>2. 0 \in T
  BY <1>1, FS_EmptySet
<1>3. ASSUME NEW n \in Nat, n \in T PROVE n + 1 \in T
  <2>1. ASSUME NEW s \in SUBSET S, Cardinality(s) = n + 1
        PROVE  \E b \in Nat : \A m \in s : m <= b
    <3>1. s # {} /\ IsFiniteSet(s)
      BY <1>1, <2>1, FS_EmptySet
    <3>2. PICK x \in s : TRUE
      BY <3>1
    <3>3. Cardinality(s \ {x}) = Cardinality(s) - 1
      BY <3>1, FS_RemoveElement
    <3>4. s \ {x} \in SUBSET S /\ Cardinality(s \ {x}) = n
      BY <2>1, <3>3
    <3>5. PICK b \in Nat : \A m \in s \ {x} : m <= b
      BY <1>3, <3>4
    <3>6. x \in Nat /\ \A m \in s : m \in Nat
      OBVIOUS
    <3>7. CASE x <= b
      BY <3>5, <3>7
    <3>8. CASE ~(x <= b)
      <4>1. \A m \in s : m <= x
        BY <3>5, <3>6, <3>8
      <4> QED
        BY <3>6, <4>1
    <3> QED
      BY <3>7, <3>8
  <2>2. n + 1 \in Nat
    OBVIOUS
  <2> QED
    BY <2>1, <2>2, Zenon
<1>4. Nat \subseteq T
  <2> HIDE DEF T
  <2> QED
    BY <1>2, <1>3, Climbs
<1>5. U # {} /\ U \subseteq Nat
  BY <1>1, <1>4
<1>6. PICK b \in U : \A c \in U : b <= c
  <2> HIDE DEF U
  <2> QED
    BY <1>5, SmallestNumber
<1>7. b \in S
  <2> SUFFICES ASSUME b \notin S PROVE FALSE
    OBVIOUS
  <2>1. PICK x \in S : TRUE
    OBVIOUS
  <2>2. \A m \in S : m \in Nat /\ m <= b /\ m # b
    BY <1>6
  <2>3. b \in Nat /\ b # 0 /\ b - 1 \in Nat /\ ~(b <= b - 1)
    BY <1>6, <2>1, <2>2
  <2>4. \A m \in S : m <= b - 1
    BY <2>2, <2>3
  <2>5. b - 1 \in U
    BY <2>3, <2>4
  <2> QED
    BY <1>6, <2>3, <2>5
<1>8. \A m \in S : b >= m
  BY <1>6
<1>9. \E x \in S : \A y \in S : x >= y
  BY <1>7, <1>8
<1>10. Max(S) \in S /\ \A y \in S : Max(S) >= y
  BY <1>9 DEF Max
<1> QED
  BY <1>10

-----------------------------------------------------------------------------
(* Shards and their trials.                                                *)
Short == {s \in Shards : s[2] = ShardCount}
LastSize == TrialCount - (ShardCount - 1) * spec.shardSize

(* A manifest with tasks has trials, and its last shard is not empty.      *)
LEMMA ShardsFit ==
    ASSUME IsManifest(spec), spec.tasks # {}
    PROVE  /\ TrialCount \in Nat \ {0} /\ ShardCount \in Nat \ {0}
           /\ LastSize \in 1..spec.shardSize
<1> DEFINE n == TrialCount
           z == spec.shardSize
           q == ShardCount
<1>1. Cardinality(spec.tasks) \in Nat \ {0}
  BY FS_CardinalityType, FS_EmptySet DEF IsManifest
<1>2. spec.attempts \in Nat \ {0} /\ z \in Nat \ {0}
  BY DEF IsManifest
<1>3. n \in Nat \ {0}
  BY <1>1, <1>2 DEF TrialCount
<1> HIDE DEF n
<1>4. q = (n + z - 1) \div z
  BY DEF ShardCount, CeilDiv, n
<1>5. n + z - 1 \in Nat
  BY <1>2, <1>3
<1> HIDE DEF z, q
<1>6. q \in Nat /\ z * q <= n + z - 1 /\ n + z - 1 < z * q + z
  BY <1>2, <1>4, <1>5, DivBounds
<1>7. q # 0
  BY <1>2, <1>3, <1>6
<1>8. (q - 1) * z = z * q - z /\ z * q \in Nat
  BY <1>2, <1>6
<1>9. n - (q - 1) * z \in 1..z
  BY <1>2, <1>3, <1>6, <1>8
<1> QED
  BY <1>3, <1>6, <1>7, <1>9 DEF LastSize, n, z, q

(* The shards are finitely many pairs of a run and a number.               *)
LEMMA ShardsAreFinite ==
    ASSUME IsManifest(spec), spec.tasks # {}
    PROVE  /\ IsFiniteSet(Shards) /\ Len(spec.cells) \in Nat
           /\ IsFiniteSet(Runs) /\ IsFiniteSet(1..ShardCount) /\ Cardinality(1..ShardCount) = ShardCount
           /\ \A s \in Shards : s[1] \in Runs /\ s[2] \in 1..ShardCount /\ s = <<s[1], s[2]>>
<1>1. ShardCount \in Nat \ {0} /\ Len(spec.cells) \in Nat
  BY ShardsFit DEF IsManifest
<1>2. IsFiniteSet(Runs)
  BY <1>1, FS_Interval DEF Runs
<1>3. IsFiniteSet(1..ShardCount) /\ Cardinality(1..ShardCount) = ShardCount
  BY <1>1, FS_Interval
<1>4. IsFiniteSet(Shards)
  BY <1>2, <1>3, FS_Product DEF Shards
<1> QED
  BY <1>1, <1>2, <1>3, <1>4 DEF Shards

(* The trials of some shards, from the number of full and of last ones.    *)
LEMMA TrialsOfShards ==
    ASSUME IsManifest(spec), spec.tasks # {}, NEW S, S \subseteq Shards
    PROVE  /\ IsFiniteSet(S) /\ IsFiniteSet(S \ Short) /\ IsFiniteSet(S \cap Short)
           /\ Cardinality(S \ Short) \in Nat /\ Cardinality(S \cap Short) \in Nat
           /\ Cardinality(S) = Cardinality(S \ Short) + Cardinality(S \cap Short)
           /\ Trials(S) = Cardinality(S \ Short) * spec.shardSize
                             + Cardinality(S \cap Short) * LastSize
<1> DEFINE f == [s \in Shards |-> ShardSize(s)]
<1>1. IsFiniteSet(S) /\ IsFiniteSet(S \ Short) /\ IsFiniteSet(S \cap Short)
  <2>1. IsFiniteSet(S)
    BY ShardsAreFinite, FS_Subset
  <2> QED
    BY <2>1, FS_Subset
<1>2. Cardinality(S \ Short) \in Nat /\ Cardinality(S \cap Short) \in Nat /\ Cardinality(S) \in Nat
  BY <1>1, FS_CardinalityType
<1>3. Cardinality(S \ Short) = Cardinality(S) - Cardinality(S \cap Short)
  BY <1>1, FS_Difference
<1>4. spec.shardSize \in Nat /\ LastSize \in Nat
  <2>1. spec.shardSize \in Nat \ {0}
    BY DEF IsManifest
  <2> QED
    BY <2>1, ShardsFit
<1>5. \A s \in S : f[s] = IF s \in Short THEN LastSize ELSE spec.shardSize
  <2> SUFFICES ASSUME NEW s \in S PROVE f[s] = IF s \in Short THEN LastSize ELSE spec.shardSize
    OBVIOUS
  <2>1. s \in Shards /\ s[2] \in 1..ShardCount /\ ShardCount \in Nat
    BY ShardsAreFinite, ShardsFit
  <2>2. f[s] = ShardSize(s)
    BY <2>1
  <2>3. s[2] < ShardCount <=> s \notin Short
    BY <2>1 DEF Short
  <2> QED
    BY <2>2, <2>3 DEF ShardSize, LastSize
<1> HIDE DEF f
<1>6. SumFunctionOnSet(f, S) = Cardinality(S \ Short) * spec.shardSize
                             + Cardinality(S \cap Short) * LastSize
  <2>1. TwoValued(f, S, Short, spec.shardSize, LastSize)
    BY <1>4, <1>5 DEF TwoValued
  <2> QED
    BY <1>1, <2>1, SumOfTwoValues
<1> QED
  BY <1>1, <1>2, <1>3, <1>6 DEF Trials, f

(* Every shard has a trial, and none more than the shard size.             *)
LEMMA TrialsAreBounded ==
    ASSUME IsManifest(spec), spec.tasks # {}, NEW S, S \subseteq Shards
    PROVE  /\ Cardinality(S) \in Nat /\ Trials(S) \in Nat
           /\ Cardinality(S) <= Trials(S) /\ Trials(S) <= Cardinality(S) * spec.shardSize
<1> DEFINE p == Cardinality(S \ Short)
           q == Cardinality(S \cap Short)
           z == spec.shardSize
           l == LastSize
<1>1. p \in Nat /\ q \in Nat /\ Cardinality(S) = p + q /\ Trials(S) = p * z + q * l
  BY TrialsOfShards
<1>2. l \in 1..z /\ z \in Nat
  BY ShardsFit DEF IsManifest
<1> HIDE DEF p, q, z, l
<1>3. l \in Nat /\ 1 <= l /\ 1 <= z /\ l <= z
  BY <1>2
<1>4. p * 1 <= p * z /\ q * 1 <= q * l /\ q * l <= q * z
  BY <1>1, <1>2, <1>3, TimesMonotone
<1>5. (p + q) * z = p * z + q * z /\ p * z \in Nat /\ q * l \in Nat /\ q * z \in Nat
  BY <1>1, <1>2, <1>3
<1> QED
  BY <1>1, <1>4, <1>5 DEF z

-----------------------------------------------------------------------------
(* The duration of a wave.                                                 *)

(* The concurrency is at least one.                                        *)
LEMMA ConcurrencyIsPositive ==
    ASSUME IsManifest(spec)
    PROVE  Concurrency \in Nat \ {0}
<1> DEFINE S == {spec.concurrent, spec.limit,
                 IF spec.profile = 0 THEN spec.concurrent ELSE spec.profile}
<1>1. S \subseteq Nat \ {0} /\ S # {}
  BY DEF IsManifest
<1>2. Concurrency = Min(S)
  BY DEF Concurrency
<1> HIDE DEF S
<1>3. S \subseteq Nat
  BY <1>1
<1>4. Min(S) \in S
  BY <1>1, <1>3, MinIsSmallest
<1> QED
  BY <1>1, <1>2, <1>4

(* Rounded up quotients.                                                   *)
LEMMA CeilDivMonotone ==
    ASSUME NEW a \in Nat, NEW b \in Nat, NEW k \in Nat \ {0}, a <= b
    PROVE  /\ CeilDiv(a, k) \in Nat /\ CeilDiv(b, k) \in Nat /\ CeilDiv(a, k) <= CeilDiv(b, k)
           /\ a # 0 => CeilDiv(a, k) # 0
<1>1. a + k - 1 \in Nat /\ b + k - 1 \in Nat /\ a + k - 1 <= b + k - 1
  OBVIOUS
<1>2. (a + k - 1) \div k \in Nat /\ (b + k - 1) \div k \in Nat
      /\ (a + k - 1) \div k <= (b + k - 1) \div k
      /\ a + k - 1 < k * ((a + k - 1) \div k) + k
  BY <1>1, DivBounds, DivMonotone
<1>3. a # 0 => (a + k - 1) \div k # 0
  BY <1>2
<1> QED
  BY <1>2, <1>3 DEF CeilDiv

(* More trials never take less time, and one takes some.                   *)
LEMMA SecondsGrow ==
    ASSUME IsManifest(spec), NEW a \in Nat \ {0}, NEW b \in Nat, a <= b
    PROVE  /\ WaveSeconds(a) \in Nat \ {0} /\ WaveSeconds(b) \in Nat
           /\ WaveSeconds(a) <= WaveSeconds(b)
<1> DEFINE x == CeilDiv(a, Concurrency)
           y == CeilDiv(b, Concurrency)
           t == spec.trialSeconds
           h == spec.headroom[1]
           d == spec.headroom[2]
           r == spec.reserve
<1>1. t \in Nat \ {0} /\ h \in Nat \ {0} /\ d \in Nat \ {0} /\ r \in Nat \ {0}
  BY DEF IsManifest
<1>2. x \in Nat /\ y \in Nat /\ x <= y
  BY ConcurrencyIsPositive, CeilDivMonotone
<1>3. WaveSeconds(a) = CeilDiv(x * t * h, d) + r /\ WaveSeconds(b) = CeilDiv(y * t * h, d) + r
  BY DEF WaveSeconds
<1> HIDE DEF x, y, t, h, d, r
<1>4. x * t \in Nat /\ y * t \in Nat /\ x * t <= y * t
  <2>1. t * x <= t * y
    BY <1>1, <1>2, TimesMonotone
  <2> QED
    BY <1>1, <1>2, <2>1
<1>5. x * t * h \in Nat /\ y * t * h \in Nat /\ x * t * h <= y * t * h
  <2> DEFINE u == x * t
             v == y * t
  <2>0. u \in Nat /\ v \in Nat /\ u <= v
    BY <1>4
  <2> HIDE DEF u, v
  <2>1. h * u <= h * v
    BY <1>1, <2>0, TimesMonotone
  <2>2. u * h \in Nat /\ v * h \in Nat /\ u * h <= v * h
    BY <1>1, <2>0, <2>1
  <2> QED
    BY <2>2 DEF u, v
<1>6. CeilDiv(x * t * h, d) \in Nat /\ CeilDiv(y * t * h, d) \in Nat
      /\ CeilDiv(x * t * h, d) <= CeilDiv(y * t * h, d)
  BY <1>1, <1>5, CeilDivMonotone
<1> QED
  BY <1>1, <1>3, <1>6

-----------------------------------------------------------------------------
(* The three orders of the shards.                                         *)

(* An order of a set orders its subsets.                                   *)
LEMMA OrderOfPart ==
    ASSUME NEW S, NEW T, T \subseteq S, NEW order, StrictlyOrders(order, S)
    PROVE  StrictlyOrders(order, T)
BY DEF StrictlyOrders

(* The order of the plan.                                                  *)
LEMMA PlanOrdered ==
    ASSUME IsManifest(spec), spec.tasks # {}
    PROVE  StrictlyOrders(PlanOrder, Shards)
<1>1. \A s \in Shards : s[1] \in Nat /\ s[2] \in Nat /\ s = <<s[1], s[2]>>
  BY ShardsAreFinite DEF Runs
<1>2. \A a, b \in Shards :
        <<a, b>> \in PlanOrder <=> (a[1] < b[1] \/ (a[1] = b[1] /\ a[2] < b[2]))
  BY DEF PlanOrder
<1> QED
  BY <1>1, <1>2 DEF StrictlyOrders

(* The orders of the lock's identities.                                    *)
LEMMA LockOrdered ==
    ASSUME IsManifest(spec), spec.tasks # {}, NEW l, Identities(l)
    PROVE  StrictlyOrders(ShardOrder(l), Shards) /\ StrictlyOrders(RunOrder(l), Shards)
<1>1. \A s \in Shards : s[1] \in Runs
  BY ShardsAreFinite
<1>2. /\ \A r \in Runs : l.runs[r] \in Nat
      /\ \A r, s \in Runs : l.runs[r] = l.runs[s] => r = s
  BY DEF Identities, Injection, IsInjective
<1>3. /\ \A s \in Shards : l.ids[s] \in Nat
      /\ \A r, s \in Shards : l.ids[r] = l.ids[s] => r = s
  BY DEF Identities, Injection, IsInjective
<1>4. \A a, b \in Shards : <<a, b>> \in ShardOrder(l) <=> l.ids[a] < l.ids[b]
  BY DEF ShardOrder
<1>5. \A a, b \in Shards :
        <<a, b>> \in RunOrder(l) <=>
            (l.runs[a[1]] < l.runs[b[1]] \/ (a[1] = b[1] /\ l.ids[a] < l.ids[b]))
  BY <1>4 DEF RunOrder
<1>6. StrictlyOrders(ShardOrder(l), Shards)
  BY <1>3, <1>4 DEF StrictlyOrders
<1>7. StrictlyOrders(RunOrder(l), Shards)
  BY <1>1, <1>2, <1>3, <1>5 DEF StrictlyOrders
<1> QED
  BY <1>6, <1>7

(* What the chunks of some of the shards have in common.                   *)
LEMMA WavesAreChunks ==
    ASSUME IsManifest(spec), spec.tasks # {}, NEW S, S \subseteq Shards, NEW order,
           StrictlyOrders(order, Shards), NEW c \in Chunked(S, order)
    PROVE  /\ c # {} /\ c \subseteq S /\ Cardinality(c) \in 1..spec.perWave
           /\ Trials(c) \in Nat \ {0} /\ Cardinality(c) <= Trials(c)
           /\ Chunked(S \ c, order) \subseteq Chunked(S, order)
<1>1. spec.perWave \in Nat \ {0}
  BY DEF IsManifest
<1>2. IsFiniteSet(S) /\ StrictlyOrders(order, S)
  BY OrderOfPart, TrialsOfShards
<1>3. c # {} /\ c \subseteq S /\ Cardinality(c) \in 1..spec.perWave
      /\ Chunked(S \ c, order) \subseteq Chunked(S, order)
  BY <1>1, <1>2, ChunksAreSmall, ChunksStay
<1>4. c \subseteq Shards
  BY <1>3
<1>5. Trials(c) \in Nat /\ Cardinality(c) <= Trials(c)
  BY <1>4, TrialsAreBounded
<1> QED
  BY <1>1, <1>3, <1>5

(* The planned duration of a deployment is that of its longest wave.       *)
LEMMA PlannedIsLongest ==
    ASSUME IsManifest(spec), spec.tasks # {}, NEW g \in Deployments
    PROVE  /\ PlannedSeconds(g) \in Nat \ {0}
           /\ \A c \in PlannedWaves(g) : WaveSeconds(Trials(c)) <= PlannedSeconds(g)
<1> DEFINE W == PlannedWaves(g)
           D == {WaveSeconds(Trials(c)) : c \in W}
<1>1. ShardsOf(g) \subseteq Shards /\ IsFiniteSet(ShardsOf(g))
  BY TrialsOfShards DEF ShardsOf
<1>2. StrictlyOrders(PlanOrder, Shards)
  BY PlanOrdered
<1>3. \A c \in W : Trials(c) \in Nat \ {0}
  BY <1>1, <1>2, WavesAreChunks DEF PlannedWaves
<1>4. \A c \in W : WaveSeconds(Trials(c)) \in Nat \ {0}
  BY <1>3, SecondsGrow
<1>5. ShardsOf(g) # {}
  <2>1. PICK i \in Runs : DigestOf(i) = g
    BY DEF Deployments
  <2>2. ShardCount \in Nat \ {0}
    BY ShardsFit
  <2>3. <<i, 1>> \in Shards
    BY <2>2 DEF Shards
  <2> QED
    BY <2>1, <2>3 DEF ShardsOf
<1>6. W # {}
  <2>1. PICK t \in ShardsOf(g) : TRUE
    BY <1>5
  <2>2. ChunkAt(ShardsOf(g), PlanOrder, Place(ShardsOf(g), PlanOrder, t)) \in W
    BY DEF PlannedWaves, Chunked, ChunkAt
  <2> QED
    BY <2>2
<1>7. IsFiniteSet(W)
  <2>1. W \subseteq SUBSET ShardsOf(g)
    BY DEF PlannedWaves, Chunked
  <2>2. IsFiniteSet(SUBSET ShardsOf(g))
    BY <1>1, FS_SUBSET
  <2> QED
    BY <2>1, <2>2, FS_Subset
<1>8. IsFiniteSet(D)
  <2> DEFINE f == [c \in W |-> WaveSeconds(Trials(c))]
  <2>1. f \in Surjection(W, D)
    BY DEF Surjection
  <2> HIDE DEF f, W, D
  <2> QED
    BY <1>7, <2>1, FS_Surjection
<1>9. D \subseteq Nat \ {0} /\ D # {}
  BY <1>4, <1>6
<1>10. D \subseteq Nat
  BY <1>9
<1>11. PlannedSeconds(g) = Max(D)
  BY DEF PlannedSeconds
<1>12. Max(D) \in D /\ \A m \in D : m <= Max(D)
  <2> HIDE DEF D
  <2> QED
    BY <1>8, <1>9, <1>10, MaxIsLargest
<1>13. PlannedSeconds(g) \in Nat \ {0}
  <2> HIDE DEF D
  <2> QED
    BY <1>9, <1>11, <1>12
<1> QED
  BY <1>11, <1>12, <1>13

-----------------------------------------------------------------------------
(* The inductive invariant of planning and proposing.                      *)

(* What has been planned was accepted.                                     *)
PlanAccepted ==
    phase \in {"planned", "locked", "error"} => spec.tasks # {} /\ ControllerPolicy

(* The lock orders runs and shards, and holds the chunks of that order.    *)
LockHolds ==
    phase \in {"locked", "error"} =>
        /\ Identities(lock) /\ lock.waves = LockedInitialWaves(lock)
        /\ DOMAIN shards = Shards

(* A running wave is a chunk of what was planned, or of what is retried.   *)
WaveHolds ==
    wave # NoWave =>
        /\ phase = "locked" /\ wave.g \in Deployments
        /\ wave.kind \in {"submit-wave", "retry-shard"}
        /\ wave.kind = "submit-wave" => wave.shards \in NewWaves(wave.g)
        /\ wave.kind = "retry-shard" => \A s \in wave.shards : s \in DOMAIN shards /\ shards[s] = "retry"

(* Until a wave is cut, what is left of a deployment is a union of chunks. *)
ChunksLeft ==
    /\ losses.cuts \in Nat
    /\ losses.cuts = 0 =>
         /\ phase # "error"
         /\ phase = "locked" =>
              \A g \in Deployments : NewWaves(g) \subseteq Chunked(ShardsOf(g), RunOrder(lock))

(* The losses are those two counters.                                      *)
LossShape == losses = [failures |-> losses.failures, cuts |-> losses.cuts]

PlanInv ==
    /\ IsManifest(spec) /\ LossShape
    /\ PlanAccepted /\ LockHolds /\ WaveHolds /\ ChunksLeft

(* A step that keeps the manifest keeps what is computed from it.          *)
LEMMA ManifestStays ==
    ASSUME spec' = spec
    PROVE  /\ Runs' = Runs /\ Shards' = Shards /\ Deployments' = Deployments
           /\ ShardCount' = ShardCount /\ ControllerPolicy' = ControllerPolicy
           /\ \A g : ShardsOf(g)' = ShardsOf(g)
           /\ \A S, o : Chunked(S, o)' = Chunked(S, o)
           /\ \A l : RunOrder(l)' = RunOrder(l) /\ ShardOrder(l)' = ShardOrder(l)
           /\ \A l : Identities(l)' = Identities(l)
           /\ \A S : Trials(S)' = Trials(S)
           /\ \A g : PlannedSeconds(g)' = PlannedSeconds(g)
           /\ \A l : LockedInitialWaves(l)' = LockedInitialWaves(l)
<1>1. Runs' = Runs /\ ShardCount' = ShardCount /\ TrialCount' = TrialCount
  BY DEF Runs, ShardCount, TrialCount
<1>2. Shards' = Shards
  BY <1>1 DEF Shards
<1>3. \A i : DigestOf(i)' = DigestOf(i)
  BY DEF DigestOf
<1>4. Deployments' = Deployments
  BY <1>1, <1>3 DEF Deployments
<1>5. \A g : ShardsOf(g)' = ShardsOf(g)
  BY <1>2, <1>3 DEF ShardsOf
<1>6. \A S, o : Chunked(S, o)' = Chunked(S, o)
  BY DEF Chunked, Place, Rank
<1>7. \A l : ShardOrder(l)' = ShardOrder(l)
  BY <1>2 DEF ShardOrder
<1>8. \A l : RunOrder(l)' = RunOrder(l)
  BY <1>2, <1>7 DEF RunOrder
<1>9. \A l : Identities(l)' = Identities(l)
  BY <1>1, <1>2 DEF Identities
<1>10. \A s : ShardSize(s)' = ShardSize(s)
  BY <1>1 DEF ShardSize
<1>11. \A S : Trials(S)' = Trials(S)
  BY <1>2, <1>10 DEF Trials
<1>12. PlanOrder' = PlanOrder
  BY <1>2 DEF PlanOrder
<1>13. \A g : PlannedWaves(g)' = PlannedWaves(g)
  BY <1>5, <1>6, <1>12 DEF PlannedWaves
<1>14. \A n : WaveSeconds(n)' = WaveSeconds(n)
  BY DEF WaveSeconds, Concurrency
<1>15. \A g : PlannedSeconds(g)' = PlannedSeconds(g)
  BY <1>11, <1>13, <1>14 DEF PlannedSeconds
<1>16. ControllerPolicy' = ControllerPolicy
  BY <1>4 DEF ControllerPolicy
<1>17. \A l : LockedInitialWaves(l)' = LockedInitialWaves(l)
  BY <1>4, <1>5, <1>6, <1>8, <1>11, <1>15 DEF LockedInitialWaves
<1> QED
  BY <1>1, <1>2, <1>4, <1>5, <1>6, <1>7, <1>8, <1>9, <1>11, <1>15, <1>16, <1>17

(* A proposed first wave of an uncut campaign is one locked wave.          *)
LEMMA ProposalIsLocked ==
    ASSUME PlanInv, phase = "locked", NEW g \in Deployments, NEW S \in NewWaves(g),
           S \in Chunked(ShardsOf(g), RunOrder(lock)), Provider(g)
    PROVE  \E w : Matches(g, S) = {w} /\ w.seconds = PlannedSeconds(g)
<1> DEFINE w == [g |-> g, shards |-> S, trials |-> Trials(S), seconds |-> PlannedSeconds(g)]
<1>1. Deployments \subseteq spec.providers
  BY DEF PlanInv, PlanAccepted, ControllerPolicy, Provider
<1>2. lock.waves = UNION {{[g |-> d, shards |-> c, trials |-> Trials(c), seconds |-> PlannedSeconds(d)] :
                    c \in Chunked(ShardsOf(d), RunOrder(lock))} : d \in Deployments}
  BY <1>1 DEF PlanInv, LockHolds, LockedInitialWaves
<1>3. w \in lock.waves
  BY <1>2
<1>4. ASSUME NEW v \in lock.waves, v.g = g, v.shards = S PROVE v = w
  <2>0. PICK d \in Deployments : \E c \in Chunked(ShardsOf(d), RunOrder(lock)) :
            v = [g |-> d, shards |-> c, trials |-> Trials(c), seconds |-> PlannedSeconds(d)]
    BY <1>2
  <2>1. PICK c \in Chunked(ShardsOf(d), RunOrder(lock)) :
            v = [g |-> d, shards |-> c, trials |-> Trials(c), seconds |-> PlannedSeconds(d)]
    BY <2>0
  <2>2. d = g /\ c = S
    BY <1>4, <2>1
  <2> QED
    BY <2>1, <2>2
<1>5. Matches(g, S) = {w}
  BY <1>3, <1>4 DEF Matches
<1>6. w.seconds = PlannedSeconds(g)
  OBVIOUS
<1> HIDE DEF w
<1> QED
  BY <1>5, <1>6

(* The proposals of the reconciler can be locked.                          *)
LEMMA ProposalsAreLockable ==
    ASSUME PlanInv, phase = "locked", NEW g \in Deployments,
           NEW S \in NewWaves(g) \cup RetryWaves(g)
    PROVE  /\ S \subseteq ShardsOf(g) /\ S \subseteq Shards /\ S # {}
           /\ Cardinality(S) \in Nat \ {0} /\ Trials(S) \in Nat \ {0}
           /\ \A n \in {Cardinality(S), Trials(S)} : n \in Nat \ {0} /\ WaveLockable(g, S, n)
<1>1. IsManifest(spec) /\ spec.tasks # {} /\ Identities(lock)
  BY DEF PlanInv, PlanAccepted, LockHolds
<1>2. StrictlyOrders(RunOrder(lock), Shards) /\ StrictlyOrders(ShardOrder(lock), Shards)
  BY <1>1, LockOrdered
<1>3. NewShards(g) \subseteq Shards /\ RetryShards(g) \subseteq Shards
      /\ NewShards(g) \subseteq ShardsOf(g) /\ RetryShards(g) \subseteq ShardsOf(g)
  BY DEF NewShards, RetryShards, ShardsOf
<1>4. /\ S # {} /\ (S \subseteq NewShards(g) \/ S \subseteq RetryShards(g))
      /\ Cardinality(S) \in 1..spec.perWave /\ Trials(S) \in Nat \ {0} /\ Cardinality(S) <= Trials(S)
  <2>1. CASE S \in NewWaves(g)
    BY <1>1, <1>2, <1>3, <2>1, WavesAreChunks DEF NewWaves
  <2>2. CASE S \in RetryWaves(g)
    BY <1>1, <1>2, <1>3, <2>2, WavesAreChunks DEF RetryWaves
  <2> QED
    BY <2>1, <2>2
<1>5. S \subseteq ShardsOf(g) /\ S \subseteq Shards
  BY <1>3, <1>4
<1>6. \A s \in S : DigestOf(s[1]) = g
  BY <1>5 DEF ShardsOf
<1>7. spec.perWave \in Nat
  BY <1>1 DEF IsManifest
<1>8. \A n \in {Cardinality(S), Trials(S)} : n \in Nat \ {0} /\ WaveLockable(g, S, n)
  BY <1>4, <1>6, <1>7 DEF WaveLockable
<1> QED
  BY <1>4, <1>5, <1>7, <1>8

(* Planning accepts or refuses a manifest.                                 *)
LEMMA PlanKeepsInv == PlanInv /\ BuildCampaignPlan => PlanInv'
<1> SUFFICES ASSUME PlanInv, BuildCampaignPlan PROVE PlanInv'
  OBVIOUS
<1>1. spec' = spec /\ lock' = lock /\ shards' = shards /\ wave' = wave /\ losses' = losses
      /\ phase = "manifest" /\ phase' \in {"planned", "rejected"}
      /\ (phase' = "planned" => ResolvedTasks /\ ControllerPolicy)
  BY DEF BuildCampaignPlan
<1>2. wave = NoWave
  BY <1>1 DEF PlanInv, WaveHolds
<1>3. ControllerPolicy' = ControllerPolicy
  BY <1>1, ManifestStays
<1>4. IsManifest(spec)' /\ LossShape'
  BY <1>1 DEF PlanInv, LossShape
<1>5. PlanAccepted'
  BY <1>1, <1>3 DEF PlanAccepted, ResolvedTasks
<1>6. LockHolds'
  BY <1>1 DEF LockHolds
<1>7. WaveHolds'
  BY <1>1, <1>2 DEF WaveHolds, NoWave
<1>8. ChunksLeft'
  BY <1>1 DEF PlanInv, ChunksLeft
<1> QED
  BY <1>4, <1>5, <1>6, <1>7, <1>8 DEF PlanInv

(* Locking gives every deployment its chunks.                              *)
LEMMA LockKeepsInv == PlanInv /\ BuildCampaignLock => PlanInv'
<1> SUFFICES ASSUME PlanInv, BuildCampaignLock PROVE PlanInv'
  OBVIOUS
<1>1. spec' = spec /\ wave' = wave /\ losses' = losses /\ phase = "planned" /\ phase' = "locked"
      /\ shards' = [s \in Shards |-> "planned"]
  BY DEF BuildCampaignLock
<1>2. PICK o \in Orders(Runs, Shards) :
          /\ Identities(o)
          /\ lock' = [[NoLock EXCEPT !.runs = o.runs, !.ids = o.ids] EXCEPT
                !.waves = LockedInitialWaves([NoLock EXCEPT !.runs = o.runs, !.ids = o.ids])]
  BY DEF BuildCampaignLock
<1> DEFINE l == [NoLock EXCEPT !.runs = o.runs, !.ids = o.ids]
<1>3. l.runs = o.runs /\ l.ids = o.ids /\ lock'.runs = o.runs /\ lock'.ids = o.ids
      /\ lock'.waves = LockedInitialWaves(l)
  BY <1>2 DEF NoLock
<1> HIDE DEF l
<1>4. Identities(lock')
  BY <1>2, <1>3 DEF Identities
<1>5. ShardOrder(lock') = ShardOrder(l) /\ RunOrder(lock') = RunOrder(l)
  BY <1>3 DEF ShardOrder, RunOrder
<1>6. LockedInitialWaves(lock') = LockedInitialWaves(l)
  BY <1>5 DEF LockedInitialWaves
<1>7. wave = NoWave
  BY <1>1 DEF PlanInv, WaveHolds
<1>8. IsManifest(spec)' /\ LossShape'
  BY <1>1 DEF PlanInv, LossShape
<1>9. PlanAccepted'
  <2>1. ControllerPolicy' = ControllerPolicy
    BY <1>1, ManifestStays
  <2> QED
    BY <1>1, <2>1 DEF PlanAccepted, PlanInv
<1>10. LockHolds'
  <2>1. Shards' = Shards /\ Runs' = Runs
    BY <1>1, ManifestStays
  <2>2. Identities(lock)'
    BY <1>4, <2>1 DEF Identities
  <2>3. LockedInitialWaves(lock)' = LockedInitialWaves(lock')
    BY <1>1, ManifestStays
  <2> QED
    BY <1>1, <1>3, <1>6, <2>1, <2>2, <2>3 DEF LockHolds
<1>11. WaveHolds'
  BY <1>1, <1>7 DEF WaveHolds, NoWave
<1>12. ChunksLeft'
  <2>1. ASSUME NEW g \in Deployments'
        PROVE  NewShards(g)' = ShardsOf(g)'
    <3>1. ShardsOf(g)' = ShardsOf(g) /\ ShardsOf(g) \subseteq Shards
      BY <1>1, ManifestStays DEF ShardsOf
    <3> QED
      BY <1>1, <3>1 DEF NewShards
  <2>2. \A g \in Deployments' : NewWaves(g)' = Chunked(ShardsOf(g), RunOrder(lock))'
    BY <2>1 DEF NewWaves
  <2> QED
    BY <1>1, <2>2 DEF ChunksLeft, PlanInv
<1> QED
  BY <1>8, <1>9, <1>10, <1>11, <1>12 DEF PlanInv

(* The part of the invariant that a step which keeps manifest, lock and    *)
(* shards cannot disturb.                                                  *)
LEMMA PlanFrame ==
    ASSUME PlanInv, spec' = spec, lock' = lock, shards' = shards, losses' = losses,
           phase = "locked", phase' \in {"locked", "error"}
    PROVE  /\ IsManifest(spec)' /\ LossShape' /\ PlanAccepted' /\ LockHolds'
           /\ Deployments' = Deployments
           /\ \A g : NewWaves(g)' = NewWaves(g)
           /\ \A g : Chunked(ShardsOf(g), RunOrder(lock))' = Chunked(ShardsOf(g), RunOrder(lock))
<1>1. /\ Deployments' = Deployments /\ ControllerPolicy' = ControllerPolicy /\ Shards' = Shards
      /\ \A g : ShardsOf(g)' = ShardsOf(g)
      /\ RunOrder(lock)' = RunOrder(lock) /\ Identities(lock)' = Identities(lock)
      /\ LockedInitialWaves(lock)' = LockedInitialWaves(lock)
      /\ \A S, o : Chunked(S, o)' = Chunked(S, o)
  BY ManifestStays
<1>2. \A g : NewShards(g)' = NewShards(g)
  BY <1>1 DEF NewShards
<1>3. \A g : NewWaves(g)' = NewWaves(g)
  BY <1>1, <1>2 DEF NewWaves
<1>4. \A g : Chunked(ShardsOf(g), RunOrder(lock))' = Chunked(ShardsOf(g), RunOrder(lock))
  BY <1>1
<1>5. IsManifest(spec)' /\ LossShape'
  BY DEF PlanInv, LossShape
<1>6. PlanAccepted'
  BY <1>1 DEF PlanInv, PlanAccepted
<1>7. LockHolds'
  BY <1>1 DEF PlanInv, LockHolds
<1> QED
  BY <1>1, <1>3, <1>4, <1>5, <1>6, <1>7

(* A first wave starts, or the campaign was cut before.                    *)
LEMMA SubmitKeepsInv == PlanInv /\ SubmitWave => PlanInv'
<1> SUFFICES ASSUME PlanInv, SubmitWave PROVE PlanInv'
  OBVIOUS
<1>1. spec' = spec /\ lock' = lock /\ shards' = shards /\ losses' = losses
      /\ phase = "locked" /\ wave = NoWave
  BY DEF SubmitWave, Idling
<1>2. PICK g \in Deployments : \E S \in NewWaves(g) :
        Start(g, S, "submit-wave", Trials(S),
              IF ~Provider(g) THEN spec.waveTimeout
              ELSE IF Cardinality(Matches(g, S)) # 1 THEN 0
              ELSE (CHOOSE w \in Matches(g, S) : TRUE).seconds, spec.waveCost)
  BY DEF SubmitWave
<1>3. PICK S \in NewWaves(g) :
        Start(g, S, "submit-wave", Trials(S),
              IF ~Provider(g) THEN spec.waveTimeout
              ELSE IF Cardinality(Matches(g, S)) # 1 THEN 0
              ELSE (CHOOSE w \in Matches(g, S) : TRUE).seconds, spec.waveCost)
  BY <1>2
<1> DEFINE seconds == IF ~Provider(g) THEN spec.waveTimeout
                      ELSE IF Cardinality(Matches(g, S)) # 1 THEN 0
                      ELSE (CHOOSE w \in Matches(g, S) : TRUE).seconds
<1>4. \/ /\ wave'.kind = "submit-wave" /\ wave'.g = g /\ wave'.shards = S
         /\ phase' = "locked"
      \/ phase' = "error" /\ wave' = NoWave /\ ~(WaveLockable(g, S, Trials(S)) /\ seconds > 0)
  BY <1>1, <1>3 DEF Start
<1>5. phase' \in {"locked", "error"}
  BY <1>4
<1>6. /\ IsManifest(spec)' /\ LossShape' /\ PlanAccepted' /\ LockHolds'
      /\ Deployments' = Deployments
      /\ \A h : NewWaves(h)' = NewWaves(h)
      /\ \A h : Chunked(ShardsOf(h), RunOrder(lock))' = Chunked(ShardsOf(h), RunOrder(lock))
  BY <1>1, <1>5, PlanFrame
<1>7. WaveLockable(g, S, Trials(S))
  BY <1>1, ProposalsAreLockable
<1>8. ASSUME losses.cuts = 0 PROVE seconds > 0
  <2>1. S \in Chunked(ShardsOf(g), RunOrder(lock))
    BY <1>1, <1>8 DEF PlanInv, ChunksLeft
  <2>2. CASE ~Provider(g)
    BY <2>2 DEF PlanInv, IsManifest
  <2>3. CASE Provider(g)
    <3>1. PICK w : Matches(g, S) = {w} /\ w.seconds = PlannedSeconds(g)
      BY <1>1, <2>1, <2>3, ProposalIsLocked
    <3>2. Cardinality(Matches(g, S)) = 1
      BY <3>1, FS_Singleton
    <3>3. (CHOOSE v \in Matches(g, S) : TRUE) = w
      BY <3>1
    <3>4. seconds = PlannedSeconds(g)
      BY <2>3, <3>1, <3>2, <3>3
    <3>5. PlannedSeconds(g) \in Nat \ {0}
      BY <1>1, PlannedIsLongest DEF PlanInv, PlanAccepted
    <3> HIDE DEF seconds
    <3> QED
      BY <3>4, <3>5
  <2> QED
    BY <2>2, <2>3
<1> HIDE DEF seconds
<1>9. WaveHolds'
  <2>1. CASE phase' = "error"
    BY <1>4, <2>1 DEF WaveHolds, NoWave
  <2>2. CASE phase' # "error"
    <3>1. wave'.kind = "submit-wave" /\ wave'.g = g /\ wave'.shards = S /\ phase' = "locked"
      BY <1>4, <2>2
    <3>2. NewWaves(wave.g)' = NewWaves(g)'
      BY <3>1 DEF NewWaves, NewShards, ShardsOf
    <3> QED
      BY <1>6, <3>1, <3>2 DEF WaveHolds
  <2> QED
    BY <2>1, <2>2
<1>10. ChunksLeft'
  <2>1. losses.cuts = 0 => phase' # "error"
    BY <1>4, <1>7, <1>8
  <2> QED
    BY <1>1, <1>6, <2>1 DEF PlanInv, ChunksLeft
<1> QED
  BY <1>6, <1>9, <1>10 DEF PlanInv

(* A retry wave starts.                                                    *)
LEMMA RetryKeepsInv == PlanInv /\ RetryWave => PlanInv'
<1> SUFFICES ASSUME PlanInv, RetryWave PROVE PlanInv'
  OBVIOUS
<1>1. spec' = spec /\ lock' = lock /\ shards' = shards /\ losses' = losses
      /\ phase = "locked" /\ wave = NoWave
  BY DEF RetryWave, Idling
<1>2. PICK g \in Deployments : \E S \in RetryWaves(g) : \E n \in {Cardinality(S), Trials(S)} :
        Start(g, S, "retry-shard", n, IF Provider(g) THEN WaveSeconds(n) ELSE spec.waveTimeout,
              PartialWaveCost(g, n))
  BY DEF RetryWave
<1>3. PICK S \in RetryWaves(g) : \E n \in {Cardinality(S), Trials(S)} :
        Start(g, S, "retry-shard", n, IF Provider(g) THEN WaveSeconds(n) ELSE spec.waveTimeout,
              PartialWaveCost(g, n))
  BY <1>2
<1>4. PICK n \in {Cardinality(S), Trials(S)} :
        Start(g, S, "retry-shard", n, IF Provider(g) THEN WaveSeconds(n) ELSE spec.waveTimeout,
              PartialWaveCost(g, n))
  BY <1>3
<1>5. n \in Nat \ {0} /\ WaveLockable(g, S, n) /\ S \subseteq Shards
  BY <1>1, ProposalsAreLockable
<1>6. (IF Provider(g) THEN WaveSeconds(n) ELSE spec.waveTimeout) > 0
  <2>1. WaveSeconds(n) \in Nat \ {0}
    BY <1>5, SecondsGrow DEF PlanInv
  <2>2. spec.waveTimeout \in Nat \ {0}
    BY DEF PlanInv, IsManifest
  <2> QED
    BY <2>1, <2>2
<1>7. wave'.kind = "retry-shard" /\ wave'.g = g /\ wave'.shards = S /\ phase' = "locked"
  BY <1>1, <1>4, <1>5, <1>6 DEF Start
<1>8. /\ IsManifest(spec)' /\ LossShape' /\ PlanAccepted' /\ LockHolds'
      /\ Deployments' = Deployments
      /\ \A h : NewWaves(h)' = NewWaves(h)
      /\ \A h : Chunked(ShardsOf(h), RunOrder(lock))' = Chunked(ShardsOf(h), RunOrder(lock))
  BY <1>1, <1>7, PlanFrame
<1>9. WaveHolds'
  <2>1. \A s \in S : s \in DOMAIN shards /\ shards[s] = "retry"
    BY <1>1, <1>5 DEF RetryWaves, Chunked, RetryShards, PlanInv, LockHolds
  <2> QED
    BY <1>1, <1>7, <1>8, <2>1 DEF WaveHolds
<1>10. ChunksLeft'
  BY <1>1, <1>7, <1>8 DEF PlanInv, ChunksLeft
<1> QED
  BY <1>8, <1>9, <1>10 DEF PlanInv

(* A wave has run: it takes its chunk away, or is cut.                     *)
LEMMA RunKeepsInv == PlanInv /\ RunWave => PlanInv'
<1> SUFFICES ASSUME PlanInv, RunWave PROVE PlanInv'
  OBVIOUS
<1>1. spec' = spec /\ lock' = lock /\ phase = "locked" /\ phase' = "locked"
      /\ wave # NoWave /\ wave' = NoWave
  BY DEF RunWave
<1>2. PICK failed \in SUBSET wave.shards, left \in SUBSET wave.shards :
        /\ shards' = [s \in DOMAIN shards |->
                    CASE s \notin wave.shards \/ s \in left -> shards[s]
                      [] s \in failed -> "retry"
                      [] OTHER -> "done"]
        /\ losses' = [failures |-> losses.failures + Cardinality(failed),
                      cuts |-> losses.cuts + IF left = {} THEN 0 ELSE 1]
  BY DEF RunWave
<1>3. /\ Deployments' = Deployments /\ ControllerPolicy' = ControllerPolicy /\ Shards' = Shards
      /\ \A g : ShardsOf(g)' = ShardsOf(g)
      /\ RunOrder(lock)' = RunOrder(lock) /\ Identities(lock)' = Identities(lock)
      /\ LockedInitialWaves(lock)' = LockedInitialWaves(lock)
      /\ \A S, o : Chunked(S, o)' = Chunked(S, o)
  BY <1>1, ManifestStays
<1>4. IsManifest(spec)' /\ LossShape'
  BY <1>1, <1>2 DEF PlanInv, LossShape
<1>5. PlanAccepted'
  BY <1>1, <1>3 DEF PlanInv, PlanAccepted
<1>6. LockHolds'
  BY <1>1, <1>2, <1>3 DEF PlanInv, LockHolds
<1>7. WaveHolds'
  BY <1>1 DEF WaveHolds, NoWave
<1>8. losses.cuts \in Nat /\ losses'.cuts \in Nat /\ (losses'.cuts = 0 => losses.cuts = 0 /\ left = {})
  BY <1>2 DEF PlanInv, ChunksLeft
<1>9. ASSUME losses'.cuts = 0, NEW g \in Deployments
      PROVE  NewWaves(g)' \subseteq Chunked(ShardsOf(g), RunOrder(lock))
  <2>1. losses.cuts = 0 /\ left = {}
    BY <1>8, <1>9
  <2>2. NewWaves(g) \subseteq Chunked(ShardsOf(g), RunOrder(lock))
    BY <1>1, <2>1 DEF PlanInv, ChunksLeft
  <2>3. NewShards(g)' = NewShards(g) \ wave.shards
    <3>1. ShardsOf(g) \subseteq Shards /\ DOMAIN shards = Shards
      BY <1>1 DEF ShardsOf, PlanInv, LockHolds
    <3>2. \A s \in Shards : shards'[s] = "planned" <=> shards[s] = "planned" /\ s \notin wave.shards
      BY <1>2, <2>1, <3>1
    <3> QED
      BY <1>3, <3>1, <3>2 DEF NewShards
  <2>4. NewWaves(g)' = Chunked(NewShards(g) \ wave.shards, RunOrder(lock))
    BY <1>3, <2>3 DEF NewWaves
  <2>5. CASE wave.kind = "submit-wave" /\ wave.g = g
    <3>1. wave.shards \in Chunked(NewShards(g), RunOrder(lock))
      BY <1>1, <2>5 DEF PlanInv, WaveHolds, NewWaves
    <3>2. StrictlyOrders(RunOrder(lock), Shards) /\ NewShards(g) \subseteq Shards
      BY <1>1, LockOrdered DEF PlanInv, PlanAccepted, LockHolds, NewShards, ShardsOf
    <3>3. Chunked(NewShards(g) \ wave.shards, RunOrder(lock)) \subseteq Chunked(NewShards(g), RunOrder(lock))
      BY <1>1, <3>1, <3>2, WavesAreChunks DEF PlanInv, PlanAccepted
    <3> QED
      BY <2>2, <2>4, <3>3 DEF NewWaves
  <2>6. CASE ~(wave.kind = "submit-wave" /\ wave.g = g)
    <3>1. NewShards(g) \cap wave.shards = {}
      <4>1. CASE wave.kind = "retry-shard"
        BY <1>1, <4>1 DEF PlanInv, WaveHolds, NewShards
      <4>2. CASE wave.kind = "submit-wave"
        <5>1. wave.shards \subseteq NewShards(wave.g) /\ wave.g # g
          BY <1>1, <2>6, <4>2 DEF PlanInv, WaveHolds, NewWaves, Chunked
        <5> QED
          BY <5>1 DEF NewShards, ShardsOf
      <4> QED
        BY <1>1, <4>1, <4>2 DEF PlanInv, WaveHolds
    <3>2. NewShards(g) \ wave.shards = NewShards(g)
      BY <3>1
    <3> QED
      BY <2>2, <2>4, <3>2 DEF NewWaves
  <2> QED
    BY <2>5, <2>6
<1>10. ChunksLeft'
  <2>1. \A g : Chunked(ShardsOf(g), RunOrder(lock))' = Chunked(ShardsOf(g), RunOrder(lock))
    BY <1>3
  <2> QED
    BY <1>1, <1>3, <1>8, <1>9, <2>1 DEF ChunksLeft
<1> QED
  BY <1>4, <1>5, <1>6, <1>7, <1>10 DEF PlanInv

-----------------------------------------------------------------------------
(* The inductive invariant of profiling.                                   *)

Natural(p) == p.rate \in Nat

(* Points are a finite function on concurrencies and repetitions.          *)
IsPoints(p) ==
    /\ p = [k \in DOMAIN p |-> p[k]] /\ IsFiniteSet(DOMAIN p)
    /\ DOMAIN p \subseteq Ladder \X Nat /\ \A k \in DOMAIN p : Natural(p[k])

DiskShape ==
    disk = [stage |-> disk.stage, points |-> disk.points, archived |-> disk.archived,
            profile |-> disk.profile, failure |-> disk.failure, marker |-> disk.marker]

JobShape ==
    job = [pc |-> job.pc, phase |-> job.phase, at |-> job.at, todo |-> job.todo,
           recovered |-> job.recovered, consumed |-> job.consumed, points |-> job.points,
           held |-> job.held, why |-> job.why]

Measuring == {"ladder", "obtain", "archived", "smoke", "boundary"}
Working == {"ladder", "obtain", "archived", "smoke"}

(* Before the prefix is open nothing is there; behind a marker nobody runs. *)
StagesHold ==
    /\ disk.stage \in {"absent", "made", "planned", "open"}
    /\ disk.marker \in {"none", "_SELECTED", "_FAILED"}
    /\ disk.stage # "open" =>
         job.pc = "idle" /\ disk.points = NoPoints /\ disk.profile = NoProfile /\ disk.marker = "none"
    /\ disk.marker # "none" => job.pc = "idle"
    /\ job.pc = "idle" => job = Idle

(* What an attempt knows and what the Bucket holds.                        *)
RecoveredHolds ==
    /\ DOMAIN job.recovered \subseteq DOMAIN disk.points
    /\ job.pc \in Measuring \cup {"begin"} =>
         /\ disk.profile = NoProfile
         /\ DOMAIN disk.points = DOMAIN job.recovered \cup DOMAIN job.points
         /\ \A k \in DOMAIN job.points : disk.points[k] = job.points[k]
         /\ job.consumed \subseteq DOMAIN job.points
         /\ \/ \A k \in DOMAIN job.recovered : disk.points[k] = job.recovered[k]
            \/ expired /\ job.pc = "boundary"

PositionHolds ==
    /\ job.pc \in Working => job.at \in Ladder \X Nat
    /\ job.todo \subseteq {k[1] : k \in DOMAIN job.points}
    /\ job.pc = "archived" => job.at \notin DOMAIN job.recovered /\ Natural(job.held)

MeasuredHolds ==
    job.pc = "select" \/ (job.pc = "closing" /\ job.why = "measured") =>
        disk.profile = NoProfile /\ job.points = disk.points

(* A concurrency that passed as often as the objective asks.               *)
Carries(c, points) ==
    LET n == Cardinality(Passing(points) \cap At(points, c))
    IN n = Reps \/ (pplan.objective # "stable" /\ n = 1)

SelectionHolds ==
    /\ disk.profile # NoProfile =>
         /\ disk.profile = [points |-> disk.points, choice |-> disk.profile.choice]
         /\ disk.profile.choice \in Ladder /\ Carries(disk.profile.choice, disk.points)
    /\ disk.marker = "_SELECTED" \/ job.pc \in {"finalize", "recheck"} => disk.profile # NoProfile

ProfileInv ==
    /\ DiskShape /\ JobShape /\ IsPoints(disk.points) /\ IsPoints(job.points)
    /\ StagesHold /\ RecoveredHolds /\ PositionHolds /\ MeasuredHolds /\ SelectionHolds

(* Planning and profiling follow each other.                               *)
PhasesHold ==
    /\ phase \in {"profiling", "manifest", "planned", "locked", "rejected", "error"}
    /\ pplan \in ProfilePlans /\ expired \in BOOLEAN
    /\ phase = "profiling" => ProfileInv /\ wave = NoWave
    /\ phase # "profiling" =>
         /\ job = Idle /\ disk.points = NoPoints
         /\ disk.stage \in {"absent", "made", "planned", "open"}
         /\ disk.marker \in {"none", "_SELECTED", "_FAILED"}
    /\ losses.failures \in 0..MaxFailures /\ losses.cuts \in 0..MaxCuts

-----------------------------------------------------------------------------
(* Selection.                                                              *)

(* Fractions are compared transitively by cross-multiplication.            *)
LEMMA CrossMultiplied ==
    ASSUME NEW a \in Nat, NEW b \in Nat, NEW c \in Nat,
           NEW m \in Nat \ {0}, NEW n \in Nat \ {0}, NEW o \in Nat \ {0},
           a * n >= b * m, b * o >= c * n
    PROVE  /\ a * o >= c * m
           /\ a * o = c * m => a * n = b * m /\ b * o = c * n
<1>1. n * (a * o) = o * (a * n) /\ n * (c * m) = m * (c * n) /\ o * (b * m) = m * (b * o)
  BY SMTT(20)
<1>2. a * n \in Nat /\ b * m \in Nat /\ b * o \in Nat /\ c * n \in Nat /\ a * o \in Nat /\ c * m \in Nat
  OBVIOUS
<1>3. ASSUME NEW x \in Nat, NEW y \in Nat, NEW k \in Nat \ {0}, x < y PROVE k * x < k * y
  <2>1. k * (x + 1) <= k * y
    BY <1>3, TimesMonotone
  <2>2. k * (x + 1) = k * x + k /\ k * x \in Nat /\ k * y \in Nat
    BY <1>3
  <2> QED
    BY <1>3, <2>1, <2>2
<1>4. o * (b * m) <= o * (a * n) /\ m * (c * n) <= m * (b * o)
  BY <1>2, TimesMonotone
<1>5. o * (b * m) \in Nat /\ o * (a * n) \in Nat /\ m * (c * n) \in Nat /\ m * (b * o) \in Nat
  BY <1>2
<1>6. n * (c * m) <= n * (a * o)
  BY <1>1, <1>4, <1>5
<1>7. a * o >= c * m
  <2>1. SUFFICES ASSUME a * o < c * m PROVE FALSE
    BY <1>2
  <2>2. n * (a * o) < n * (c * m)
    BY <1>2, <1>3, <2>1
  <2> QED
    BY <1>1, <1>5, <1>6, <2>2
<1>8. ASSUME a * o = c * m PROVE a * n = b * m /\ b * o = c * n
  <2>1. o * (a * n) = o * (b * m) /\ m * (b * o) = m * (c * n)
    BY <1>1, <1>4, <1>5, <1>8
  <2>2. ~(b * m < a * n)
    BY <1>2, <1>3, <1>5, <2>1
  <2>3. ~(c * n < b * o)
    BY <1>2, <1>3, <1>5, <2>1
  <2> QED
    BY <1>2, <2>2, <2>3
<1> QED
  BY <1>7, <1>8

(* c is at least as good as d: a larger mean, or as large at no more.      *)
AtLeast(T, n, c, d) ==
    T[c] * n[d] > T[d] * n[c] \/ (T[c] * n[d] = T[d] * n[c] /\ c <= d)

(* Some member of a finite set is at least as good as all.                 *)
LEMMA BestExists ==
    ASSUME NEW S, IsFiniteSet(S), S # {}, S \subseteq Nat, NEW T, NEW n,
           \A c \in S : T[c] \in Nat /\ n[c] \in Nat \ {0}
    PROVE  \E c \in S : \A d \in S : AtLeast(T, n, c, d)
<1> DEFINE Best(s) == \E c \in s : \A d \in s : AtLeast(T, n, c, d)
           U == {i \in Nat : \A s \in SUBSET S : Cardinality(s) = i /\ s # {} => Best(s)}
<1>1. \A s \in SUBSET S : IsFiniteSet(s) /\ Cardinality(s) \in Nat
  BY FS_Subset, FS_CardinalityType
<1>2. 0 \in U
  BY <1>1, FS_EmptySet
<1>3. ASSUME NEW i \in Nat, i \in U PROVE i + 1 \in U
  <2> SUFFICES ASSUME NEW s \in SUBSET S, Cardinality(s) = i + 1, s # {} PROVE Best(s)
    OBVIOUS
  <2>1. PICK x \in s : TRUE
    OBVIOUS
  <2>2. x \in Nat /\ T[x] \in Nat /\ n[x] \in Nat \ {0} /\ T[x] * n[x] = T[x] * n[x] /\ x <= x
    BY <2>1
  <2>3. AtLeast(T, n, x, x)
    BY <2>2 DEF AtLeast
  <2>4. CASE s \ {x} = {}
    <3>1. \A d \in s : d = x
      BY <2>4
    <3> QED
      BY <2>1, <2>3, <3>1
  <2>5. CASE s \ {x} # {}
    <3>1. Cardinality(s \ {x}) = i
      BY <1>1, <2>1, FS_RemoveElement
    <3>2. PICK b \in s \ {x} : \A d \in s \ {x} : AtLeast(T, n, b, d)
      BY <1>3, <2>5, <3>1
    <3>3. b \in Nat /\ T[b] \in Nat /\ n[b] \in Nat \ {0}
      BY <3>2
    <3>4. T[x] * n[b] \in Nat /\ T[b] * n[x] \in Nat
      BY <2>2, <3>3
    <3>5. AtLeast(T, n, b, x) \/ AtLeast(T, n, x, b)
      <4> HIDE DEF U, Best
      <4> QED
      BY <2>2, <3>3, <3>4 DEF AtLeast
    <3>6. CASE AtLeast(T, n, b, x)
      <4>1. \A d \in s : AtLeast(T, n, b, d)
        BY <3>2, <3>6
      <4> QED
        BY <3>2, <4>1
    <3>7. CASE AtLeast(T, n, x, b)
      <4>1. ASSUME NEW d \in s \ {x} PROVE AtLeast(T, n, x, d)
        <5>1. d \in Nat /\ T[d] \in Nat /\ n[d] \in Nat \ {0}
          BY <4>1
        <5>2. T[b] * n[d] \in Nat /\ T[d] * n[b] \in Nat /\ T[x] * n[d] \in Nat /\ T[d] * n[x] \in Nat
          BY <2>2, <3>3, <5>1
        <5>3. T[x] * n[b] >= T[b] * n[x] /\ T[b] * n[d] >= T[d] * n[b] /\ AtLeast(T, n, b, d)
          BY <3>2, <3>4, <3>7, <4>1, <5>2 DEF AtLeast
        <5>4. /\ T[x] * n[d] >= T[d] * n[x]
              /\ T[x] * n[d] = T[d] * n[x] => T[x] * n[b] = T[b] * n[x] /\ T[b] * n[d] = T[d] * n[b]
          <6> DEFINE tx == T[x]
                     tb == T[b]
                     td == T[d]
                     nx == n[x]
                     nb == n[b]
                     nd == n[d]
          <6>1. /\ tx \in Nat /\ tb \in Nat /\ td \in Nat
                /\ nx \in Nat \ {0} /\ nb \in Nat \ {0} /\ nd \in Nat \ {0}
                /\ tx * nb >= tb * nx /\ tb * nd >= td * nb
            BY <2>2, <3>3, <5>1, <5>3
          <6> HIDE DEF tx, tb, td, nx, nb, nd
          <6>2. tx * nd >= td * nx /\ (tx * nd = td * nx => tx * nb = tb * nx /\ tb * nd = td * nb)
            BY <6>1, CrossMultiplied
          <6> QED
            BY <6>2 DEF tx, tb, td, nx, nb, nd
        <5> HIDE DEF U, Best
        <5>5. CASE T[x] * n[d] = T[d] * n[x]
          <6>1. x <= b /\ b <= d
            BY <3>4, <3>7, <5>2, <5>3, <5>4, <5>5 DEF AtLeast
          <6> QED
            BY <2>2, <3>3, <5>1, <5>5, <6>1 DEF AtLeast
        <5>6. CASE T[x] * n[d] # T[d] * n[x]
          BY <5>2, <5>4, <5>6 DEF AtLeast
        <5> QED
          BY <5>5, <5>6
      <4>2. \A d \in s : AtLeast(T, n, x, d)
        BY <2>3, <4>1
      <4> QED
        BY <2>1, <4>2
    <3> QED
      BY <3>5, <3>6, <3>7
  <2> QED
    BY <2>4, <2>5
<1>4. Nat \subseteq U
  <2> HIDE DEF U
  <2> QED
    BY <1>2, <1>3, Climbs
<1>5. Cardinality(S) \in U /\ S \in SUBSET S
  BY <1>1, <1>4
<1> QED
  BY <1>5

(* What is selected passed as often as the objective asks.                 *)
LEMMA SelectionCarries ==
    ASSUME NEW points, IsPoints(points), SelectProfile(points) # NoChoice
    PROVE  SelectProfile(points) \in Ladder /\ Carries(SelectProfile(points), points)
<1> DEFINE E(c) == EligibleRepetitionGroup(points, c)
           G == EligibleGroups(points)
           rates == [k \in DOMAIN points |-> points[k].rate]
           T == [c \in G |-> Total(points, c)]
           n == [c \in G |-> Cardinality(E(c))]
<1>1. G \subseteq Ladder /\ IsFiniteSet(G) /\ G \subseteq Nat /\ G # {}
  BY LadderAssumption, FS_Subset DEF EligibleGroups, SelectProfile
<1>2. \A c : E(c) \subseteq DOMAIN points /\ IsFiniteSet(E(c))
  <2>1. \A c : E(c) \subseteq DOMAIN points
    BY DEF EligibleRepetitionGroup, Passing
  <2> QED
    BY <2>1, FS_Subset DEF IsPoints
<1>3. \A c \in G : T[c] \in Nat /\ n[c] \in Nat \ {0}
  <2> SUFFICES ASSUME NEW c \in G PROVE T[c] \in Nat /\ n[c] \in Nat \ {0}
    OBVIOUS
  <2>1. \A k \in E(c) : rates[k] \in Nat
    BY <1>2 DEF IsPoints, Natural
  <2>2. SumFunctionOnSet(rates, E(c)) \in Nat
    <3> HIDE DEF rates, E
    <3> QED
      BY <1>2, <2>1, SumIsNatural
  <2>3. T[c] = SumFunctionOnSet(rates, E(c))
    BY DEF Total
  <2>4. E(c) # {}
    BY DEF EligibleGroups
  <2>5. Cardinality(E(c)) \in Nat \ {0}
    <3> HIDE DEF E
    <3> QED
    BY <1>2, <2>4, FS_CardinalityType, FS_EmptySet
  <2>6. n[c] = Cardinality(E(c))
    OBVIOUS
  <2> QED
    BY <2>2, <2>3, <2>5, <2>6
<1>4. SelectProfile(points) \in G
  <2>1. CASE pplan.objective = "stable"
    <3>1. Max(G) \in G
      <4> HIDE DEF G
      <4> QED
        BY <1>1, MaxIsLargest
    <3> QED
      BY <1>1, <2>1, <3>1 DEF SelectProfile
  <2>2. CASE pplan.objective # "stable"
    <3>1. PICK c \in G : \A d \in G : AtLeast(T, n, c, d)
      <4> HIDE DEF G, T, n
      <4> QED
        BY <1>1, <1>3, BestExists
    <3>2. \A d \in G : Beats(points, c, d)
      <4> SUFFICES ASSUME NEW d \in G PROVE Beats(points, c, d)
        OBVIOUS
      <4>1. AtLeast(T, n, c, d)
        BY <3>1
      <4>2. T[c] = Total(points, c) /\ T[d] = Total(points, d)
            /\ n[c] = Cardinality(EligibleRepetitionGroup(points, c))
            /\ n[d] = Cardinality(EligibleRepetitionGroup(points, d))
        BY <3>1
      <4> HIDE DEF G, T, n
      <4> QED
        BY <4>1, <4>2 DEF AtLeast, Beats
    <3>3. SelectProfile(points) = CHOOSE e \in G : \A d \in G : Beats(points, e, d)
      BY <1>1, <2>2 DEF SelectProfile
    <3> QED
      BY <3>1, <3>2, <3>3
  <2> QED
    BY <2>1, <2>2
<1> DEFINE c == SelectProfile(points)
           A == At(points, c)
           P == Passing(points) \cap A
<1>5. E(c) # {} /\ c \in Ladder
  BY <1>4 DEF EligibleGroups
<1>6. E(c) = P
  BY <1>5 DEF EligibleRepetitionGroup
<1>7. Cardinality(P) = Reps \/ (pplan.objective # "stable" /\ ~(Cardinality(A) > 1))
  BY <1>5 DEF EligibleRepetitionGroup
<1>8. P \subseteq A /\ IsFiniteSet(A) /\ IsFiniteSet(P)
  <2>1. P \subseteq A /\ A \subseteq DOMAIN points
    BY DEF At
  <2> HIDE DEF P, A
  <2> QED
    BY <2>1, FS_Subset DEF IsPoints
<1>9. P # {}
  BY <1>5, <1>6
<1> HIDE DEF c, A, P
<1>10. Cardinality(P) \in Nat \ {0} /\ Cardinality(A) \in Nat /\ Cardinality(P) <= Cardinality(A)
  BY <1>8, <1>9, FS_Subset, FS_CardinalityType, FS_EmptySet
<1>11. Cardinality(P) = Reps \/ (pplan.objective # "stable" /\ Cardinality(P) = 1)
  BY <1>7, <1>10
<1> QED
  BY <1>5, <1>11 DEF Carries, c, A, P

-----------------------------------------------------------------------------
(* Every step of an attempt preserves the invariant of profiling.          *)

(* Points with one more point are points.                                  *)
LEMMA PutKeepsPoints ==
    ASSUME NEW points, IsPoints(points), NEW k \in Ladder \X Nat, NEW v, Natural(v)
    PROVE  IsPoints(Put(points, k, v))
<1>1. /\ DOMAIN Put(points, k, v) = DOMAIN points \cup {k}
      /\ Put(points, k, v)[k] = v
      /\ \A x \in DOMAIN points : x # k => Put(points, k, v)[x] = points[x]
  BY DEF Put
<1>2. IsFiniteSet(DOMAIN points \cup {k})
  BY FS_AddElement DEF IsPoints
<1>3. Put(points, k, v) = [x \in DOMAIN Put(points, k, v) |-> Put(points, k, v)[x]]
  BY DEF Put
<1>4. \A x \in DOMAIN Put(points, k, v) : Natural(Put(points, k, v)[x])
  BY <1>1 DEF IsPoints
<1>5. DOMAIN Put(points, k, v) \subseteq Ladder \X Nat
  BY <1>1 DEF IsPoints
<1> QED
  BY <1>1, <1>2, <1>3, <1>4, <1>5 DEF IsPoints

(* No points are points.                                                   *)
LEMMA NoPointsArePoints == IsPoints(NoPoints) /\ DOMAIN NoPoints = {}
BY FS_EmptySet DEF IsPoints, NoPoints

JobRecord(j) ==
    j = [pc |-> j.pc, phase |-> j.phase, at |-> j.at, todo |-> j.todo,
         recovered |-> j.recovered, consumed |-> j.consumed, points |-> j.points,
         held |-> j.held, why |-> j.why]

Concurrencies(points) == {k[1] : k \in DOMAIN points}

(* The boundary is made of concurrencies that were measured.               *)
LEMMA BoundaryHolds ==
    ASSUME NEW j, JobRecord(j)
    PROVE  /\ JobRecord(Boundary(j)) /\ Boundary(j).pc = "boundary"
           /\ Boundary(j).recovered = j.recovered /\ Boundary(j).consumed = j.consumed
           /\ Boundary(j).points = j.points
           /\ Boundary(j).todo \subseteq Concurrencies(j.points)
<1>1. LastOf(Passed(j.points), 2) \subseteq Concurrencies(j.points)
  BY DEF LastOf, Passed, Passing, Concurrencies
<1> DEFINE b == Boundary(j)
           t == LastOf(Passed(j.points), 2)
<1>2. b = [j EXCEPT !.pc = "boundary", !.phase = "boundary", !.todo = t]
  BY DEF Boundary
<1>3. t \subseteq Concurrencies(j.points)
  BY <1>1
<1> HIDE DEF b, t
<1>4. JobRecord(b) /\ b.pc = "boundary" /\ b.recovered = j.recovered /\ b.consumed = j.consumed
      /\ b.points = j.points /\ b.todo \subseteq Concurrencies(j.points)
  BY <1>2, <1>3 DEF JobRecord
<1> QED
  BY <1>4 DEF b

(* How an attempt goes on after a point.                                   *)
LEMMA ContinueHolds ==
    ASSUME NEW j, JobRecord(j), j.at \in Ladder \X Nat, j.todo \subseteq Concurrencies(j.points)
    PROVE  /\ JobRecord(Continue(j)) /\ Continue(j).pc \in {"boundary", "smoke", "ladder"}
           /\ Continue(j).recovered = j.recovered /\ Continue(j).consumed = j.consumed
           /\ Continue(j).points = j.points
           /\ Continue(j).todo \subseteq Concurrencies(j.points)
           /\ Continue(j).pc \in Working => Continue(j).at \in Ladder \X Nat
<1> DEFINE c == j.at[1]
           passes == PointPassesObjective(j.points[j.at])
<1>1. CASE j.phase = "boundary"
  <2>1. Continue(j) = [j EXCEPT !.pc = "boundary", !.todo = IF passes THEN @ ELSE @ \ {c}]
    BY <1>1 DEF Continue
  <2> HIDE DEF c, passes
  <2> QED
    BY <2>1 DEF JobRecord, Working
<1>2. CASE j.phase # "boundary" /\ ~passes /\ j.at[2] = 1
  <2>1. Continue(j) = [j EXCEPT !.pc = "smoke"]
    BY <1>2 DEF Continue
  <2> HIDE DEF c, passes
  <2> QED
    BY <2>1 DEF JobRecord
<1>3. CASE /\ j.phase # "boundary" /\ ~(~passes /\ j.at[2] = 1)
           /\ ~passes \/ Flattened(j.points) \/ Above(c) = {}
  <2>1. Continue(j) = Boundary(j)
    BY <1>3 DEF Continue
  <2> QED
    BY <2>1, BoundaryHolds DEF Working
<1>4. CASE /\ j.phase # "boundary" /\ ~(~passes /\ j.at[2] = 1)
           /\ ~(~passes \/ Flattened(j.points) \/ Above(c) = {})
  <2>1. Continue(j) = [j EXCEPT !.pc = "ladder", !.at = <<Min(Above(c)), 1>>]
    BY <1>4 DEF Continue
  <2>2. Above(c) \subseteq Ladder /\ Above(c) \subseteq Nat /\ Above(c) # {}
    BY <1>4, LadderAssumption DEF Above
  <2>3. Min(Above(c)) \in Ladder
    <3> HIDE DEF c
    <3> QED
      BY <2>2, MinIsSmallest
  <2> DEFINE m == Min(Above(c))
             b == Continue(j)
  <2>4. b = [pc |-> "ladder", phase |-> j.phase, at |-> <<m, 1>>, todo |-> j.todo,
             recovered |-> j.recovered, consumed |-> j.consumed, points |-> j.points,
             held |-> j.held, why |-> j.why]
    BY <2>1 DEF JobRecord
  <2>5. m \in Ladder
    BY <2>3
  <2> HIDE DEF c, passes, m, b
  <2>6. JobRecord(b) /\ b.pc = "ladder" /\ b.recovered = j.recovered /\ b.consumed = j.consumed
        /\ b.points = j.points /\ b.todo = j.todo /\ b.at \in Ladder \X Nat
    BY <2>4, <2>5 DEF JobRecord
  <2> QED
    BY <2>6 DEF b
<1> QED
  BY <1>1, <1>2, <1>3, <1>4

(* The smallest concurrency.                                               *)
LEMMA LadderStarts == Min(Ladder) \in Ladder
<1>1. Ladder \subseteq Nat /\ Ladder # {}
  BY LadderAssumption
<1> QED
  BY <1>1, MinIsSmallest

(* A first attempt makes the prefix, or is killed while it does.           *)
LEMMA CreateKeeps == ProfileInv /\ CreateDestination => ProfileInv'
<1> SUFFICES ASSUME ProfileInv, CreateDestination PROVE ProfileInv'
  OBVIOUS
<1>1. job = Idle /\ disk.points = NoPoints /\ disk.profile = NoProfile /\ disk.marker = "none"
  BY DEF ProfileInv, CreateDestination, StagesHold
<1>2. disk' = [disk EXCEPT !.stage = disk'.stage] /\ disk'.stage \in {"open", "made", "planned"}
      /\ ((job' = [Idle EXCEPT !.pc = "begin"] /\ disk'.stage = "open") \/ job' = job)
  BY DEF CreateDestination, ProfileInv, DiskShape
<1>3. DiskShape' /\ disk'.points = NoPoints /\ disk'.profile = NoProfile /\ disk'.marker = "none"
  BY <1>1, <1>2 DEF ProfileInv, DiskShape
<1>4. JobShape' /\ job'.pc \in {"idle", "begin"} /\ job'.points = NoPoints /\ job'.recovered = NoPoints
      /\ job'.todo = {} /\ job'.consumed = {} /\ (job'.pc = "idle" => job' = Idle)
      /\ (job'.pc = "begin" => disk'.stage = "open")
  BY <1>1, <1>2 DEF JobShape, Idle
<1> QED
  BY <1>2, <1>3, <1>4, NoPointsArePoints
     DEF ProfileInv, StagesHold, RecoveredHolds, PositionHolds, MeasuredHolds, SelectionHolds,
         Measuring, Working

(* A later attempt takes up the points or the selection.                   *)
LEMMA RecoverKeeps == ProfileInv /\ RecoverDestination => ProfileInv'
<1> SUFFICES ASSUME ProfileInv, RecoverDestination PROVE ProfileInv'
  OBVIOUS
<1>1. job = Idle /\ disk' = disk /\ pplan' = pplan /\ disk.stage = "open" /\ disk.marker = "none"
  BY DEF ProfileInv, RecoverDestination, StagesHold
<1>2. \/ disk.profile = NoProfile /\ job' = [Idle EXCEPT !.pc = "begin", !.recovered = disk.points]
      \/ disk.profile # NoProfile /\ job' = [Idle EXCEPT !.pc = "recheck"]
  BY DEF RecoverDestination
<1>3. /\ JobShape' /\ job'.points = NoPoints /\ job'.todo = {} /\ job'.consumed = {}
      /\ \/ disk.profile = NoProfile /\ job'.pc = "begin" /\ job'.recovered = disk.points
         \/ disk.profile # NoProfile /\ job'.pc = "recheck" /\ job'.recovered = NoPoints
  BY <1>2 DEF JobShape, Idle
<1>4. \A c : Carries(c, disk.points)' = Carries(c, disk.points)
  BY <1>1 DEF Carries, Passing, At, PointPassesObjective
<1>5. DiskShape' /\ IsPoints(disk.points)' /\ IsPoints(job.points)' /\ StagesHold'
  BY <1>1, <1>3, NoPointsArePoints DEF ProfileInv, DiskShape, StagesHold
<1>6. RecoveredHolds' /\ PositionHolds' /\ MeasuredHolds'
  BY <1>1, <1>3, NoPointsArePoints
     DEF RecoveredHolds, PositionHolds, MeasuredHolds, Measuring, Working
<1>7. SelectionHolds'
  BY <1>1, <1>3, <1>4 DEF ProfileInv, SelectionHolds
<1> QED
  BY <1>3, <1>5, <1>6, <1>7 DEF ProfileInv

(* An attempt ends; the points and the selection stay.                     *)
LEMMA EndingKeeps ==
    ASSUME ProfileInv, pplan' = pplan, job' = Idle, job.pc # "idle",
           NEW f, NEW m \in {"none", "_SELECTED", "_FAILED"},
           disk' = [disk EXCEPT !.failure = f, !.marker = m],
           m = "_SELECTED" => disk.profile # NoProfile
    PROVE  ProfileInv'
<1>1. disk.stage = "open"
  BY DEF ProfileInv, StagesHold
<1>2. /\ DiskShape' /\ disk'.points = disk.points /\ disk'.profile = disk.profile
      /\ disk'.stage = "open" /\ disk'.marker = m
  BY <1>1 DEF ProfileInv, DiskShape
<1>3. /\ JobShape' /\ job'.points = NoPoints /\ job'.todo = {} /\ job'.consumed = {}
      /\ job'.pc = "idle" /\ job'.recovered = NoPoints
  BY DEF JobShape, Idle
<1>4. \A c : Carries(c, disk.points)' = Carries(c, disk.points)
  BY <1>2 DEF Carries, Passing, At, PointPassesObjective
<1>5. IsPoints(disk.points)' /\ IsPoints(job.points)' /\ StagesHold'
  BY <1>2, <1>3, NoPointsArePoints DEF ProfileInv, StagesHold
<1>6. RecoveredHolds' /\ PositionHolds' /\ MeasuredHolds'
  BY <1>2, <1>3, NoPointsArePoints
     DEF RecoveredHolds, PositionHolds, MeasuredHolds, Measuring, Working
<1>7. SelectionHolds'
  BY <1>2, <1>3, <1>4 DEF ProfileInv, SelectionHolds
<1> QED
  BY <1>2, <1>3, <1>5, <1>6, <1>7 DEF ProfileInv

(* An attempt gives up, or closes its transport; nothing is written.       *)
LEMMA LeavingKeeps ==
    ASSUME ProfileInv, pplan' = pplan, disk' = disk, job.pc # "idle",
           NEW p \in {"closing", "failing", "select", "finalize"}, NEW w,
           job' = [job EXCEPT !.pc = p, !.why = w],
           p = "select" \/ (p = "closing" /\ w = "measured") =>
              disk.profile = NoProfile /\ job.points = disk.points,
           p = "finalize" => disk.profile # NoProfile
    PROVE  ProfileInv'
<1>1. /\ JobShape' /\ job'.pc = p /\ job'.why = w /\ job'.points = job.points
      /\ job'.recovered = job.recovered /\ job'.todo = job.todo
  BY DEF ProfileInv, JobShape
<1>2. \A c : Carries(c, disk.points)' = Carries(c, disk.points)
  BY DEF Carries, Passing, At, PointPassesObjective
<1>3. DiskShape' /\ IsPoints(disk.points)' /\ IsPoints(job.points)' /\ StagesHold'
  BY <1>1 DEF ProfileInv, DiskShape, StagesHold
<1>4. RecoveredHolds' /\ PositionHolds' /\ MeasuredHolds'
  BY <1>1 DEF ProfileInv, RecoveredHolds, PositionHolds, MeasuredHolds, Measuring, Working
<1>5. SelectionHolds'
  BY <1>1, <1>2 DEF ProfileInv, SelectionHolds
<1> QED
  BY <1>1, <1>3, <1>4, <1>5 DEF ProfileInv

(* A step of the measurement.                                              *)
LEMMA MeasuringKeeps ==
    ASSUME ProfileInv, pplan' = pplan, job.pc \in Measuring \cup {"begin"}, job'.pc \in Measuring,
           JobShape', DiskShape', disk'.stage = disk.stage, disk'.profile = disk.profile,
           disk'.marker = disk.marker, IsPoints(disk.points)', IsPoints(job.points)',
           RecoveredHolds', PositionHolds'
    PROVE  ProfileInv'
<1>1. disk.stage = "open" /\ disk.marker = "none" /\ disk.profile = NoProfile
  BY DEF ProfileInv, StagesHold, RecoveredHolds, Measuring
<1>2. StagesHold' /\ MeasuredHolds' /\ SelectionHolds'
  BY <1>1 DEF StagesHold, MeasuredHolds, SelectionHolds, Measuring
<1> QED
  BY <1>2 DEF ProfileInv

(* The measurement writes a point and goes on with it, or reuses one.      *)
LEMMA PointKeeps ==
    ASSUME ProfileInv, pplan' = pplan, expired' = expired, job.pc \in Measuring, job'.pc \in Measuring,
           NEW k \in Ladder \X Nat, NEW v, Natural(v),
           JobShape', job'.recovered = job.recovered,
           job'.points = Put(job.points, k, v), job'.consumed \subseteq job.consumed \cup {k},
           \/ disk' = [disk EXCEPT !.points = Put(@, k, v)]
           \/ disk' = disk /\ k \in DOMAIN job.recovered /\ v = disk.points[k],
           k \in DOMAIN job.recovered /\ v # disk.points[k] => expired /\ job'.pc = "boundary",
           job.pc = "boundary" /\ expired => job'.pc = "boundary",
           PositionHolds'
    PROVE  ProfileInv'
<1> DEFINE q == Put(disk.points, k, v)
<1>0. disk' = [disk EXCEPT !.points = q] \/ (disk' = disk /\ k \in DOMAIN job.recovered /\ v = disk.points[k])
  OBVIOUS
<1>1. /\ DiskShape' /\ disk'.stage = disk.stage /\ disk'.profile = disk.profile
      /\ disk'.marker = disk.marker
      /\ disk'.points = q \/ (disk'.points = disk.points /\ k \in DOMAIN job.recovered /\ v = disk.points[k])
  <2> HIDE DEF q
  <2> QED
    BY <1>0 DEF ProfileInv, DiskShape
<1>2. IsPoints(job.points)' /\ IsPoints(disk.points)'
  BY <1>1, PutKeepsPoints DEF ProfileInv
<1>3. /\ DOMAIN disk.points = DOMAIN job.recovered \cup DOMAIN job.points
      /\ \A x \in DOMAIN job.points : disk.points[x] = job.points[x]
      /\ job.consumed \subseteq DOMAIN job.points
      /\ \/ \A x \in DOMAIN job.recovered : disk.points[x] = job.recovered[x]
         \/ expired /\ job.pc = "boundary"
      /\ disk.profile = NoProfile
  BY DEF ProfileInv, RecoveredHolds
<1>4. /\ DOMAIN job'.points = DOMAIN job.points \cup {k} /\ job'.points[k] = v
      /\ \A x \in DOMAIN job.points : x # k => job'.points[x] = job.points[x]
  BY DEF Put
<1>5. /\ DOMAIN disk'.points = DOMAIN disk.points \cup {k} /\ disk'.points[k] = v
      /\ \A x \in DOMAIN disk.points : x # k => disk'.points[x] = disk.points[x]
  <2>1. CASE disk'.points = q
    BY <2>1 DEF Put
  <2>2. CASE disk'.points = disk.points /\ k \in DOMAIN job.recovered /\ v = disk.points[k]
    BY <1>3, <2>2
  <2> QED
    BY <1>1, <2>1, <2>2
<1>6. \/ \A x \in DOMAIN job'.recovered : disk'.points[x] = job'.recovered[x]
      \/ expired' /\ job'.pc = "boundary"
  <2>1. CASE \A x \in DOMAIN job.recovered : disk.points[x] = job.recovered[x]
    <3>1. CASE k \in DOMAIN job.recovered /\ v # disk.points[k]
      BY <3>1
    <3>2. CASE ~(k \in DOMAIN job.recovered /\ v # disk.points[k])
      BY <1>3, <1>5, <2>1, <3>2
    <3> QED
      BY <3>1, <3>2
  <2>2. CASE expired /\ job.pc = "boundary"
    BY <2>2
  <2> QED
    BY <1>3, <2>1, <2>2
<1>7. RecoveredHolds'
  BY <1>1, <1>3, <1>4, <1>5, <1>6 DEF RecoveredHolds
<1> QED
  BY <1>1, <1>2, <1>7, MeasuringKeeps

(* An attempt starts at the bottom of the ladder, or gives up.             *)
LEMMA BeginKeeps == ProfileInv /\ Begin => ProfileInv'
<1> SUFFICES ASSUME ProfileInv, Begin PROVE ProfileInv'
  OBVIOUS
<1>1. disk' = disk /\ pplan' = pplan /\ expired' = expired /\ job.pc = "begin"
  BY DEF Begin
<1>2. CASE job' = [job EXCEPT !.pc = "failing", !.why = "time"]
  BY <1>1, <1>2, LeavingKeeps
<1>3. CASE job' = Raise("transport")
  BY <1>1, <1>3, LeavingKeeps DEF Raise
<1>4. CASE job' = [job EXCEPT !.pc = "ladder", !.at = <<Min(Ladder), 1>>]
  <2> DEFINE m == Min(Ladder)
  <2>1. m \in Ladder /\ job' = [job EXCEPT !.pc = "ladder", !.at = <<m, 1>>]
    BY <1>4, LadderStarts
  <2> HIDE DEF m
  <2>2. /\ JobShape' /\ job'.pc = "ladder" /\ job'.at = <<m, 1>> /\ job'.points = job.points
        /\ job'.recovered = job.recovered /\ job'.todo = job.todo /\ job'.consumed = job.consumed
    BY <2>1 DEF ProfileInv, JobShape
  <2>3. RecoveredHolds' /\ PositionHolds'
    BY <1>1, <2>1, <2>2 DEF ProfileInv, RecoveredHolds, PositionHolds, Measuring, Working
  <2> QED
    BY <1>1, <2>2, <2>3, MeasuringKeeps DEF ProfileInv, DiskShape, Measuring
<1> QED
  BY <1>2, <1>3, <1>4 DEF Begin

(* The ladder skips a point when the time is over.                         *)
LEMMA LadderKeeps == ProfileInv /\ LadderStep => ProfileInv'
<1> SUFFICES ASSUME ProfileInv, LadderStep PROVE ProfileInv'
  OBVIOUS
<1>1. pplan' = pplan /\ expired' = expired /\ job.pc = "ladder" /\ job.at \in Ladder \X Nat
  BY DEF LadderStep, ProfileInv, PositionHolds, Working
<1>2. CASE ~expired
  <2>1. disk' = disk /\ job' = [job EXCEPT !.pc = "obtain"]
    BY <1>2 DEF LadderStep
  <2>2. /\ JobShape' /\ job'.pc = "obtain" /\ job'.at = job.at /\ job'.points = job.points
        /\ job'.recovered = job.recovered /\ job'.todo = job.todo /\ job'.consumed = job.consumed
    BY <2>1 DEF ProfileInv, JobShape
  <2>3. RecoveredHolds' /\ PositionHolds'
    BY <1>1, <2>1, <2>2 DEF ProfileInv, RecoveredHolds, PositionHolds, Measuring, Working
  <2> QED
    BY <1>1, <2>1, <2>2, <2>3, MeasuringKeeps DEF ProfileInv, DiskShape, Measuring
<1>3. CASE expired
  <2> DEFINE p == Put(job.points, job.at, SkippedPoint)
             j == [job EXCEPT !.points = p]
  <2>1. disk' = [disk EXCEPT !.points = Put(@, job.at, SkippedPoint)] /\ job' = Boundary(j)
    BY <1>3 DEF LadderStep, Skip
  <2> HIDE DEF p
  <2>2. /\ JobRecord(j) /\ j.points = p /\ j.recovered = job.recovered /\ j.consumed = job.consumed
    BY DEF JobRecord, ProfileInv, JobShape
  <2> HIDE DEF j
  <2>3. /\ JobRecord(job') /\ job'.pc = "boundary" /\ job'.recovered = job.recovered
        /\ job'.consumed = job.consumed /\ job'.points = p /\ job'.todo \subseteq Concurrencies(p)
    BY <2>1, <2>2, BoundaryHolds
  <2>4. JobShape' /\ PositionHolds'
    BY <2>3 DEF JobRecord, JobShape, PositionHolds, Concurrencies, Working
  <2>5. Natural(SkippedPoint)
    BY DEF Natural, SkippedPoint, Point
  <2>6. job'.points = Put(job.points, job.at, SkippedPoint)
    BY <2>3 DEF p
  <2>7. job.pc \in Measuring /\ job'.pc \in Measuring
    BY <1>1, <2>3 DEF Measuring
  <2> QED
    BY <1>1, <1>3, <2>1, <2>3, <2>4, <2>5, <2>6, <2>7, PointKeeps
<1> QED
  BY <1>2, <1>3

(* A recovered point is taken over as the Bucket holds it.                 *)
LEMMA ReuseKeeps == ProfileInv /\ Reuse => ProfileInv'
<1> SUFFICES ASSUME ProfileInv, Reuse PROVE ProfileInv'
  OBVIOUS
<1>1. pplan' = pplan /\ expired' = expired /\ disk' = disk /\ job.pc = "obtain"
      /\ job.at \in Ladder \X Nat /\ job.at \in DOMAIN job.recovered
  BY DEF Reuse, ProfileInv, PositionHolds, Working
<1> DEFINE v == disk.points[job.at]
           p == Put(job.points, job.at, v)
           c == job.consumed \cup {job.at}
           j == [job EXCEPT !.consumed = c, !.points = p]
<1>2. job.recovered[job.at] = v /\ job.at \in DOMAIN disk.points
  BY <1>1 DEF ProfileInv, RecoveredHolds, Measuring
<1>3. job' = Continue(j)
  BY <1>2 DEF Reuse
<1>4. Natural(v)
  BY <1>2 DEF ProfileInv, IsPoints
<1>5. job.todo \subseteq Concurrencies(p)
  <2>1. job.todo \subseteq Concurrencies(job.points)
    BY DEF ProfileInv, PositionHolds, Concurrencies
  <2>2. DOMAIN job.points \subseteq DOMAIN p
    BY DEF Put
  <2> QED
    BY <2>1, <2>2 DEF Concurrencies
<1> HIDE DEF p, v, c
<1>6. /\ JobRecord(j) /\ j.points = p /\ j.recovered = job.recovered /\ j.consumed = c
      /\ j.at = job.at /\ j.todo = job.todo
  <2>1. JobShape /\ j = [job EXCEPT !.consumed = c, !.points = p]
    BY DEF ProfileInv
  <2> HIDE DEF j
  <2> QED
    BY <2>1 DEF JobRecord, JobShape
<1> HIDE DEF j
<1>7. /\ JobRecord(job') /\ job'.pc \in {"boundary", "smoke", "ladder"}
      /\ job'.recovered = job.recovered /\ job'.consumed = c /\ job'.points = p
      /\ job'.todo \subseteq Concurrencies(p) /\ (job'.pc \in Working => job'.at \in Ladder \X Nat)
  BY <1>1, <1>3, <1>5, <1>6, ContinueHolds
<1>8. JobShape' /\ PositionHolds'
  BY <1>7 DEF JobRecord, JobShape, PositionHolds, Concurrencies
<1>9. job'.points = Put(job.points, job.at, v) /\ job'.consumed \subseteq job.consumed \cup {job.at}
      /\ v = disk.points[job.at]
  BY <1>7 DEF p, c, v
<1>10. job.pc \in Measuring /\ job'.pc \in Measuring
  BY <1>1, <1>7 DEF Measuring
<1> QED
  BY <1>1, <1>4, <1>7, <1>8, <1>9, <1>10, PointKeeps

(* Every point that is staged has a rate.                                  *)
LEMMA StagedAreNatural ==
    ASSUME NEW k, NEW p \in StagedPoints(k)
    PROVE  Natural(p)
<1>1. PICK how \in {"bundle", "error", "exit", "no-bundle"},
           calls \in {"exact", "unassigned", "twice"},
           n \in 0..Observations, rate \in RatesAt(k) : p = StagedPoint(how, calls, n, rate)
  BY DEF StagedPoints
<1>2. rate \in Nat
  BY LadderAssumption DEF RatesAt
<1> QED
  BY <1>1, <1>2 DEF StagedPoint, SummarizePoint, Point, Natural

(* A point is measured and its evidence archived, or the attempt gives up. *)
LEMMA RunPointKeeps == ProfileInv /\ RunPoint => ProfileInv'
<1> SUFFICES ASSUME ProfileInv, RunPoint PROVE ProfileInv'
  OBVIOUS
<1>1. pplan' = pplan /\ expired' = expired /\ job.pc = "obtain" /\ job.at \in Ladder \X Nat
      /\ job.at \notin DOMAIN job.recovered
  BY DEF RunPoint, ProfileInv, PositionHolds, Working
<1>2. CASE disk' = disk /\ \E w \in {"time", "exists", "prepare"} : job' = Raise(w)
  BY <1>1, <1>2, LeavingKeeps DEF Raise
<1>3. CASE \E p \in StagedPoints(job.at) : /\ job' = [job EXCEPT !.pc = "archived", !.held = p]
                                           /\ disk' = [disk EXCEPT !.archived = @ \cup {job.at}]
  <2>1. PICK p \in StagedPoints(job.at) : /\ job' = [job EXCEPT !.pc = "archived", !.held = p]
                                          /\ disk' = [disk EXCEPT !.archived = @ \cup {job.at}]
    BY <1>3
  <2>2. Natural(p)
    BY StagedAreNatural
  <2>3. /\ JobShape' /\ job'.pc = "archived" /\ job'.at = job.at /\ job'.points = job.points
        /\ job'.recovered = job.recovered /\ job'.todo = job.todo /\ job'.consumed = job.consumed
        /\ job'.held = p
    BY <2>1 DEF ProfileInv, JobShape
  <2>4. DiskShape' /\ disk'.points = disk.points /\ disk'.profile = disk.profile
        /\ disk'.stage = disk.stage /\ disk'.marker = disk.marker
    BY <2>1 DEF ProfileInv, DiskShape
  <2>5. RecoveredHolds' /\ PositionHolds'
    BY <1>1, <2>2, <2>3, <2>4 DEF ProfileInv, RecoveredHolds, PositionHolds, Measuring, Working
  <2> QED
    BY <1>1, <2>3, <2>4, <2>5, MeasuringKeeps DEF ProfileInv, Measuring
<1> QED
  BY <1>2, <1>3 DEF RunPoint

(* The point is written.                                                   *)
LEMMA WritePointKeeps == ProfileInv /\ WritePoint => ProfileInv'
<1> SUFFICES ASSUME ProfileInv, WritePoint PROVE ProfileInv'
  OBVIOUS
<1>1. pplan' = pplan /\ expired' = expired /\ job.pc = "archived" /\ job.at \in Ladder \X Nat
      /\ job.at \notin DOMAIN job.recovered /\ Natural(job.held)
      /\ disk' = [disk EXCEPT !.points = Put(@, job.at, job.held)]
  BY DEF WritePoint, ProfileInv, PositionHolds, Working
<1> DEFINE p == Put(job.points, job.at, job.held)
           j == [job EXCEPT !.points = p, !.held = 0]
<1>3. job' = Continue(j)
  BY DEF WritePoint
<1>5. job.todo \subseteq Concurrencies(p)
  <2>1. job.todo \subseteq Concurrencies(job.points)
    BY DEF ProfileInv, PositionHolds, Concurrencies
  <2>2. DOMAIN job.points \subseteq DOMAIN p
    BY DEF Put
  <2> QED
    BY <2>1, <2>2 DEF Concurrencies
<1> HIDE DEF p
<1>6. /\ JobRecord(j) /\ j.points = p /\ j.recovered = job.recovered /\ j.consumed = job.consumed
      /\ j.at = job.at /\ j.todo = job.todo
  <2>1. JobShape /\ j = [job EXCEPT !.points = p, !.held = 0]
    BY DEF ProfileInv
  <2> HIDE DEF j
  <2> QED
    BY <2>1 DEF JobRecord, JobShape
<1> HIDE DEF j
<1>7. /\ JobRecord(job') /\ job'.pc \in {"boundary", "smoke", "ladder"}
      /\ job'.recovered = job.recovered /\ job'.consumed = job.consumed /\ job'.points = p
      /\ job'.todo \subseteq Concurrencies(p) /\ (job'.pc \in Working => job'.at \in Ladder \X Nat)
  BY <1>1, <1>3, <1>5, <1>6, ContinueHolds
<1>8. JobShape' /\ PositionHolds'
  BY <1>7 DEF JobRecord, JobShape, PositionHolds, Concurrencies
<1>9. job'.points = Put(job.points, job.at, job.held)
  BY <1>7 DEF p
<1>10. job.pc \in Measuring /\ job'.pc \in Measuring
  BY <1>1, <1>7 DEF Measuring
<1> QED
  BY <1>1, <1>7, <1>8, <1>9, <1>10, PointKeeps

(* A good smoke check leads to the repetition of the point.                *)
LEMMA SmokeKeeps == ProfileInv /\ VerifySmoke => ProfileInv'
<1> SUFFICES ASSUME ProfileInv, VerifySmoke PROVE ProfileInv'
  OBVIOUS
<1>1. disk' = disk /\ pplan' = pplan /\ expired' = expired /\ job.pc = "smoke" /\ job.at \in Ladder \X Nat
  BY DEF VerifySmoke, ProfileInv, PositionHolds, Working
<1>2. CASE \E w \in {"time", "smoke"} : job' = Raise(w)
  BY <1>1, <1>2, LeavingKeeps DEF Raise
<1>3. CASE job' = [job EXCEPT !.pc = "obtain", !.at = <<@[1], 2>>]
  <2> DEFINE a == <<job.at[1], 2>>
  <2>1. a \in Ladder \X Nat /\ job' = [job EXCEPT !.pc = "obtain", !.at = a]
    BY <1>1, <1>3
  <2> HIDE DEF a
  <2>2. /\ JobShape' /\ job'.pc = "obtain" /\ job'.at = a /\ job'.points = job.points
        /\ job'.recovered = job.recovered /\ job'.todo = job.todo /\ job'.consumed = job.consumed
    BY <2>1 DEF ProfileInv, JobShape
  <2>3. RecoveredHolds' /\ PositionHolds'
    BY <1>1, <2>1, <2>2 DEF ProfileInv, RecoveredHolds, PositionHolds, Measuring, Working
  <2> QED
    BY <1>1, <2>2, <2>3, MeasuringKeeps DEF ProfileInv, DiskShape, Measuring
<1> QED
  BY <1>2, <1>3 DEF VerifySmoke

(* The next repetition of a concurrency that was measured.                 *)
LEMMA NextRepHolds ==
    ASSUME NEW points, IsPoints(points), NEW c \in Concurrencies(points)
    PROVE  NextRep(points, c) \in Ladder \X Nat
<1> DEFINE A == At(points, c)
           R == {k[2] : k \in A}
<1>1. A \subseteq DOMAIN points /\ A # {} /\ DOMAIN points \subseteq Ladder \X Nat
  BY DEF At, Concurrencies, IsPoints
<1>2. c \in Ladder
  BY DEF Concurrencies, IsPoints
<1>3. IsFiniteSet(A)
  <2> HIDE DEF A
  <2> QED
    BY <1>1, FS_Subset DEF IsPoints
<1>4. IsFiniteSet(R)
  <2> DEFINE f == [k \in A |-> k[2]]
  <2>1. f \in Surjection(A, R)
    BY DEF Surjection
  <2> HIDE DEF f, A, R
  <2> QED
    BY <1>3, <2>1, FS_Surjection
<1>5. R \subseteq Nat /\ R # {}
  BY <1>1
<1>6. Max(R) \in Nat
  <2> HIDE DEF R
  <2> QED
    BY <1>4, <1>5, MaxIsLargest
<1> QED
  BY <1>2, <1>6 DEF NextRep

(* A boundary concurrency is repeated, skipped, or done with.              *)
LEMMA BoundaryKeeps == ProfileInv /\ BoundaryStep => ProfileInv'
<1> SUFFICES ASSUME ProfileInv, BoundaryStep PROVE ProfileInv'
  OBVIOUS
<1> DEFINE c == Min(job.todo)
           k == NextRep(job.points, c)
           t == job.todo \ {c}
<1>1. pplan' = pplan /\ expired' = expired /\ job.pc = "boundary"
  BY DEF BoundaryStep
<1>2. job.todo \subseteq Concurrencies(job.points) /\ job.todo # {} /\ job.todo \subseteq Nat
      /\ IsPoints(job.points)
  <2>1. job.todo \subseteq Concurrencies(job.points) /\ job.todo # {} /\ IsPoints(job.points)
    BY DEF BoundaryStep, ProfileInv, PositionHolds, Concurrencies
  <2>2. Concurrencies(job.points) \subseteq Ladder
    BY <2>1 DEF IsPoints, Concurrencies
  <2> QED
    BY <2>1, <2>2, LadderAssumption
<1>3. c \in Concurrencies(job.points)
  BY <1>2, MinIsSmallest
<1>4. k \in Ladder \X Nat
  BY <1>2, <1>3, NextRepHolds
<1>5. \/ job' = [job EXCEPT !.todo = t] /\ disk' = disk
      \/ /\ expired
         /\ disk' = [disk EXCEPT !.points = Put(@, k, SkippedPoint)]
         /\ job' = [job EXCEPT !.todo = t, !.points = Put(@, k, SkippedPoint)]
      \/ job' = [job EXCEPT !.pc = "obtain", !.at = k] /\ disk' = disk /\ ~expired
  <2>1. CASE Enough(job.points, c)
    BY <2>1 DEF BoundaryStep
  <2>2. CASE ~Enough(job.points, c) /\ expired
    BY <2>2 DEF BoundaryStep, Skip
  <2>3. CASE ~Enough(job.points, c) /\ ~expired
    BY <2>3 DEF BoundaryStep
  <2> QED
    BY <2>1, <2>2, <2>3
<1>6. t \subseteq job.todo
  OBVIOUS
<1> HIDE DEF c, k, t
<1>7. CASE job' = [job EXCEPT !.todo = t] /\ disk' = disk
  <2>1. /\ JobShape' /\ job'.pc = "boundary" /\ job'.points = job.points
        /\ job'.recovered = job.recovered /\ job'.todo = t /\ job'.consumed = job.consumed
    BY <1>1, <1>7 DEF ProfileInv, JobShape
  <2>2. RecoveredHolds' /\ PositionHolds'
    BY <1>1, <1>6, <1>7, <2>1 DEF ProfileInv, RecoveredHolds, PositionHolds, Measuring, Working
  <2> QED
    BY <1>1, <1>7, <2>1, <2>2, MeasuringKeeps DEF ProfileInv, DiskShape, Measuring
<1>8. CASE /\ expired
           /\ disk' = [disk EXCEPT !.points = Put(@, k, SkippedPoint)]
           /\ job' = [job EXCEPT !.todo = t, !.points = Put(@, k, SkippedPoint)]
  <2> DEFINE p == Put(job.points, k, SkippedPoint)
  <2>1. job' = [job EXCEPT !.todo = t, !.points = p]
    BY <1>8
  <2>2. t \subseteq Concurrencies(p)
    <3>1. DOMAIN job.points \subseteq DOMAIN p
      BY DEF Put
    <3> QED
      BY <1>2, <1>6, <3>1 DEF Concurrencies
  <2> HIDE DEF p
  <2>3. /\ JobShape' /\ job'.pc = "boundary" /\ job'.points = p
        /\ job'.recovered = job.recovered /\ job'.todo = t /\ job'.consumed = job.consumed
    BY <1>1, <2>1 DEF ProfileInv, JobShape
  <2>4. PositionHolds'
    BY <2>2, <2>3 DEF PositionHolds, Concurrencies, Working
  <2>5. Natural(SkippedPoint)
    BY DEF Natural, SkippedPoint, Point
  <2>6. job'.points = Put(job.points, k, SkippedPoint)
    BY <2>3 DEF p
  <2>7. job.pc \in Measuring /\ job'.pc \in Measuring
    BY <1>1, <2>3 DEF Measuring
  <2> QED
    BY <1>1, <1>4, <1>8, <2>3, <2>4, <2>5, <2>6, <2>7, PointKeeps
<1>9. CASE job' = [job EXCEPT !.pc = "obtain", !.at = k] /\ disk' = disk /\ ~expired
  <2>1. /\ JobShape' /\ job'.pc = "obtain" /\ job'.points = job.points /\ job'.at = k
        /\ job'.recovered = job.recovered /\ job'.todo = job.todo /\ job'.consumed = job.consumed
    BY <1>1, <1>9 DEF ProfileInv, JobShape
  <2>2. RecoveredHolds' /\ PositionHolds'
    BY <1>1, <1>4, <1>9, <2>1 DEF ProfileInv, RecoveredHolds, PositionHolds, Measuring, Working
  <2> QED
    BY <1>1, <1>9, <2>1, <2>2, MeasuringKeeps DEF ProfileInv, DiskShape, Measuring
<1> QED
  BY <1>5, <1>7, <1>8, <1>9

(* The measurement ends with the points of the Bucket, or is refused.      *)
LEMMA LadderEndsKeeps == ProfileInv /\ LadderEnds => ProfileInv'
<1> SUFFICES ASSUME ProfileInv, LadderEnds PROVE ProfileInv'
  OBVIOUS
<1>1. disk' = disk /\ pplan' = pplan /\ job.pc = "boundary"
  BY DEF LadderEnds
<1>2. CASE DOMAIN job.recovered \subseteq job.consumed
  <2>1. job' = [job EXCEPT !.pc = "closing", !.why = "measured"]
    BY <1>2 DEF LadderEnds
  <2>2. /\ disk.profile = NoProfile /\ job.consumed \subseteq DOMAIN job.points
        /\ DOMAIN disk.points = DOMAIN job.recovered \cup DOMAIN job.points
        /\ \A k \in DOMAIN job.points : disk.points[k] = job.points[k]
    BY <1>1 DEF ProfileInv, RecoveredHolds, Measuring
  <2>3. DOMAIN disk.points = DOMAIN job.points
    BY <1>2, <2>2
  <2>4. job.points = [k \in DOMAIN job.points |-> job.points[k]]
        /\ disk.points = [k \in DOMAIN disk.points |-> disk.points[k]]
    BY DEF ProfileInv, IsPoints
  <2>5. job.points = disk.points
    BY <2>2, <2>3, <2>4
  <2> QED
    BY <1>1, <2>1, <2>2, <2>5, LeavingKeeps
<1>3. CASE ~(DOMAIN job.recovered \subseteq job.consumed)
  <2>1. job' = [job EXCEPT !.pc = "closing", !.why = "unreachable"]
    BY <1>3 DEF LadderEnds, Raise
  <2> QED
    BY <1>1, <2>1, LeavingKeeps
<1> QED
  BY <1>2, <1>3

(* An endpoint that cannot be verified ends the attempt.                   *)
LEMMA UnverifiedKeeps == ProfileInv /\ job.pc # "idle" /\ pplan' = pplan /\ Unverified => ProfileInv'
<1> SUFFICES ASSUME ProfileInv, job.pc # "idle", pplan' = pplan, Unverified PROVE ProfileInv'
  OBVIOUS
<1>1. disk.marker = "none" /\ job' = Idle
  BY DEF ProfileInv, StagesHold, Unverified
<1>2. disk' = [disk EXCEPT !.failure = TRUE, !.marker = "none"]
  <2>1. disk' = [disk EXCEPT !.failure = TRUE]
    BY DEF Unverified
  <2> QED
    BY <1>1, <2>1 DEF ProfileInv, DiskShape
<1> QED
  BY <1>1, <1>2, EndingKeeps

(* The transport is closed.                                                *)
LEMMA CloseKeeps == ProfileInv /\ CloseTransport => ProfileInv'
<1> SUFFICES ASSUME ProfileInv, CloseTransport PROVE ProfileInv'
  OBVIOUS
<1>1. pplan' = pplan /\ job.pc = "closing"
  BY DEF CloseTransport
<1>2. CASE Unverified
  BY <1>1, <1>2, UnverifiedKeeps
<1>3. CASE disk' = disk /\ job' = [job EXCEPT !.pc = IF job.why = "measured" THEN "select" ELSE "failing"]
  <2> DEFINE p == IF job.why = "measured" THEN "select" ELSE "failing"
             w == job.why
  <2>1. p \in {"closing", "failing", "select", "finalize"} /\ (p = "select" => w = "measured")
        /\ p # "finalize" /\ p # "closing"
    OBVIOUS
  <2>2. p = "select" => disk.profile = NoProfile /\ job.points = disk.points
    BY <1>1 DEF ProfileInv, MeasuredHolds
  <2>3. job' = [job EXCEPT !.pc = p, !.why = w]
    <3>1. job' = [job EXCEPT !.pc = p]
      BY <1>3
    <3> HIDE DEF p
    <3> QED
      BY <3>1 DEF ProfileInv, JobShape
  <2> HIDE DEF p, w
  <2> QED
    BY <1>1, <1>3, <2>1, <2>2, <2>3, LeavingKeeps
<1> QED
  BY <1>2, <1>3 DEF CloseTransport

(* The selection is written beside the points it rests on.                 *)
LEMMA SelectionKeeps == ProfileInv /\ WriteSelection => ProfileInv'
<1> SUFFICES ASSUME ProfileInv, WriteSelection PROVE ProfileInv'
  OBVIOUS
<1> DEFINE choice == SelectProfile(job.points)
<1>1. pplan' = pplan /\ job.pc = "select" /\ disk.profile = NoProfile /\ job.points = disk.points
      /\ disk.stage = "open" /\ disk.marker = "none"
  BY DEF WriteSelection, ProfileInv, MeasuredHolds, StagesHold
<1>2. CASE choice = NoChoice
  <2>1. job' = [job EXCEPT !.pc = "failing", !.why = "ineligible"] /\ disk' = disk
    BY <1>2 DEF WriteSelection
  <2> QED
    BY <1>1, <2>1, LeavingKeeps
<1>3. CASE choice # NoChoice
  <2>1. disk' = [disk EXCEPT !.profile = [points |-> job.points, choice |-> choice]]
        /\ job' = [job EXCEPT !.pc = "finalize"]
    BY <1>3 DEF WriteSelection
  <2>2. choice \in Ladder /\ Carries(choice, job.points)
    BY <1>3, SelectionCarries DEF ProfileInv
  <2> HIDE DEF choice
  <2>3. /\ JobShape' /\ job'.pc = "finalize" /\ job'.points = job.points
        /\ job'.recovered = job.recovered /\ job'.todo = job.todo
    BY <2>1 DEF ProfileInv, JobShape
  <2>4. /\ DiskShape' /\ disk'.points = disk.points /\ disk'.stage = "open" /\ disk'.marker = "none"
        /\ disk'.profile = [points |-> disk.points, choice |-> choice]
    BY <1>1, <2>1 DEF ProfileInv, DiskShape
  <2>5. disk'.profile # NoProfile /\ disk'.profile.choice = choice
    BY <1>3, <2>4 DEF NoProfile
  <2>6. \A c : Carries(c, disk.points)' = Carries(c, disk.points)
    BY <1>1, <2>4 DEF Carries, Passing, At, PointPassesObjective
  <2>7. SelectionHolds'
    <3>1. Carries(disk.profile.choice, disk.points)'
      <4>1. Carries(choice, disk.points)
        BY <1>1, <2>2
      <4> QED
        BY <1>1, <2>4, <2>5, <4>1 DEF Carries, Passing, At, PointPassesObjective
    <3> QED
      BY <2>2, <2>3, <2>4, <2>5, <3>1 DEF SelectionHolds
  <2>8. StagesHold' /\ RecoveredHolds' /\ PositionHolds' /\ MeasuredHolds'
    BY <2>3, <2>4 DEF ProfileInv, StagesHold, RecoveredHolds, PositionHolds, MeasuredHolds, Measuring, Working
  <2> QED
    BY <2>3, <2>4, <2>7, <2>8 DEF ProfileInv
<1> QED
  BY <1>2, <1>3

(* A selection that is already there is taken over.                        *)
LEMMA RecheckKeeps == ProfileInv /\ RecheckSelection => ProfileInv'
<1> SUFFICES ASSUME ProfileInv, RecheckSelection PROVE ProfileInv'
  OBVIOUS
<1>1. pplan' = pplan /\ job.pc = "recheck" /\ disk.profile # NoProfile
  BY DEF RecheckSelection, ProfileInv, SelectionHolds
<1>2. CASE Unverified
  BY <1>1, <1>2, UnverifiedKeeps
<1>3. CASE /\ disk' = disk
           /\ job' = [job EXCEPT !.pc = IF expired THEN "failing" ELSE "finalize",
                                 !.why = IF expired THEN "time" ELSE @]
  <2> DEFINE p == IF expired THEN "failing" ELSE "finalize"
             w == IF expired THEN "time" ELSE job.why
  <2>1. p \in {"closing", "failing", "select", "finalize"} /\ p # "closing" /\ p # "select"
        /\ job' = [job EXCEPT !.pc = p, !.why = w]
    BY <1>3
  <2> HIDE DEF p, w
  <2> QED
    BY <1>1, <1>3, <2>1, LeavingKeeps
<1> QED
  BY <1>2, <1>3 DEF RecheckSelection

(* The profile is marked as selected, or fails.                            *)
LEMMA FinalizeKeeps == ProfileInv /\ Finalize => ProfileInv'
<1> SUFFICES ASSUME ProfileInv, Finalize PROVE ProfileInv'
  OBVIOUS
<1>1. pplan' = pplan /\ job.pc = "finalize" /\ disk.profile # NoProfile
  BY DEF Finalize, ProfileInv, SelectionHolds
<1>2. CASE disk' = disk /\ job' = [job EXCEPT !.pc = "failing", !.why = "scrub"]
  BY <1>1, <1>2, LeavingKeeps
<1>3. CASE disk' = [disk EXCEPT !.marker = "_SELECTED"] /\ job' = Idle
  <2>1. disk' = [disk EXCEPT !.failure = disk.failure, !.marker = "_SELECTED"]
    BY <1>3 DEF ProfileInv, DiskShape
  <2> QED
    BY <1>1, <1>3, <2>1, EndingKeeps
<1> QED
  BY <1>2, <1>3 DEF Finalize

(* The profile is marked as failed.                                        *)
LEMMA FailedKeeps == ProfileInv /\ MarkFailed => ProfileInv'
<1> SUFFICES ASSUME ProfileInv, MarkFailed PROVE ProfileInv'
  OBVIOUS
<1>1. pplan' = pplan /\ job.pc = "failing" /\ job' = Idle
      /\ disk' = [disk EXCEPT !.failure = TRUE, !.marker = "_FAILED"]
  BY DEF MarkFailed
<1> QED
  BY <1>1, EndingKeeps

(* The Job is killed.                                                      *)
LEMMA KilledKeeps == ProfileInv /\ Killed => ProfileInv'
<1> SUFFICES ASSUME ProfileInv, Killed PROVE ProfileInv'
  OBVIOUS
<1>1. pplan' = pplan /\ job.pc # "idle" /\ job' = Idle /\ disk' = disk /\ disk.marker = "none"
  BY DEF Killed, ProfileInv, StagesHold
<1>2. disk' = [disk EXCEPT !.failure = disk.failure, !.marker = "none"]
  BY <1>1 DEF ProfileInv, DiskShape
<1> QED
  BY <1>1, <1>2, EndingKeeps

(* The deadline passes.                                                    *)
LEMMA ExpireKeeps == ProfileInv /\ Expire => ProfileInv'
<1> SUFFICES ASSUME ProfileInv, Expire PROVE ProfileInv'
  OBVIOUS
<1>1. pplan' = pplan /\ job' = job /\ disk' = disk /\ expired' = TRUE
  BY DEF Expire
<1>2. \A c : Carries(c, disk.points)' = Carries(c, disk.points)
  BY <1>1 DEF Carries, Passing, At, PointPassesObjective
<1>3. SelectionHolds'
  BY <1>1, <1>2 DEF ProfileInv, SelectionHolds
<1> QED
  BY <1>1, <1>3 DEF ProfileInv, DiskShape, JobShape, StagesHold, RecoveredHolds, PositionHolds,
                    MeasuredHolds

-----------------------------------------------------------------------------
(* The longest planned wave is as long as any locked one.                  *)

(* The first chunk holds the ranks below perWave.                          *)
LEMMA FirstPlace ==
    ASSUME spec.perWave \in Nat \ {0}, NEW S, IsFiniteSet(S), NEW order, StrictlyOrders(order, S),
           NEW s \in S
    PROVE  Place(S, order, s) = 0 <=> Rank(S, order, s) < spec.perWave
<1> DEFINE p == Place(S, order, s)
           r == Rank(S, order, s)
           k == spec.perWave
<1>1. p \in Nat /\ r \in Nat /\ k * p <= r /\ r < k * p + k /\ k \in Nat \ {0}
  BY PlaceBounds
<1> HIDE DEF p, r, k
<1>2. CASE p = 0
  <2>1. k * p = 0
    BY <1>1, <1>2
  <2> QED
    BY <1>1, <1>2, <2>1 DEF p, r, k
<1>3. CASE p # 0
  <2>1. k * 1 <= k * p
    BY <1>1, <1>3, TimesMonotone
  <2>2. k <= r
    BY <1>1, <2>1
  <2> QED
    BY <1>1, <1>3, <2>2 DEF p, r, k
<1> QED
  BY <1>2, <1>3

(* Sets with at most two elements.                                         *)
LEMMA AtMostTwo ==
    ASSUME NEW R, IsFiniteSet(R), Cardinality(R) <= 2, NEW a \in R, NEW b \in R, a # b
    PROVE  R = {a, b}
<1> SUFFICES ASSUME NEW x \in R, x # a, x # b PROVE FALSE
  OBVIOUS
<1> DEFINE A == {a}
           B == A \cup {b}
           C == B \cup {x}
<1>1. IsFiniteSet(A) /\ Cardinality(A) = 1 /\ b \notin A
  BY FS_Singleton
<1> HIDE DEF A
<1>2. IsFiniteSet(B) /\ Cardinality(B) = 1 + 1
  BY <1>1, FS_AddElement
<1>3. x \notin B /\ C \subseteq R
  BY DEF A
<1> HIDE DEF B
<1>4. Cardinality(C) = 1 + 1 + 1
  BY <1>2, <1>3, FS_AddElement
<1> HIDE DEF C
<1>5. Cardinality(C) <= Cardinality(R) /\ Cardinality(R) \in Nat
  BY <1>3, FS_Subset, FS_CardinalityType
<1> QED
  BY <1>4, <1>5

(* The shards of a run.                                                    *)
ShardsOfRun(r) == {r} \X (1..ShardCount)

(* A run has as many shards as it has numbers.                             *)
LEMMA RunHasShards ==
    ASSUME IsManifest(spec), spec.tasks # {}, NEW r
    PROVE  /\ IsFiniteSet(ShardsOfRun(r)) /\ Cardinality(ShardsOfRun(r)) = ShardCount
           /\ ShardCount \in Nat \ {0}
           /\ Cardinality(ShardsOfRun(r) \ {<<r, ShardCount>>}) = ShardCount - 1
<1>1. ShardCount \in Nat \ {0} /\ IsFiniteSet(1..ShardCount) /\ Cardinality(1..ShardCount) = ShardCount
  BY ShardsFit, ShardsAreFinite
<1>2. IsFiniteSet({r}) /\ Cardinality({r}) = 1
  BY FS_Singleton
<1>3. IsFiniteSet(ShardsOfRun(r)) /\ Cardinality(ShardsOfRun(r)) = 1 * ShardCount
  BY <1>1, <1>2, FS_Product DEF ShardsOfRun
<1>4. <<r, ShardCount>> \in ShardsOfRun(r)
  BY <1>1 DEF ShardsOfRun
<1>5. Cardinality(ShardsOfRun(r) \ {<<r, ShardCount>>}) = Cardinality(ShardsOfRun(r)) - 1
  BY <1>3, <1>4, FS_RemoveElement
<1> QED
  BY <1>1, <1>3, <1>5

(* A first planned chunk that has a last shard has only one, and has room  *)
(* for a whole run; the deployment then has two runs.                      *)
LEMMA FirstChunk ==
    ASSUME IsManifest(spec), spec.tasks # {}, NEW g \in Deployments,
           Cardinality({i \in Runs : DigestOf(i) = g}) <= 2,
           spec.perWave < Cardinality(ShardsOf(g)),
           ChunkAt(ShardsOf(g), PlanOrder, 0) \cap Short # {}
    PROVE  /\ Cardinality(ChunkAt(ShardsOf(g), PlanOrder, 0) \cap Short) = 1
           /\ ShardCount <= spec.perWave
           /\ \E a, b \in Runs : a # b /\ {i \in Runs : DigestOf(i) = g} = {a, b}
<1> DEFINE G == ShardsOf(g)
           R == {i \in Runs : DigestOf(i) = g}
           F == ChunkAt(G, PlanOrder, 0)
           n == ShardCount
           k == spec.perWave
<1>1. k \in Nat \ {0}
  BY DEF IsManifest
<1>2. IsFiniteSet(G) /\ G \subseteq Shards /\ IsFiniteSet(R) /\ StrictlyOrders(PlanOrder, G)
      /\ Cardinality(G) \in Nat
  <2>1. G \subseteq Shards /\ R \subseteq Runs
    BY DEF ShardsOf
  <2> HIDE DEF G, R
  <2> QED
    BY <2>1, TrialsOfShards, ShardsAreFinite, FS_Subset, FS_CardinalityType, PlanOrdered, OrderOfPart
<1>3. n \in Nat \ {0} /\ Runs = 1..Len(spec.cells) /\ Len(spec.cells) \in Nat
  BY RunHasShards, ShardsAreFinite DEF Runs
<1>4. \A s \in Shards : s[1] \in Runs /\ s[2] \in 1..n /\ s = <<s[1], s[2]>>
  BY ShardsAreFinite
<1>5. \A s \in F : s \in G /\ Rank(G, PlanOrder, s) < k
  BY <1>1, <1>2, FirstPlace DEF ChunkAt
<1>6. \A s, t \in G : <<s, t>> \in PlanOrder <=> (s[1] < t[1] \/ (s[1] = t[1] /\ s[2] < t[2]))
  BY <1>2 DEF PlanOrder
<1>7. ASSUME NEW r \in R, <<r, n>> \in F PROVE \E b \in R : r < b
  <2> SUFFICES ASSUME \A b \in R : ~(r < b) PROVE FALSE
    OBVIOUS
  <2>1. <<r, n>> \in G
    BY <1>5, <1>7
  <2>2. \A s \in G \ {<<r, n>>} : <<s, <<r, n>>>> \in PlanOrder
    <3> SUFFICES ASSUME NEW s \in G, s # <<r, n>> PROVE <<s, <<r, n>>>> \in PlanOrder
      OBVIOUS
    <3>1. s[1] \in R /\ s[1] \in Nat /\ s[2] \in 1..n /\ s = <<s[1], s[2]>> /\ r \in Nat
      BY <1>2, <1>3, <1>4 DEF ShardsOf
    <3>2. ~(r < s[1])
      BY <3>1
    <3>3. s[1] < r \/ (s[1] = r /\ s[2] < n)
      BY <1>3, <3>1, <3>2
    <3> QED
      BY <1>6, <2>1, <3>3
  <2>3. G \ {<<r, n>>} \subseteq {s \in G : <<s, <<r, n>>>> \in PlanOrder}
    BY <2>2
  <2>4. IsFiniteSet({s \in G : <<s, <<r, n>>>> \in PlanOrder})
    <3> HIDE DEF G
    <3> QED
      BY <1>2, FS_Subset
  <2>5. Cardinality(G \ {<<r, n>>}) <= Rank(G, PlanOrder, <<r, n>>)
    <3> HIDE DEF G
    <3> QED
      BY <2>3, <2>4, FS_Subset DEF Rank
  <2>6. Cardinality(G \ {<<r, n>>}) = Cardinality(G) - 1
    <3> HIDE DEF G
    <3> QED
      BY <1>2, <2>1, FS_RemoveElement
  <2>7. Rank(G, PlanOrder, <<r, n>>) < k /\ Rank(G, PlanOrder, <<r, n>>) \in Nat
    BY <1>1, <1>2, <1>5, <1>7, <2>1, PlaceBounds
  <2>8. k < Cardinality(G)
    OBVIOUS
  <2> HIDE DEF G, n, k
  <2> QED
    BY <1>1, <1>2, <2>5, <2>6, <2>7, <2>8
<1>8. PICK s \in F : s \in Short
  OBVIOUS
<1> DEFINE a == s[1]
<1>9. s = <<a, n>> /\ a \in R /\ s \in G /\ a \in Nat
  BY <1>2, <1>3, <1>4, <1>5, <1>8 DEF Short, ShardsOf
<1>10. PICK b \in R : a < b
  BY <1>7, <1>8, <1>9
<1>11. a # b /\ b \in Nat
  BY <1>3, <1>9, <1>10
<1>12. R = {a, b}
  <2>1. Cardinality(R) <= 2
    OBVIOUS
  <2> HIDE DEF R, a
  <2> QED
    BY <1>2, <1>9, <1>11, <2>1, AtMostTwo
<1>13. F \cap Short = {s}
  <2> SUFFICES ASSUME NEW t \in F, t \in Short PROVE t = s
    BY <1>8
  <2>1. t = <<t[1], n>> /\ t[1] \in R
    BY <1>2, <1>4, <1>5 DEF Short, ShardsOf
  <2>2. t[1] # b
    <3> SUFFICES ASSUME t[1] = b PROVE FALSE
      OBVIOUS
    <3>1. PICK c \in R : b < c
      BY <1>7, <2>1
    <3>2. c = a \/ c = b
      BY <1>12, <3>1
    <3> HIDE DEF a
    <3> QED
      BY <1>9, <1>10, <1>11, <3>1, <3>2
  <2>3. t[1] = a
    BY <1>12, <2>1, <2>2
  <2> QED
    BY <1>9, <2>1, <2>3
<1>14. n <= k
  <2> DEFINE P == ShardsOfRun(a) \ {<<a, n>>}
             Q == {t \in G : <<t, s>> \in PlanOrder}
  <2>1. P \subseteq Q
    <3> SUFFICES ASSUME NEW t \in P PROVE t \in Q
      OBVIOUS
    <3>1. t = <<a, t[2]>> /\ t[1] = a /\ t[2] \in 1..n /\ t[2] # n
      BY DEF ShardsOfRun
    <3>2. t \in G
      BY <1>9, <3>1 DEF ShardsOf, Shards
    <3>3. t[2] < n /\ s[1] = a /\ s[2] = n
      BY <1>3, <1>9, <3>1
    <3> QED
      BY <1>6, <1>9, <3>1, <3>2, <3>3
  <2>2. IsFiniteSet(Q) /\ Cardinality(Q) = Rank(G, PlanOrder, s)
    <3>1. Q \subseteq G
      OBVIOUS
    <3> QED
      BY <1>2, <3>1, FS_Subset DEF Rank
  <2>3. Cardinality(P) = n - 1
    BY RunHasShards
  <2>4. Cardinality(P) <= Cardinality(Q)
    <3> HIDE DEF P, Q
    <3> QED
      BY <2>1, <2>2, FS_Subset
  <2>5. Rank(G, PlanOrder, s) < k /\ Rank(G, PlanOrder, s) \in Nat
    BY <1>1, <1>2, <1>5, <1>8, <1>9, PlaceBounds
  <2> HIDE DEF P, Q, n, k, G
  <2> QED
    BY <1>1, <1>3, <2>2, <2>3, <2>4, <2>5
<1>15. Cardinality(F \cap Short) = 1
  BY <1>13, FS_Singleton
<1>16. a \in Runs /\ b \in Runs
  BY <1>9, <1>10
<1> QED
  BY <1>11, <1>12, <1>14, <1>15, <1>16

(* Where two runs of at most perWave shards each share a deployment, a     *)
(* locked chunk without a last shard is not full: a chunk with a shard of  *)
(* the first run has its last shard too.                                   *)
LEMMA LockedChunk ==
    ASSUME IsManifest(spec), spec.tasks # {}, NEW l, Identities(l), NEW g \in Deployments,
           NEW a \in Runs, NEW b \in Runs, l.runs[a] < l.runs[b],
           {i \in Runs : DigestOf(i) = g} = {a, b}, ShardCount <= spec.perWave,
           NEW S \in Chunked(ShardsOf(g), RunOrder(l)), S \cap Short = {}
    PROVE  Cardinality(S) < spec.perWave
<1> DEFINE G == ShardsOf(g)
           O == RunOrder(l)
           n == ShardCount
           k == spec.perWave
<1>1. k \in Nat \ {0}
  BY DEF IsManifest
<1>2. IsFiniteSet(G) /\ G \subseteq Shards /\ StrictlyOrders(O, G)
  <2>1. G \subseteq Shards
    BY DEF ShardsOf
  <2> HIDE DEF G, O
  <2>2. StrictlyOrders(O, Shards)
    BY LockOrdered DEF O
  <2> QED
    BY <2>1, <2>2, TrialsOfShards, OrderOfPart
<1>3. n \in Nat \ {0} /\ n <= k
  BY RunHasShards
<1>4. \A s \in Shards : s[1] \in Runs /\ s[2] \in 1..n /\ s = <<s[1], s[2]>>
  BY ShardsAreFinite
<1>5. l.runs[a] \in Nat /\ l.runs[b] \in Nat
  BY DEF Identities, Injection
<1>6. \A s \in G : s[1] \in {a, b} /\ s \in ShardsOfRun(s[1])
  BY <1>2, <1>4 DEF ShardsOf, ShardsOfRun
<1>7. ASSUME NEW s \in G, s[1] = a PROVE Rank(G, O, s) < k
  <2> DEFINE Q == {r \in G : <<r, s>> \in O}
  <2>1. Q \subseteq ShardsOfRun(a) \ {s}
    <3> SUFFICES ASSUME NEW r \in G, <<r, s>> \in O PROVE r \in ShardsOfRun(a) \ {s}
      OBVIOUS
    <3>1. r # s
      BY <1>2 DEF StrictlyOrders
    <3>2. l.runs[r[1]] < l.runs[s[1]] \/ r[1] = s[1]
      BY DEF RunOrder
    <3>3. r[1] # b
      BY <1>5, <1>7, <3>2
    <3> QED
      BY <1>6, <3>1, <3>3
  <2>2. s \in ShardsOfRun(a)
    BY <1>6, <1>7
  <2>3. IsFiniteSet(ShardsOfRun(a)) /\ Cardinality(ShardsOfRun(a)) = n
    BY RunHasShards
  <2>4. IsFiniteSet(ShardsOfRun(a) \ {s}) /\ Cardinality(ShardsOfRun(a) \ {s}) = n - 1
    BY <2>2, <2>3, FS_RemoveElement
  <2>5. IsFiniteSet(Q) /\ Cardinality(Q) <= n - 1 /\ Cardinality(Q) \in Nat
    <3> HIDE DEF Q
    <3> QED
      BY <2>1, <2>4, FS_Subset, FS_CardinalityType
  <2>6. Rank(G, O, s) = Cardinality(Q)
    BY DEF Rank
  <2> HIDE DEF Q, n, k, G, O
  <2> QED
    BY <1>1, <1>3, <2>5, <2>6
<1>8. /\ S # {} /\ S \subseteq G /\ IsFiniteSet(S)
      /\ \E t \in S : S = ChunkAt(G, O, Place(G, O, t))
  <2>1. S \in Chunked(G, O)
    OBVIOUS
  <2> HIDE DEF G, O
  <2> QED
    BY <1>1, <1>2, <2>1, ChunksAreSmall
<1>9. ASSUME NEW s \in S PROVE s[1] # a
  <2> SUFFICES ASSUME s[1] = a PROVE FALSE
    OBVIOUS
  <2>1. <<a, n>> \in G /\ <<a, n>> \in Short /\ <<a, n>>[1] = a
    <3>1. DigestOf(a) = g
      OBVIOUS
    <3> QED
      BY <1>3, <3>1 DEF ShardsOf, Shards, Short
  <2>2. s \in G
    BY <1>8
  <2>3. Place(G, O, s) = 0 /\ Place(G, O, <<a, n>>) = 0
    <3>1. Rank(G, O, s) < k /\ Rank(G, O, <<a, n>>) < k
      BY <1>7, <2>1, <2>2
    <3> HIDE DEF G, O, n
    <3> QED
      BY <1>1, <1>2, <2>1, <2>2, <3>1, FirstPlace
  <2>4. <<a, n>> \in S
    <3> HIDE DEF G, O, n
    <3> QED
      BY <1>8, <2>1, <2>3 DEF ChunkAt
  <2> QED
    BY <2>1, <2>4
<1>10. S \subseteq ShardsOfRun(b) \ {<<b, n>>}
  <2> SUFFICES ASSUME NEW s \in S PROVE s \in ShardsOfRun(b) \ {<<b, n>>}
    OBVIOUS
  <2>1. s \in G /\ s[1] = b /\ s \in ShardsOfRun(b)
    BY <1>6, <1>8, <1>9
  <2>2. s # <<b, n>>
    BY <1>2, <2>1 DEF Short
  <2> QED
    BY <2>1, <2>2
<1>11. IsFiniteSet(ShardsOfRun(b) \ {<<b, n>>}) /\ Cardinality(ShardsOfRun(b) \ {<<b, n>>}) = n - 1
  BY RunHasShards, FS_Subset
<1>12. Cardinality(S) <= n - 1 /\ Cardinality(S) \in Nat
  <2> HIDE DEF n
  <2> QED
    BY <1>8, <1>10, <1>11, FS_Subset, FS_CardinalityType
<1> HIDE DEF n, k, G, O
<1> QED
  BY <1>1, <1>3, <1>12 DEF k

(* Some planned wave of a deployment with at most two runs has as many     *)
(* trials as a locked one.                                                 *)
LEMMA SomePlannedIsAsLong ==
    ASSUME IsManifest(spec), spec.tasks # {}, NEW l, Identities(l), NEW g \in Deployments,
           Cardinality({i \in Runs : DigestOf(i) = g}) <= 2,
           NEW S \in Chunked(ShardsOf(g), RunOrder(l))
    PROVE  \E w \in PlannedWaves(g) : Trials(S) <= Trials(w)
<1> DEFINE G == ShardsOf(g)
           O == RunOrder(l)
           F == ChunkAt(G, PlanOrder, 0)
           k == spec.perWave
           z == spec.shardSize
           e == LastSize
<1>1. k \in Nat \ {0} /\ z \in Nat \ {0} /\ e \in 1..z
  BY ShardsFit DEF IsManifest
<1>2. /\ IsFiniteSet(G) /\ G \subseteq Shards /\ StrictlyOrders(O, G) /\ StrictlyOrders(PlanOrder, G)
      /\ Cardinality(G) \in Nat
  <2>1. G \subseteq Shards
    BY DEF ShardsOf
  <2> HIDE DEF G, O
  <2>2. StrictlyOrders(O, Shards) /\ StrictlyOrders(PlanOrder, Shards)
    BY LockOrdered, PlanOrdered DEF O
  <2> QED
    BY <2>1, <2>2, TrialsOfShards, OrderOfPart, FS_CardinalityType
<1>3. /\ S # {} /\ S \subseteq G /\ IsFiniteSet(S) /\ Cardinality(S) \in 1..k
      /\ \E t \in S : S = ChunkAt(G, O, Place(G, O, t))
  <2>1. S \in Chunked(G, O)
    OBVIOUS
  <2> HIDE DEF G, O
  <2> QED
    BY <1>1, <1>2, <2>1, ChunksAreSmall
<1>4. \A t \in G : ChunkAt(G, PlanOrder, Place(G, PlanOrder, t)) \in PlannedWaves(g)
  BY DEF PlannedWaves, Chunked, ChunkAt
<1>5. CASE Cardinality(G) <= k
  <2>1. \A s \in G : Place(G, O, s) = 0 /\ Place(G, PlanOrder, s) = 0
    <3> SUFFICES ASSUME NEW s \in G PROVE Place(G, O, s) = 0 /\ Place(G, PlanOrder, s) = 0
      OBVIOUS
    <3>1. Rank(G, O, s) \in 0..(Cardinality(G) - 1) /\ Rank(G, PlanOrder, s) \in 0..(Cardinality(G) - 1)
      <4> HIDE DEF G, O
      <4> QED
        BY <1>2, RankInRange
    <3>2. Rank(G, O, s) < k /\ Rank(G, PlanOrder, s) < k
      <4> HIDE DEF G, O, k
      <4> QED
        BY <1>1, <1>2, <1>5, <3>1
    <3> HIDE DEF G, O
    <3> QED
      BY <1>1, <1>2, <3>2, FirstPlace
  <2>2. PICK t \in G : TRUE
    BY <1>3
  <2>3. ChunkAt(G, PlanOrder, Place(G, PlanOrder, t)) = G /\ S = G
    <3> HIDE DEF G, O
    <3> QED
      BY <1>3, <2>1, <2>2 DEF ChunkAt
  <2>4. G \in PlannedWaves(g)
    BY <1>4, <2>2, <2>3
  <2>5. Trials(G) \in Nat
    BY <1>2, TrialsAreBounded
  <2> QED
    BY <2>3, <2>4, <2>5
<1>6. CASE k < Cardinality(G)
  <2>1. Cardinality(F) = k
    <3>1. spec.perWave * 0 + spec.perWave <= Cardinality(G) /\ 0 \in Nat
      BY <1>1, <1>2, <1>6
    <3> HIDE DEF G
    <3> QED
      BY <1>1, <1>2, <3>1, ChunksAreFull
  <2>2. F # {} /\ F \subseteq G
    BY <1>1, <2>1, FS_EmptySet DEF ChunkAt
  <2>3. F \in PlannedWaves(g)
    <3>1. PICK t \in F : TRUE
      BY <2>2
    <3>2. t \in G /\ Place(G, PlanOrder, t) = 0
      BY <3>1 DEF ChunkAt
    <3> QED
      BY <1>4, <3>2
  <2>4. /\ Cardinality(F \ Short) \in Nat /\ Cardinality(F \cap Short) \in Nat
        /\ k = Cardinality(F \ Short) + Cardinality(F \cap Short)
        /\ Trials(F) = Cardinality(F \ Short) * z + Cardinality(F \cap Short) * e
    <3>1. F \subseteq Shards
      BY <1>2, <2>2
    <3> HIDE DEF F
    <3> QED
      BY <2>1, <3>1, TrialsOfShards
  <2>5. /\ Cardinality(S \ Short) \in Nat /\ Cardinality(S \cap Short) \in Nat
        /\ Cardinality(S) = Cardinality(S \ Short) + Cardinality(S \cap Short)
        /\ Trials(S) = Cardinality(S \ Short) * z + Cardinality(S \cap Short) * e
        /\ Trials(S) \in Nat /\ Trials(S) <= Cardinality(S) * z
    <3>1. S \subseteq Shards
      BY <1>2, <1>3
    <3> QED
      BY <3>1, TrialsOfShards, TrialsAreBounded
  <2> DEFINE x == Cardinality(S \ Short)
             y == Cardinality(S \cap Short)
             q == Cardinality(F \cap Short)
             m == Cardinality(F \ Short)
  <2>6. CASE F \cap Short = {}
    <3>1. q = 0
      BY <2>6, FS_EmptySet
    <3> HIDE DEF F, q, m, z, k, e
    <3>2. Trials(F) = k * z
      <4>1. m = k
        BY <2>4, <3>1 DEF q, m
      <4>2. Trials(F) = m * z + q * e
        BY <2>4 DEF q, m
      <4> QED
        BY <1>1, <3>1, <4>1, <4>2
    <3>3. z * Cardinality(S) <= z * k
      <4>1. Cardinality(S) \in Nat /\ Cardinality(S) <= k
        BY <1>1, <1>3
      <4> QED
        BY <1>1, <4>1, TimesMonotone
    <3>4. Trials(S) <= Trials(F)
      <4> DEFINE c == Cardinality(S)
      <4>1. c \in Nat /\ Trials(S) <= c * z /\ z * c <= z * k
        BY <1>1, <1>3, <2>5, <3>3
      <4> HIDE DEF c
      <4> QED
        BY <1>1, <2>5, <3>2, <4>1
    <3> QED
      BY <2>3, <3>4
  <2>7. CASE F \cap Short # {}
    <3>1. /\ q = 1 /\ ShardCount <= k
          /\ \E a, b \in Runs : a # b /\ {i \in Runs : DigestOf(i) = g} = {a, b}
      BY <1>6, <2>7, FirstChunk
    <3>2. PICK a \in Runs, b \in Runs : a # b /\ {i \in Runs : DigestOf(i) = g} = {a, b}
      BY <3>1
    <3>3. l.runs[a] < l.runs[b] \/ l.runs[b] < l.runs[a]
      <4>1. l.runs[a] \in Nat /\ l.runs[b] \in Nat /\ l.runs[a] # l.runs[b]
        BY <3>2 DEF Identities, Injection, IsInjective
      <4> QED
        BY <4>1
    <3>4. S \cap Short = {} => Cardinality(S) < k
      <4>1. {i \in Runs : DigestOf(i) = g} = {b, a}
        BY <3>2
      <4> QED
        BY <3>1, <3>2, <3>3, <4>1, LockedChunk
    <3>5. y = 0 => S \cap Short = {}
      <4>1. IsFiniteSet(S \cap Short)
        BY <1>3, FS_Subset
      <4> QED
        BY <4>1, FS_EmptySet
    <3>6. x \in Nat /\ y \in Nat /\ x + y <= k /\ (y = 0 => x + y < k) /\ Trials(S) = x * z + y * e
      BY <1>1, <1>3, <2>5, <3>4, <3>5
    <3>7. m \in Nat /\ m = k - 1 /\ Trials(F) = m * z + e
      <4>1. m \in Nat /\ k = m + q /\ Trials(F) = m * z + q * e
        BY <2>4
      <4> HIDE DEF m, q, k, e, z, F
      <4> QED
        BY <1>1, <3>1, <4>1
    <3> HIDE DEF F, q, m, z, k, e, x, y
    <3>8. x * z + y * e <= m * z + e
      <4>1. CASE y = 0
        <5>1. z * x <= z * m
          BY <1>1, <3>6, <3>7, <4>1, TimesMonotone
        <5>2. y * e = 0
          BY <1>1, <4>1
        <5> QED
          BY <1>1, <3>6, <3>7, <5>1, <5>2
      <4>2. CASE y # 0
        <5> DEFINE v == y - 1
        <5>1. v \in Nat /\ y = v + 1 /\ x + v <= m
          BY <1>1, <3>6, <3>7, <4>2
        <5> HIDE DEF v
        <5>2. v * e <= v * z
          BY <1>1, <5>1, TimesMonotone
        <5>3. z * (x + v) <= z * m
          BY <1>1, <3>6, <3>7, <5>1, TimesMonotone
        <5>4. z * (x + v) = x * z + v * z /\ z * m = m * z /\ y * e = v * e + e
          BY <1>1, <3>6, <3>7, <5>1
        <5>5. x * z \in Nat /\ v * z \in Nat /\ v * e \in Nat /\ m * z \in Nat /\ e \in Nat
          BY <1>1, <3>6, <3>7, <5>1
        <5> QED
          BY <5>2, <5>3, <5>4, <5>5
      <4> QED
        BY <4>1, <4>2
    <3> QED
      BY <2>3, <3>6, <3>7, <3>8
  <2> QED
    BY <2>6, <2>7
<1> QED
  BY <1>1, <1>2, <1>5, <1>6

(* A running provider wave has the time of its own batches, or that of the *)
(* longest planned wave.                                                   *)
WaveTimed ==
    wave # NoWave /\ Provider(wave.g) =>
        \/ wave.seconds = WaveSeconds(wave.trials) /\ wave.trials \in Nat \ {0}
        \/ /\ wave.shards \in Chunked(ShardsOf(wave.g), RunOrder(lock))
           /\ wave.trials = Trials(wave.shards) /\ wave.seconds = PlannedSeconds(wave.g)

(* A wave that a lock holds is a chunk, and has the planned time.          *)
LEMMA MatchIsPlanned ==
    ASSUME PlanInv, phase = "locked", NEW g \in Deployments, NEW S, NEW w \in Matches(g, S)
    PROVE  S \in Chunked(ShardsOf(g), RunOrder(lock)) /\ w.seconds = PlannedSeconds(g)
<1>1. w \in LockedInitialWaves(lock) /\ w.g = g /\ w.shards = S
  BY DEF PlanInv, LockHolds, Matches
<1>2. PICK d \in Deployments : \E c \in Chunked(ShardsOf(d), RunOrder(lock)) :
          w = [g |-> d, shards |-> c, trials |-> Trials(c), seconds |-> PlannedSeconds(d)]
  BY <1>1 DEF LockedInitialWaves
<1>3. PICK c \in Chunked(ShardsOf(d), RunOrder(lock)) :
          w = [g |-> d, shards |-> c, trials |-> Trials(c), seconds |-> PlannedSeconds(d)]
  BY <1>2
<1>4. d = g /\ c = S /\ w.seconds = PlannedSeconds(d)
  BY <1>1, <1>3
<1> QED
  BY <1>4

(* A first wave is given the time of the plan.                             *)
LEMMA SubmitKeepsTime == PlanInv /\ SubmitWave => WaveTimed'
<1> SUFFICES ASSUME PlanInv, SubmitWave PROVE WaveTimed'
  OBVIOUS
<1>1. spec' = spec /\ lock' = lock /\ phase = "locked" /\ wave = NoWave
  BY DEF SubmitWave, Idling
<1>2. PICK g \in Deployments : \E S \in NewWaves(g) :
        Start(g, S, "submit-wave", Trials(S),
              IF ~Provider(g) THEN spec.waveTimeout
              ELSE IF Cardinality(Matches(g, S)) # 1 THEN 0
              ELSE (CHOOSE w \in Matches(g, S) : TRUE).seconds, spec.waveCost)
  BY DEF SubmitWave
<1>3. PICK S \in NewWaves(g) :
        Start(g, S, "submit-wave", Trials(S),
              IF ~Provider(g) THEN spec.waveTimeout
              ELSE IF Cardinality(Matches(g, S)) # 1 THEN 0
              ELSE (CHOOSE w \in Matches(g, S) : TRUE).seconds, spec.waveCost)
  BY <1>2
<1> DEFINE seconds == IF ~Provider(g) THEN spec.waveTimeout
                      ELSE IF Cardinality(Matches(g, S)) # 1 THEN 0
                      ELSE (CHOOSE w \in Matches(g, S) : TRUE).seconds
<1>4. \/ wave' = NoWave
      \/ /\ wave'.g = g /\ wave'.shards = S /\ wave'.trials = Trials(S) /\ wave'.seconds = seconds
         /\ seconds > 0
  BY <1>1, <1>3 DEF Start
<1>5. CASE wave' = NoWave
  BY <1>5 DEF WaveTimed, NoWave
<1>6. CASE /\ wave'.g = g /\ wave'.shards = S /\ wave'.trials = Trials(S) /\ wave'.seconds = seconds
           /\ seconds > 0 /\ Provider(g)
  <2>1. Cardinality(Matches(g, S)) = 1
    BY <1>6
  <2>2. Matches(g, S) # {}
    BY <2>1, FS_EmptySet
  <2> DEFINE w == CHOOSE v \in Matches(g, S) : TRUE
  <2>3. w \in Matches(g, S) /\ seconds = w.seconds
    BY <1>6, <2>1, <2>2
  <2>4. S \in Chunked(ShardsOf(g), RunOrder(lock)) /\ w.seconds = PlannedSeconds(g)
    <3> HIDE DEF w
    <3> QED
      BY <1>1, <2>3, MatchIsPlanned
  <2>5. /\ Chunked(ShardsOf(g), RunOrder(lock))' = Chunked(ShardsOf(g), RunOrder(lock))
        /\ Trials(S)' = Trials(S) /\ PlannedSeconds(g)' = PlannedSeconds(g)
    BY <1>1, ManifestStays
  <2>6. /\ Chunked(ShardsOf(wave.g), RunOrder(lock))' = Chunked(ShardsOf(g), RunOrder(lock))'
        /\ Trials(wave.shards)' = Trials(S)' /\ PlannedSeconds(wave.g)' = PlannedSeconds(g)'
    BY <1>6 DEF Chunked, Place, Rank, ShardsOf, Trials, PlannedSeconds, PlannedWaves
  <2> HIDE DEF w, seconds
  <2> QED
    BY <1>6, <2>3, <2>4, <2>5, <2>6 DEF WaveTimed
<1>7. CASE wave'.g = g /\ ~Provider(g)
  BY <1>1, <1>7 DEF WaveTimed, Provider
<1> QED
  BY <1>4, <1>5, <1>6, <1>7

(* A retry wave is given the time of the plan.                             *)
LEMMA RetryKeepsTime == PlanInv /\ RetryWave => WaveTimed'
<1> SUFFICES ASSUME PlanInv, RetryWave PROVE WaveTimed'
  OBVIOUS
<1>1. spec' = spec /\ lock' = lock /\ phase = "locked" /\ wave = NoWave
  BY DEF RetryWave, Idling
<1>2. PICK g \in Deployments : \E S \in RetryWaves(g) : \E n \in {Cardinality(S), Trials(S)} :
        Start(g, S, "retry-shard", n, IF Provider(g) THEN WaveSeconds(n) ELSE spec.waveTimeout,
              PartialWaveCost(g, n))
  BY DEF RetryWave
<1>3. PICK S \in RetryWaves(g) : \E n \in {Cardinality(S), Trials(S)} :
        Start(g, S, "retry-shard", n, IF Provider(g) THEN WaveSeconds(n) ELSE spec.waveTimeout,
              PartialWaveCost(g, n))
  BY <1>2
<1>4. PICK n \in {Cardinality(S), Trials(S)} :
        Start(g, S, "retry-shard", n, IF Provider(g) THEN WaveSeconds(n) ELSE spec.waveTimeout,
              PartialWaveCost(g, n))
  BY <1>3
<1>5. n \in Nat \ {0}
  BY <1>1, ProposalsAreLockable
<1>6. \/ wave' = NoWave
      \/ wave'.g = g /\ wave'.trials = n
         /\ wave'.seconds = (IF Provider(g) THEN WaveSeconds(n) ELSE spec.waveTimeout)
  BY <1>1, <1>4 DEF Start
<1>7. CASE wave' = NoWave
  BY <1>7 DEF WaveTimed, NoWave
<1>8. CASE wave'.g = g /\ wave'.trials = n
         /\ wave'.seconds = (IF Provider(g) THEN WaveSeconds(n) ELSE spec.waveTimeout)
  <2>1. WaveSeconds(wave.trials)' = WaveSeconds(n)
    BY <1>1, <1>8 DEF WaveSeconds, Concurrency, CeilDiv
  <2>2. Provider(wave.g)' = Provider(g)
    BY <1>1, <1>8 DEF Provider
  <2> QED
    BY <1>5, <1>8, <2>1, <2>2 DEF WaveTimed
<1> QED
  BY <1>6, <1>7, <1>8

(* The time that a wave was given suffices.                                *)
LEMMA TimedWavesHaveTheirTime == PlanInv /\ WaveTimed => WaveHasItsTime
<1> SUFFICES ASSUME PlanInv, WaveTimed, wave # NoWave, Provider(wave.g),
                    Cardinality({i \in Runs : DigestOf(i) = wave.g}) <= 2
             PROVE  wave.seconds >= WaveSeconds(wave.trials)
  BY DEF WaveHasItsTime
<1> DEFINE g == wave.g
           S == wave.shards
<1>1. phase = "locked" /\ g \in Deployments /\ IsManifest(spec) /\ spec.tasks # {} /\ Identities(lock)
  BY DEF PlanInv, WaveHolds, PlanAccepted, LockHolds
<1>2. CASE wave.seconds = WaveSeconds(wave.trials) /\ wave.trials \in Nat \ {0}
  <2>1. WaveSeconds(wave.trials) \in Nat
    BY <1>1, <1>2, SecondsGrow
  <2> QED
    BY <1>2, <2>1
<1>3. CASE /\ S \in Chunked(ShardsOf(g), RunOrder(lock))
           /\ wave.trials = Trials(S) /\ wave.seconds = PlannedSeconds(g)
  <2>1. PICK w \in PlannedWaves(g) : Trials(S) <= Trials(w)
    BY <1>1, <1>3, SomePlannedIsAsLong
  <2>2. Trials(S) \in Nat \ {0} /\ Trials(w) \in Nat
    <3>1. StrictlyOrders(RunOrder(lock), Shards) /\ StrictlyOrders(PlanOrder, Shards)
          /\ ShardsOf(g) \subseteq Shards
      BY <1>1, LockOrdered, PlanOrdered DEF ShardsOf
    <3> DEFINE G == ShardsOf(g)
               O == RunOrder(lock)
    <3>2. G \subseteq Shards /\ S \in Chunked(G, O) /\ w \in Chunked(G, PlanOrder)
      BY <1>3, <3>1 DEF PlannedWaves
    <3>3. StrictlyOrders(O, Shards)
      BY <3>1
    <3> HIDE DEF G, O, S
    <3>4. Trials(S) \in Nat \ {0}
      BY <1>1, <3>2, <3>3, WavesAreChunks
    <3>5. Trials(w) \in Nat \ {0}
      BY <1>1, <3>1, <3>2, WavesAreChunks
    <3> QED
      BY <3>4, <3>5
  <2>3. WaveSeconds(Trials(S)) \in Nat /\ WaveSeconds(Trials(w)) \in Nat
        /\ WaveSeconds(Trials(S)) <= WaveSeconds(Trials(w))
    BY <1>1, <2>1, <2>2, SecondsGrow
  <2>4. WaveSeconds(Trials(w)) <= PlannedSeconds(g) /\ PlannedSeconds(g) \in Nat
    BY <1>1, PlannedIsLongest
  <2> QED
    BY <1>3, <2>3, <2>4
<1> QED
  BY <1>2, <1>3 DEF WaveTimed

-----------------------------------------------------------------------------
(* A campaign and the profile it binds.                                    *)
Inv == PlanInv /\ WaveTimed /\ PhasesHold

(* A step that changes nothing of the campaign keeps its invariant.        *)
LEMMA CampaignStays == PlanInv /\ WaveTimed /\ UNCHANGED cvars => PlanInv' /\ WaveTimed'
<1> SUFFICES ASSUME PlanInv, WaveTimed, UNCHANGED cvars PROVE PlanInv' /\ WaveTimed'
  OBVIOUS
<1>1. spec' = spec /\ phase' = phase /\ lock' = lock /\ shards' = shards /\ wave' = wave
      /\ losses' = losses
  BY DEF cvars
<1>2. /\ Deployments' = Deployments /\ ControllerPolicy' = ControllerPolicy /\ Shards' = Shards
      /\ Identities(lock)' = Identities(lock)
      /\ LockedInitialWaves(lock)' = LockedInitialWaves(lock)
      /\ RunOrder(lock)' = RunOrder(lock)
      /\ \A g : ShardsOf(g)' = ShardsOf(g)
      /\ \A S, o : Chunked(S, o)' = Chunked(S, o)
      /\ \A S : Trials(S)' = Trials(S)
      /\ \A g : PlannedSeconds(g)' = PlannedSeconds(g)
  BY <1>1, ManifestStays
<1>3. \A g : NewWaves(g)' = NewWaves(g)
  <2>1. \A g : NewShards(g)' = NewShards(g)
    BY <1>1, <1>2 DEF NewShards
  <2> QED
    BY <1>2, <2>1 DEF NewWaves
<1>4. IsManifest(spec)' /\ LossShape'
  BY <1>1 DEF PlanInv, LossShape
<1>5. PlanAccepted' /\ LockHolds'
  BY <1>1, <1>2 DEF PlanInv, PlanAccepted, LockHolds
<1>6. WaveHolds'
  <2>1. NewWaves(wave.g)' = NewWaves(wave.g)
    BY <1>1, <1>3
  <2> QED
    BY <1>1, <1>2, <2>1 DEF PlanInv, WaveHolds
<1>7. ChunksLeft'
  <2>1. \A g : Chunked(ShardsOf(g), RunOrder(lock))' = Chunked(ShardsOf(g), RunOrder(lock))
    BY <1>2
  <2> QED
    BY <1>1, <1>2, <1>3, <2>1 DEF PlanInv, ChunksLeft
<1>8. WaveTimed'
  <2>1. WaveSeconds(wave.trials)' = WaveSeconds(wave.trials)
    BY <1>1 DEF WaveSeconds, Concurrency, CeilDiv
  <2>2. /\ Chunked(ShardsOf(wave.g), RunOrder(lock))' = Chunked(ShardsOf(wave.g), RunOrder(lock))
        /\ Trials(wave.shards)' = Trials(wave.shards) /\ PlannedSeconds(wave.g)' = PlannedSeconds(wave.g)
    BY <1>1, <1>2
  <2>3. Provider(wave.g)' = Provider(wave.g)
    BY <1>1 DEF Provider
  <2> QED
    BY <1>1, <2>1, <2>2, <2>3 DEF WaveTimed
<1> QED
  BY <1>4, <1>5, <1>6, <1>7, <1>8 DEF PlanInv

(* Every step of the profile keeps its invariant.                          *)
LEMMA ProfileKeeps == ProfileInv /\ PNext => ProfileInv'
BY CreateKeeps, RecoverKeeps, BeginKeeps, LadderKeeps, ReuseKeeps, RunPointKeeps, WritePointKeeps,
   SmokeKeeps, BoundaryKeeps, LadderEndsKeeps, CloseKeeps, SelectionKeeps, RecheckKeeps,
   FinalizeKeeps, FailedKeeps, KilledKeeps, ExpireKeeps DEF PNext, AttemptStep

(* Every step of the campaign keeps its invariant, and its losses bounded. *)
LEMMA PlanStepKeeps ==
    ASSUME PlanInv, WaveTimed, PlanStep, phase # "profiling",
           losses.failures \in 0..MaxFailures, losses.cuts \in 0..MaxCuts
    PROVE  /\ PlanInv' /\ WaveTimed'
           /\ losses'.failures \in 0..MaxFailures /\ losses'.cuts \in 0..MaxCuts
           /\ phase' \in {"manifest", "planned", "locked", "rejected", "error"}
<1>1. CASE BuildCampaignPlan
  <2>1. wave' = wave /\ losses' = losses /\ phase = "manifest" /\ phase' \in {"planned", "rejected"}
    BY <1>1 DEF BuildCampaignPlan
  <2>2. WaveTimed'
    BY <2>1 DEF PlanInv, WaveHolds, WaveTimed
  <2> QED
    BY <1>1, <2>1, <2>2, PlanKeepsInv
<1>2. CASE BuildCampaignLock
  <2>1. wave' = wave /\ losses' = losses /\ phase = "planned" /\ phase' = "locked"
    BY <1>2 DEF BuildCampaignLock
  <2>2. WaveTimed'
    BY <2>1 DEF PlanInv, WaveHolds, WaveTimed
  <2> QED
    BY <1>2, <2>1, <2>2, LockKeepsInv
<1>3. CASE SubmitWave
  <2>1. losses' = losses /\ phase' \in {"locked", "error"}
    BY <1>3 DEF SubmitWave, Start, Idling
  <2> QED
    BY <1>3, <2>1, SubmitKeepsInv, SubmitKeepsTime
<1>4. CASE RetryWave
  <2>1. losses' = losses /\ phase' \in {"locked", "error"}
    BY <1>4 DEF RetryWave, Start, Idling
  <2> QED
    BY <1>4, <2>1, RetryKeepsInv, RetryKeepsTime
<1>5. CASE RunWave
  <2>1. wave' = NoWave /\ wave # NoWave /\ phase' = "locked" /\ phase = "locked"
    BY <1>5 DEF RunWave
  <2>2. WaveTimed'
    BY <2>1 DEF WaveTimed
  <2>3. PICK failed \in SUBSET wave.shards, left \in SUBSET wave.shards :
          /\ losses.failures + Cardinality(failed) <= MaxFailures
          /\ losses.cuts + (IF left = {} THEN 0 ELSE 1) <= MaxCuts
          /\ losses' = [failures |-> losses.failures + Cardinality(failed),
                        cuts |-> losses.cuts + IF left = {} THEN 0 ELSE 1]
    BY <1>5 DEF RunWave
  <2>4. wave.shards \subseteq Shards
    BY <2>1 DEF PlanInv, WaveHolds, LockHolds, NewWaves, Chunked, NewShards, ShardsOf
  <2>5. Cardinality(failed) \in Nat
    <3>1. IsFiniteSet(Shards)
      BY <2>1, ShardsAreFinite DEF PlanInv, PlanAccepted
    <3> QED
      BY <2>4, <3>1, FS_Subset, FS_CardinalityType
  <2>6. losses'.failures \in 0..MaxFailures /\ losses'.cuts \in 0..MaxCuts
    BY <2>3, <2>5, PlanBounds
  <2> QED
    BY <1>5, <2>1, <2>2, <2>6, RunKeepsInv
<1> QED
  BY <1>1, <1>2, <1>3, <1>4, <1>5 DEF PlanStep

(* The manifest that takes over a selection is a manifest.                 *)
LEMMA BindKeeps == Inv /\ BindProfile => Inv'
<1> SUFFICES ASSUME Inv, BindProfile PROVE Inv'
  OBVIOUS
<1> DEFINE c == disk.profile.choice
<1>1. /\ phase = "profiling" /\ phase' = "manifest" /\ wave' = wave /\ losses' = losses
      /\ wave = NoWave /\ ProfileInv /\ job' = job /\ pplan' = pplan /\ expired' = FALSE
      /\ disk.marker = "_SELECTED" /\ spec' = [spec EXCEPT !.profile = c, !.concurrent = c]
  BY DEF Inv, BindProfile, PhasesHold
<1>2. c \in Nat \ {0}
  BY <1>1, LadderAssumption DEF ProfileInv, SelectionHolds
<1>3. job = Idle
  BY <1>1 DEF ProfileInv, StagesHold
<1>4. IsManifest(spec)
  BY DEF Inv, PlanInv
<1> HIDE DEF c
<1>5. IsManifest(spec')
  <2>1. DOMAIN spec' = ManifestFields /\ DOMAIN spec = ManifestFields
    BY <1>1, <1>4 DEF IsManifest
  <2>2. \A f \in ManifestFields \ {"profile", "concurrent"} : spec'[f] = spec[f]
    BY <1>1, <2>1
  <2>3. spec'.profile = c /\ spec'.concurrent = c
    BY <1>1, <2>1 DEF ManifestFields
  <2>4. /\ spec'.cells = spec.cells /\ spec'.digest = spec.digest /\ spec'.tasks = spec.tasks
        /\ spec'.attempts = spec.attempts /\ spec'.shardSize = spec.shardSize
        /\ spec'.perWave = spec.perWave /\ spec'.limit = spec.limit
        /\ spec'.trialSeconds = spec.trialSeconds /\ spec'.reserve = spec.reserve
        /\ spec'.waveTimeout = spec.waveTimeout /\ spec'.headroom = spec.headroom
    BY <2>2 DEF ManifestFields
  <2> QED
    BY <1>2, <1>4, <2>1, <2>3, <2>4 DEF IsManifest
<1>6. PlanInv'
  <2>1. LossShape' /\ losses'.cuts \in Nat
    BY <1>1 DEF Inv, PlanInv, LossShape, ChunksLeft
  <2>2. PlanAccepted' /\ LockHolds' /\ WaveHolds' /\ ChunksLeft'
    BY <1>1, <2>1 DEF PlanAccepted, LockHolds, WaveHolds, ChunksLeft
  <2> QED
    BY <1>5, <2>1, <2>2 DEF PlanInv
<1>7. WaveTimed'
  BY <1>1 DEF WaveTimed
<1>8. PhasesHold'
  <2>1. disk' = [disk EXCEPT !.points = NoPoints, !.archived = {}, !.profile.points = NoPoints]
    BY DEF BindProfile
  <2>2. disk'.points = NoPoints /\ disk'.stage = disk.stage /\ disk'.marker = disk.marker
    BY <1>1, <2>1 DEF ProfileInv, DiskShape
  <2> QED
    BY <1>1, <1>3, <2>2 DEF Inv, PhasesHold, ProfileInv, StagesHold
<1> QED
  BY <1>6, <1>7, <1>8 DEF Inv

(* The invariant holds before anything is planned or measured.             *)
LEMMA InitHolds == Init => Inv
<1> SUFFICES ASSUME Init PROVE Inv
  OBVIOUS
<1>1. PICK m \in Unprofiled \cup Profiled : \E p \in {"profiling", "manifest"} : CInit(m, p)
  BY DEF Init
<1>2. PICK p \in {"profiling", "manifest"} : CInit(m, p)
  BY <1>1
<1>3. IsManifest(spec) /\ phase \in {"profiling", "manifest"} /\ wave = NoWave
      /\ losses = [failures |-> 0, cuts |-> 0]
  BY <1>2, ManifestAssumption DEF CInit
<1>4. PlanInv /\ WaveTimed
  BY <1>3 DEF PlanInv, LossShape, PlanAccepted, LockHolds, WaveHolds, ChunksLeft, WaveTimed
<1>5. pplan \in ProfilePlans /\ disk = Blank /\ job = Idle /\ expired = FALSE
  BY DEF Init, PInit
<1>6. ProfileInv
  <2>1. disk.points = NoPoints /\ disk.stage = "absent" /\ disk.marker = "none"
        /\ disk.profile = NoProfile /\ DiskShape
    BY <1>5 DEF Blank, DiskShape
  <2>2. job.pc = "idle" /\ job.points = NoPoints /\ job.recovered = NoPoints /\ job.todo = {}
        /\ JobShape
    BY <1>5 DEF Idle, JobShape
  <2> QED
    BY <1>5, <2>1, <2>2, NoPointsArePoints
       DEF ProfileInv, StagesHold, RecoveredHolds, PositionHolds, MeasuredHolds, SelectionHolds,
           Measuring, Working
<1>7. PhasesHold
  <2>1. disk.points = NoPoints /\ disk.stage = "absent" /\ disk.marker = "none"
    BY <1>5 DEF Blank
  <2>2. losses.failures \in 0..MaxFailures /\ losses.cuts \in 0..MaxCuts
    BY <1>3, PlanBounds
  <2>3. expired \in BOOLEAN
    BY <1>5
  <2> QED
    BY <1>3, <1>5, <1>6, <2>1, <2>2, <2>3 DEF PhasesHold
<1> QED
  BY <1>4, <1>7 DEF Inv

(* Every step keeps what planning and profiling rest on.                   *)
LEMMA StepKeeps == Inv /\ [Next]_vars => Inv'
<1> SUFFICES ASSUME Inv, [Next]_vars PROVE Inv'
  OBVIOUS
<1>1. CASE ProfileStep
  <2>1. phase = "profiling" /\ PNext /\ UNCHANGED cvars
    BY <1>1 DEF ProfileStep
  <2>2. PlanInv' /\ WaveTimed'
    BY <2>1, CampaignStays DEF Inv
  <2>3. ProfileInv'
    BY <2>1, ProfileKeeps DEF Inv, PhasesHold
  <2>4. pplan' = pplan /\ (expired' = expired \/ expired' = TRUE)
    BY <2>1 DEF PNext, AttemptStep, CreateDestination, RecoverDestination, Begin, LadderStep, Reuse,
         RunPoint, WritePoint, VerifySmoke, BoundaryStep, LadderEnds, CloseTransport, WriteSelection,
         RecheckSelection, Finalize, MarkFailed, Killed, Expire
  <2>5. PhasesHold'
    BY <2>1, <2>3, <2>4 DEF Inv, PhasesHold, cvars
  <2> QED
    BY <2>2, <2>5 DEF Inv
<1>2. CASE BindProfile
  BY <1>2, BindKeeps
<1>3. CASE CampaignStep
  <2>1. phase # "profiling" /\ PlanStep /\ UNCHANGED pvars
    BY <1>3 DEF CampaignStep
  <2>2. /\ PlanInv' /\ WaveTimed'
        /\ losses'.failures \in 0..MaxFailures /\ losses'.cuts \in 0..MaxCuts
        /\ phase' \in {"manifest", "planned", "locked", "rejected", "error"}
    BY <2>1, PlanStepKeeps DEF Inv, PhasesHold
  <2>3. PhasesHold'
    BY <2>1, <2>2 DEF Inv, PhasesHold, pvars
  <2> QED
    BY <2>2, <2>3 DEF Inv
<1>4. CASE UNCHANGED vars
  <2>1. UNCHANGED cvars /\ UNCHANGED pvars
    BY <1>4 DEF vars
  <2>2. PlanInv' /\ WaveTimed'
    BY <2>1, CampaignStays DEF Inv
  <2>3. ProfileInv => ProfileInv'
    <3> SUFFICES ASSUME ProfileInv PROVE ProfileInv'
      OBVIOUS
    <3>1. pplan' = pplan /\ disk' = disk /\ job' = job /\ expired' = expired
      BY <2>1 DEF pvars
    <3>2. Carries(disk.profile.choice, disk.points)' = Carries(disk.profile.choice, disk.points)
      BY <3>1 DEF Carries, Passing, At, PointPassesObjective
    <3>3. SelectionHolds'
      BY <3>1, <3>2 DEF ProfileInv, SelectionHolds
    <3> QED
      BY <3>1, <3>3 DEF ProfileInv, DiskShape, JobShape, StagesHold, RecoveredHolds,
                        PositionHolds, MeasuredHolds
  <2>4. PhasesHold'
    BY <2>1, <2>3 DEF Inv, PhasesHold, cvars, pvars
  <2> QED
    BY <2>2, <2>4 DEF Inv
<1> QED
  BY <1>1, <1>2, <1>3, <1>4 DEF Next

(* Planning and profiling keep their invariant.                            *)
THEOREM PlanningInvariance == Spec => []Inv
BY InitHolds, StepKeeps, PTL DEF Spec

(* build_campaign_plan, build_campaign_lock and the reconciler chunk the   *)
(* shards of a deployment alike: until a wave is cut between two of its    *)
(* shards, no proposal is refused, whatever the manifest, the number of    *)
(* runs and the order of the identities.                                   *)
THEOREM ProposalsAreLocked == Spec => []ProposalsMatchLock
<1>1. Inv => ProposalsMatchLock
  <2> SUFFICES ASSUME Inv PROVE ProposalsMatchLock
    OBVIOUS
  <2>1. losses.cuts \in Nat /\ (losses.cuts = 0 => phase # "error")
    BY DEF Inv, PlanInv, ChunksLeft
  <2> QED
    BY <2>1 DEF ProposalsMatchLock
<1> QED
  BY <1>1, PlanningInvariance, PTL

(* A provider wave of a deployment with at most two runs was given enough  *)
(* time for its batches, although the time was planned in another order.   *)
THEOREM WavesHaveTheirTime == Spec => []WaveHasItsTime
<1>1. Inv => WaveHasItsTime
  BY TimedWavesHaveTheirTime DEF Inv
<1> QED
  BY <1>1, PlanningInvariance, PTL

(* A selected profile names the points of the Bucket and no other, and its *)
(* concurrency passed as often as the objective asks, over any sequence of *)
(* killed, resumed, expired and failed attempts.                           *)
THEOREM SelectionRestsOnEvidence == Spec => []SelectedFromEvidence
<1>1. Inv => SelectedFromEvidence
  <2> SUFFICES ASSUME Inv, disk.marker = "_SELECTED", disk.points # NoPoints
               PROVE  disk.profile.points = disk.points /\ Carries(disk.profile.choice, disk.points)
    BY DEF SelectedFromEvidence, Carries
  <2>1. ProfileInv
    BY DEF Inv, PhasesHold
  <2> QED
    BY <2>1 DEF ProfileInv, SelectionHolds
<1> QED
  BY <1>1, PlanningInvariance, PTL

(* Profiling and planning are type-correct.                                *)
THEOREM PlanningTyped == Spec => []TypeOK
<1>1. Inv => TypeOK
  <2> SUFFICES ASSUME Inv PROVE TypeOK
    OBVIOUS
  <2>1. PTypeOK
    <3>1. CASE phase = "profiling"
      BY <3>1 DEF Inv, PhasesHold, ProfileInv, PTypeOK, IsPoints, StagesHold, RecoveredHolds
    <3>2. CASE phase # "profiling"
      <4>1. DOMAIN disk.points = {} /\ DOMAIN job.recovered = {}
        BY <3>2, NoPointsArePoints DEF Inv, PhasesHold, Idle
      <4> QED
        BY <3>2, <4>1 DEF Inv, PhasesHold, PTypeOK
    <3> QED
      BY <3>1, <3>2
  <2> QED
    BY <2>1 DEF Inv, PhasesHold, PlanInv, LockHolds, TypeOK
<1> QED
  BY <1>1, PlanningInvariance, PTL

-----------------------------------------------------------------------------
(* Replaying. A measurement that has the points D goes on by itself from   *)
(* the ladder's start until it asks for a point that is not in D, or ends. *)

(* What a measurement depends on.                                          *)
Control(j) ==
    [pc |-> IF j.pc = "archived" THEN "obtain" ELSE j.pc, phase |-> j.phase, at |-> j.at,
     todo |-> j.todo, points |-> j.points]

ControlRecord(j) ==
    j = [pc |-> j.pc, phase |-> j.phase, at |-> j.at, todo |-> j.todo, points |-> j.points]

Start0 == [pc |-> "ladder", phase |-> "ladder", at |-> <<Min(Ladder), 1>>, todo |-> {},
           points |-> NoPoints]

CanGo(j, D) ==
    \/ j.pc \in {"ladder", "smoke"}
    \/ j.pc = "boundary" /\ j.todo # {}
    \/ j.pc = "obtain" /\ j.at \in DOMAIN D

Advance(j, D) ==
    IF j.pc = "ladder" THEN [j EXCEPT !.pc = "obtain"]
    ELSE IF j.pc = "smoke" THEN [j EXCEPT !.pc = "obtain", !.at = <<j.at[1], 2>>]
    ELSE IF j.pc = "boundary"
         THEN IF Enough(j.points, Min(j.todo)) THEN [j EXCEPT !.todo = j.todo \ {Min(j.todo)}]
              ELSE [j EXCEPT !.pc = "obtain", !.at = NextRep(j.points, Min(j.todo))]
    ELSE Continue([j EXCEPT !.points = Put(j.points, j.at, D[j.at])])

(* From x a measurement with the points D comes to q and no further, with  *)
(* all of D, and P is what it comes through.                               *)
Path(P, x, q, D) ==
    /\ x \in P /\ q \in P /\ ~CanGo(q, D) /\ DOMAIN q.points = DOMAIN D
    /\ \A j \in P \ {q} : CanGo(j, D) /\ Advance(j, D) \in P

(* The next repetition was not measured.                                   *)
LEMMA NextRepIsNew ==
    ASSUME NEW points, IsPoints(points), NEW c \in Concurrencies(points)
    PROVE  NextRep(points, c) \notin DOMAIN points
<1> DEFINE A == At(points, c)
           R == {k[2] : k \in A}
<1>1. A \subseteq DOMAIN points /\ A # {} /\ DOMAIN points \subseteq Ladder \X Nat
  BY DEF At, Concurrencies, IsPoints
<1>2. IsFiniteSet(A)
  <2> HIDE DEF A
  <2> QED
    BY <1>1, FS_Subset DEF IsPoints
<1>3. IsFiniteSet(R)
  <2> DEFINE f == [k \in A |-> k[2]]
  <2>1. f \in Surjection(A, R)
    BY DEF Surjection
  <2> HIDE DEF f, A, R
  <2> QED
    BY <1>2, <2>1, FS_Surjection
<1>4. R \subseteq Nat /\ R # {}
  BY <1>1
<1> DEFINE m == Max(R)
<1>5. m \in Nat /\ \A r \in R : r <= m
  <2> HIDE DEF R
  <2> QED
    BY <1>3, <1>4, MaxIsLargest
<1>6. NextRep(points, c) = <<c, m + 1>>
  BY DEF NextRep
<1> HIDE DEF m
<1> SUFFICES ASSUME <<c, m + 1>> \in DOMAIN points PROVE FALSE
  BY <1>6
<1>7. <<c, m + 1>> \in A /\ <<c, m + 1>>[2] = m + 1
  BY DEF At
<1>8. m + 1 \in R
  BY <1>7
<1> QED
  BY <1>5, <1>8

(* The boundary comes to a repetition that is missing, or to its end.      *)
LEMMA BoundarySettles ==
    ASSUME NEW points, IsPoints(points), NEW D, DOMAIN D = DOMAIN points, NEW a,
           NEW todo \in SUBSET Concurrencies(points)
    PROVE  \E P, q : Path(P, [pc |-> "boundary", phase |-> "boundary", at |-> a,
                              todo |-> todo, points |-> points], q, D)
<1> DEFINE R(t) == [pc |-> "boundary", phase |-> "boundary", at |-> a, todo |-> t, points |-> points]
           All == Concurrencies(points)
           U == {n \in Nat : \A t \in SUBSET All : Cardinality(t) = n => \E P, q : Path(P, R(t), q, D)}
<1>1. IsFiniteSet(All) /\ All \subseteq Nat
  <2>1. IsFiniteSet(All)
    <3> DEFINE f == [k \in DOMAIN points |-> k[1]]
    <3>1. f \in Surjection(DOMAIN points, All)
      BY DEF Surjection, Concurrencies
    <3> HIDE DEF f
    <3> QED
      BY <3>1, FS_Surjection DEF IsPoints
  <2>2. All \subseteq Ladder
    BY DEF Concurrencies, IsPoints
  <2> QED
    BY <2>1, <2>2, LadderAssumption
<1>2. \A t \in SUBSET All : IsFiniteSet(t) /\ Cardinality(t) \in Nat
  BY <1>1, FS_Subset, FS_CardinalityType
<1>3. ASSUME NEW t \in SUBSET All, t = {} PROVE \E P, q : Path(P, R(t), q, D)
  <2> DEFINE r == R(t)
  <2>1. r.pc = "boundary" /\ r.todo = {} /\ r.points = points
    BY <1>3
  <2>2. ~CanGo(r, D)
    <3> HIDE DEF r
    <3> QED
      BY <2>1 DEF CanGo
  <2>3. Path({r}, r, r, D)
    <3> HIDE DEF r
    <3> QED
      BY <2>1, <2>2 DEF Path
  <2> QED
    BY <2>3
<1>4. 0 \in U
  BY <1>2, <1>3, FS_EmptySet
<1>5. ASSUME NEW n \in Nat, n \in U PROVE n + 1 \in U
  <2> SUFFICES ASSUME NEW t \in SUBSET All, Cardinality(t) = n + 1
               PROVE  \E P, q : Path(P, R(t), q, D)
    OBVIOUS
  <2>1. t # {}
    BY <1>5, FS_EmptySet
  <2> DEFINE c == Min(t)
             r == R(t)
             s == R(t \ {c})
             o == [pc |-> "obtain", phase |-> "boundary", at |-> NextRep(points, c), todo |-> t,
                   points |-> points]
  <2>2. c \in t /\ t \subseteq Nat
    <3>1. t \subseteq Nat
      BY <1>1
    <3> QED
      BY <2>1, <3>1, MinIsSmallest
  <2>3. r.pc = "boundary" /\ r.todo = t /\ r.points = points /\ CanGo(r, D)
    BY <2>1 DEF CanGo
  <2>4. CASE Enough(points, c)
    <3>1. Advance(r, D) = s
      <4>1. Advance(r, D) = [r EXCEPT !.todo = t \ {c}]
        BY <2>3, <2>4 DEF Advance
      <4> QED
        BY <4>1
    <3>2. Cardinality(t \ {c}) = n /\ t \ {c} \in SUBSET All
      <4>1. IsFiniteSet(t) /\ t \ {c} \in SUBSET All
        BY <1>2
      <4> HIDE DEF U, All, c
      <4>2. Cardinality(t \ {c}) = Cardinality(t) - 1
        BY <2>2, <4>1, FS_RemoveElement
      <4> QED
        BY <1>5, <4>1, <4>2
    <3>3. PICK P, q : Path(P, s, q, D)
      BY <1>5, <3>2
    <3> HIDE DEF r, s, c, U, All
    <3>4. Path(P \cup {r}, r, q, D)
      BY <2>3, <3>1, <3>3 DEF Path
    <3> QED
      BY <3>4 DEF r
  <2>5. CASE ~Enough(points, c)
    <3>1. Advance(r, D) = o
      <4>1. Advance(r, D) = [r EXCEPT !.pc = "obtain", !.at = NextRep(points, c)]
        BY <2>3, <2>5 DEF Advance
      <4> QED
        BY <4>1
    <3>2. NextRep(points, c) \notin DOMAIN D
      BY <2>2, NextRepIsNew
    <3>3. o.pc = "obtain" /\ o.at \notin DOMAIN D /\ o.points = points
      BY <3>2
    <3> HIDE DEF r, o, s, c, U, All
    <3>4. ~CanGo(o, D)
      BY <3>3 DEF CanGo
    <3>5. Path({r, o}, r, o, D)
      BY <2>3, <3>1, <3>3, <3>4 DEF Path
    <3> QED
      BY <3>5 DEF r
  <2> QED
    BY <2>4, <2>5
<1>6. Nat \subseteq U
  <2> HIDE DEF U
  <2> QED
    BY <1>4, <1>5, Climbs
<1>7. Cardinality(todo) \in U /\ todo \in SUBSET All
  BY <1>2, <1>6
<1> QED
  BY <1>7

(* After a point, a measurement comes to the next one it needs.            *)
LEMMA Settles ==
    ASSUME NEW x, ControlRecord(x), IsPoints(x.points), NEW D, DOMAIN D = DOMAIN x.points,
           x.pc \in {"ladder", "smoke", "boundary"},
           x.todo \subseteq Concurrencies(x.points),
           x.pc = "boundary" => x.phase = "boundary",
           x.pc = "ladder" => x.at \notin DOMAIN D,
           x.pc = "smoke" => <<x.at[1], 2>> \notin DOMAIN D
    PROVE  \E P, q : Path(P, x, q, D)
<1>1. CASE x.pc = "boundary"
  <2>1. x = [pc |-> "boundary", phase |-> "boundary", at |-> x.at, todo |-> x.todo,
             points |-> x.points]
    BY <1>1 DEF ControlRecord
  <2> QED
    BY <2>1, BoundarySettles
<1>2. CASE x.pc = "ladder"
  <2> DEFINE o == [x EXCEPT !.pc = "obtain"]
  <2>1. Advance(x, D) = o /\ CanGo(x, D)
    BY <1>2 DEF Advance, CanGo
  <2>2. o.pc = "obtain" /\ o.at \notin DOMAIN D /\ DOMAIN o.points = DOMAIN D
    BY <1>2 DEF ControlRecord
  <2> HIDE DEF o
  <2>3. Path({x, o}, x, o, D)
    BY <2>1, <2>2 DEF Path, CanGo
  <2> QED
    BY <2>3
<1>3. CASE x.pc = "smoke"
  <2> DEFINE o == [x EXCEPT !.pc = "obtain", !.at = <<x.at[1], 2>>]
  <2>1. Advance(x, D) = o /\ CanGo(x, D)
    BY <1>3 DEF Advance, CanGo
  <2>2. o.pc = "obtain" /\ o.at \notin DOMAIN D /\ DOMAIN o.points = DOMAIN D
    BY <1>3 DEF ControlRecord
  <2> HIDE DEF o
  <2>3. Path({x, o}, x, o, D)
    BY <2>1, <2>2 DEF Path, CanGo
  <2> QED
    BY <2>3
<1> QED
  BY <1>1, <1>2, <1>3

(* A point that the measurement asked for lengthens its path.              *)
LEMMA PathGrows ==
    ASSUME NEW C, NEW s, NEW q, NEW D, Path(C, s, q, D), q.pc = "obtain", q.at \notin DOMAIN D,
           NEW v, NEW P, NEW r,
           Path(P, Continue([q EXCEPT !.points = Put(q.points, q.at, v)]), r, Put(D, q.at, v))
    PROVE  Path(C \cup P, s, r, Put(D, q.at, v))
<1> DEFINE E == Put(D, q.at, v)
           x == Continue([q EXCEPT !.points = Put(q.points, q.at, v)])
<1>1. DOMAIN E = DOMAIN D \cup {q.at} /\ E[q.at] = v /\ \A k \in DOMAIN D : E[k] = D[k]
  BY DEF Put
<1>2. Advance(q, E) = x /\ CanGo(q, E)
  BY <1>1 DEF Advance, CanGo
<1>3. Path(P, x, r, E)
  OBVIOUS
<1> HIDE DEF E, x
<1>4. ASSUME NEW j \in C, j # q PROVE CanGo(j, E) /\ Advance(j, E) \in C
  <2>1. CanGo(j, D) /\ Advance(j, D) \in C
    BY <1>4 DEF Path
  <2>2. CanGo(j, E)
    BY <1>1, <2>1 DEF CanGo
  <2>3. Advance(j, E) = Advance(j, D)
    <3>1. CASE j.pc = "obtain"
      <4>1. E[j.at] = D[j.at]
        BY <1>1, <2>1, <3>1 DEF CanGo
      <4> QED
        BY <3>1, <4>1 DEF Advance
    <3>2. CASE j.pc # "obtain"
      <4>1. j.pc \in {"ladder", "smoke", "boundary"}
        BY <2>1, <3>2 DEF CanGo
      <4> QED
        BY <4>1 DEF Advance
    <3> QED
      BY <3>1, <3>2
  <2> QED
    BY <2>1, <2>2, <2>3
<1>5. \A j \in (C \cup P) \ {r} : CanGo(j, E) /\ Advance(j, E) \in C \cup P
  <2> SUFFICES ASSUME NEW j \in C \cup P, j # r PROVE CanGo(j, E) /\ Advance(j, E) \in C \cup P
    OBVIOUS
  <2>1. CASE j \in P
    BY <1>3, <2>1 DEF Path
  <2>2. CASE j \notin P /\ j # q
    BY <1>4, <2>2
  <2>3. CASE j = q
    BY <1>2, <1>3, <2>3 DEF Path
  <2> QED
    BY <2>1, <2>2, <2>3
<1>6. Path(C \cup P, s, r, E)
  BY <1>3, <1>5 DEF Path
<1> QED
  BY <1>6 DEF E

(* The point asked for next is behind all the ladder has.                  *)
Fresh(j) ==
    /\ j.phase \in {"ladder", "boundary"}
    /\ j.pc \in {"ladder", "smoke"} => j.phase = "ladder"
    /\ j.pc = "boundary" => j.phase = "boundary"
    /\ j.pc \in {"ladder", "obtain", "archived"} => j.at \notin DOMAIN j.points
    /\ j.phase = "ladder" /\ j.pc \in {"ladder", "obtain", "archived"} =>
         /\ j.at[2] \in {1, 2}
         /\ \A k \in DOMAIN j.points : k[1] < j.at[1] \/ (k[1] = j.at[1] /\ k[2] < j.at[2])
    /\ j.pc = "smoke" =>
         /\ j.at[2] = 1
         /\ \A k \in DOMAIN j.points : k[1] < j.at[1] \/ (k[1] = j.at[1] /\ k[2] < 2)

(* How an attempt goes on depends on its control alone.                    *)
LEMMA ContinueIsControlled ==
    ASSUME NEW j, JobRecord(j)
    PROVE  Control(Continue(j)) = Continue(Control(j)) /\ ControlRecord(Continue(Control(j)))
<1> DEFINE d == Control(j)
           c == j.at[1]
           passes == PointPassesObjective(j.points[j.at])
<1>1. d.phase = j.phase /\ d.at = j.at /\ d.todo = j.todo /\ d.points = j.points
      /\ d = [pc |-> d.pc, phase |-> j.phase, at |-> j.at, todo |-> j.todo, points |-> j.points]
  BY DEF Control
<1> HIDE DEF d
<1>2. CASE j.phase = "boundary"
  <2> DEFINE t == IF passes THEN j.todo ELSE j.todo \ {c}
  <2>1. Continue(j) = [j EXCEPT !.pc = "boundary", !.todo = t]
        /\ Continue(d) = [d EXCEPT !.pc = "boundary", !.todo = t]
    BY <1>1, <1>2 DEF Continue
  <2> HIDE DEF t
  <2>2. Control(Continue(j)) = [pc |-> "boundary", phase |-> j.phase, at |-> j.at, todo |-> t,
                                points |-> j.points]
    BY <2>1 DEF JobRecord, Control
  <2>3. Continue(d) = [pc |-> "boundary", phase |-> j.phase, at |-> j.at, todo |-> t,
                       points |-> j.points]
    BY <1>1, <2>1
  <2> QED
    BY <2>2, <2>3 DEF ControlRecord, d
<1>3. CASE j.phase # "boundary" /\ ~passes /\ j.at[2] = 1
  <2>1. Continue(j) = [j EXCEPT !.pc = "smoke"] /\ Continue(d) = [d EXCEPT !.pc = "smoke"]
    BY <1>1, <1>3 DEF Continue
  <2>2. Control(Continue(j)) = [pc |-> "smoke", phase |-> j.phase, at |-> j.at, todo |-> j.todo,
                                points |-> j.points]
    BY <2>1 DEF JobRecord, Control
  <2>3. Continue(d) = [pc |-> "smoke", phase |-> j.phase, at |-> j.at, todo |-> j.todo,
                       points |-> j.points]
    BY <1>1, <2>1
  <2> QED
    BY <2>2, <2>3 DEF ControlRecord, d
<1>4. CASE /\ j.phase # "boundary" /\ ~(~passes /\ j.at[2] = 1)
           /\ ~passes \/ Flattened(j.points) \/ Above(c) = {}
  <2> DEFINE t == LastOf(Passed(j.points), 2)
  <2>1. Continue(j) = [j EXCEPT !.pc = "boundary", !.phase = "boundary", !.todo = t]
        /\ Continue(d) = [d EXCEPT !.pc = "boundary", !.phase = "boundary", !.todo = t]
    BY <1>1, <1>4 DEF Continue, Boundary
  <2> HIDE DEF t
  <2>2. Control(Continue(j)) = [pc |-> "boundary", phase |-> "boundary", at |-> j.at, todo |-> t,
                                points |-> j.points]
    BY <2>1 DEF JobRecord, Control
  <2>3. Continue(d) = [pc |-> "boundary", phase |-> "boundary", at |-> j.at, todo |-> t,
                       points |-> j.points]
    BY <1>1, <2>1
  <2> QED
    BY <2>2, <2>3 DEF ControlRecord, d
<1>5. CASE /\ j.phase # "boundary" /\ ~(~passes /\ j.at[2] = 1)
           /\ ~(~passes \/ Flattened(j.points) \/ Above(c) = {})
  <2> DEFINE a == <<Min(Above(c)), 1>>
  <2>1. Continue(j) = [j EXCEPT !.pc = "ladder", !.at = a]
        /\ Continue(d) = [d EXCEPT !.pc = "ladder", !.at = a]
    BY <1>1, <1>5 DEF Continue
  <2> HIDE DEF a
  <2>2. Control(Continue(j)) = [pc |-> "ladder", phase |-> j.phase, at |-> a, todo |-> j.todo,
                                points |-> j.points]
    BY <2>1 DEF JobRecord, Control
  <2>3. Continue(d) = [pc |-> "ladder", phase |-> j.phase, at |-> a, todo |-> j.todo,
                       points |-> j.points]
    BY <1>1, <2>1
  <2> QED
    BY <2>2, <2>3 DEF ControlRecord, d
<1> QED
  BY <1>2, <1>3, <1>4, <1>5

(* After a point the next one is fresh again.                              *)
LEMMA ContinueIsFresh ==
    ASSUME NEW j, JobRecord(j), j.at \in Ladder \X Nat, j.phase \in {"ladder", "boundary"},
           DOMAIN j.points \subseteq Ladder \X Nat,
           j.phase = "ladder" =>
             /\ j.at[2] \in {1, 2}
             /\ \A k \in DOMAIN j.points : k[1] < j.at[1] \/ (k[1] = j.at[1] /\ k[2] <= j.at[2])
    PROVE  Fresh(Continue(j))
<1> DEFINE c == j.at[1]
           passes == PointPassesObjective(j.points[j.at])
           x == Continue(j)
<1>0. c \in Nat /\ c \in Ladder /\ \A k \in DOMAIN j.points : k[1] \in Nat /\ k[2] \in Nat
  BY LadderAssumption
<1>1. CASE j.phase = "boundary"
  <2>1. x = [j EXCEPT !.pc = "boundary", !.todo = IF passes THEN @ ELSE @ \ {c}]
    BY <1>1 DEF Continue
  <2> HIDE DEF c, passes, x
  <2>2. x.pc = "boundary" /\ x.phase = "boundary"
    BY <1>1, <2>1 DEF JobRecord
  <2>3. Fresh(x)
    BY <2>2 DEF Fresh
  <2> QED
    BY <2>3 DEF x
<1>2. CASE j.phase = "ladder" /\ ~passes /\ j.at[2] = 1
  <2>1. x = [j EXCEPT !.pc = "smoke"]
    BY <1>2 DEF Continue
  <2> HIDE DEF c, passes, x
  <2>2. x.pc = "smoke" /\ x.phase = "ladder" /\ x.at = j.at /\ x.points = j.points
    BY <1>2, <2>1 DEF JobRecord
  <2>3. \A k \in DOMAIN j.points : k[1] < j.at[1] \/ (k[1] = j.at[1] /\ k[2] < 2)
    BY <1>0, <1>2
  <2>4. Fresh(x)
    BY <1>2, <2>2, <2>3 DEF Fresh
  <2> QED
    BY <2>4 DEF x
<1>3. CASE /\ j.phase = "ladder" /\ ~(~passes /\ j.at[2] = 1)
           /\ ~passes \/ Flattened(j.points) \/ Above(c) = {}
  <2>1. x = [j EXCEPT !.pc = "boundary", !.phase = "boundary", !.todo = LastOf(Passed(j.points), 2)]
    BY <1>3 DEF Continue, Boundary
  <2> HIDE DEF c, passes, x
  <2>2. x.pc = "boundary" /\ x.phase = "boundary"
    BY <2>1 DEF JobRecord
  <2>3. Fresh(x)
    BY <2>2 DEF Fresh
  <2> QED
    BY <2>3 DEF x
<1>4. CASE /\ j.phase = "ladder" /\ ~(~passes /\ j.at[2] = 1)
           /\ ~(~passes \/ Flattened(j.points) \/ Above(c) = {})
  <2> DEFINE m == Min(Above(c))
  <2>1. x = [j EXCEPT !.pc = "ladder", !.at = <<m, 1>>]
    BY <1>4 DEF Continue
  <2>2. Above(c) \subseteq Nat /\ Above(c) # {}
    BY <1>4, LadderAssumption DEF Above
  <2>3. m \in Above(c)
    <3> HIDE DEF c
    <3> QED
      BY <2>2, MinIsSmallest
  <2>4. m > c /\ m \in Nat
    BY <2>2, <2>3 DEF Above
  <2>5. \A k \in DOMAIN j.points : k[1] < m
    <3> HIDE DEF m
    <3> QED
      BY <1>0, <1>4, <2>4
  <2> HIDE DEF c, passes, x, m
  <2>6. x.pc = "ladder" /\ x.phase = "ladder" /\ x.at = <<m, 1>> /\ x.points = j.points
    BY <1>4, <2>1 DEF JobRecord
  <2>7. <<m, 1>> \notin DOMAIN j.points
    <3> SUFFICES ASSUME <<m, 1>> \in DOMAIN j.points PROVE FALSE
      OBVIOUS
    <3>1. <<m, 1>>[1] < m
      BY <2>5
    <3> QED
      BY <2>4, <3>1
  <2>8. Fresh(x)
    BY <2>5, <2>6, <2>7 DEF Fresh
  <2> QED
    BY <2>8 DEF x
<1> QED
  BY <1>1, <1>2, <1>3, <1>4

(* While there is time, the points on the Bucket are those that the        *)
(* measurement comes through by itself, and an attempt is on that path.    *)
OnPath ==
    ~expired /\ disk.stage = "open" =>
        \E C, q : /\ Path(C, Start0, q, disk.points)
                  /\ job.pc \in Measuring => Control(job) \in C

Consumes ==
    ~expired /\ job.pc \in Measuring =>
        job.consumed = DOMAIN job.recovered \cap DOMAIN job.points /\ Fresh(job)

BeginsAnew ==
    job.pc = "begin" => job = [Idle EXCEPT !.pc = "begin", !.recovered = job.recovered]

ReplayInv == OnPath /\ Consumes /\ BeginsAnew /\ ReplayReachesAll

(* A path through the points that will be there is one through those that  *)
(* are there then.                                                         *)
LEMMA PathMoves ==
    ASSUME pplan' = pplan, NEW D, disk'.points = D, NEW C, NEW q, Path(C, Start0, q, D)
    PROVE  Path(C, Start0, q, disk.points)'
<1>1. Start0' = Start0
  OBVIOUS
<1>2. \A j : CanGo(j, disk.points)' <=> CanGo(j, D)
  BY DEF CanGo
<1>3. ASSUME NEW j PROVE Advance(j, disk.points)' = Advance(j, D)
  <2> DEFINE i == [j EXCEPT !.points = Put(j.points, j.at, disk.points[j.at])]
  <2>1. \A ps : Flattened(ps)' = Flattened(ps)
    BY DEF Flattened
  <2>2. ASSUME NEW y PROVE Continue(y)' = Continue(y)
    BY <2>1 DEF Continue
  <2>3. PICK y : y = [j EXCEPT !.points = Put(j.points, j.at, D[j.at])]
    OBVIOUS
  <2>4. Continue(i)' = Continue(y)'
    BY <2>3 DEF Continue, Flattened
  <2> QED
    BY <2>2, <2>3, <2>4 DEF Advance
<1> QED
  BY <1>1, <1>2, <1>3 DEF Path

(* A path stays one while points and plan do.                              *)
LEMMA PathStays ==
    ASSUME pplan' = pplan, disk'.points = disk.points, NEW C, NEW q,
           Path(C, Start0, q, disk.points)
    PROVE  Path(C, Start0, q, disk.points)'
BY PathMoves

(* Steps outside the measurement.                                          *)
LEMMA QuietReplays ==
    ASSUME ReplayInv, pplan' = pplan, disk'.stage = disk.stage, disk'.points = disk.points,
           ~expired' => ~expired, job'.pc \notin Measuring, job'.pc # "begin",
           job'.why = "unreachable" => expired'
    PROVE  ReplayInv'
<1>1. OnPath'
  <2> SUFFICES ASSUME ~expired', disk'.stage = "open"
               PROVE  \E C, q : Path(C, Start0, q, disk.points)'
    BY DEF OnPath
  <2>1. PICK C, q : Path(C, Start0, q, disk.points)
    BY DEF ReplayInv, OnPath
  <2> QED
    BY <2>1, PathStays
<1> QED
  BY <1>1 DEF ReplayInv, Consumes, BeginsAnew, ReplayReachesAll

(* Steps of the measurement that write nothing go along the path.          *)
LEMMA AlongThePath ==
    ASSUME ReplayInv, ProfileInv, pplan' = pplan, expired' = expired, disk'.stage = disk.stage,
           disk'.points = disk.points, job.pc \in Measuring, job'.pc \in Measuring,
           \/ Control(job') = Control(job)
           \/ CanGo(Control(job), disk.points) /\ Control(job') = Advance(Control(job), disk.points),
           ~expired => job'.consumed = DOMAIN job'.recovered \cap DOMAIN job'.points /\ Fresh(job'),
           job'.why = job.why
    PROVE  ReplayInv'
<1>1. OnPath'
  <2> SUFFICES ASSUME ~expired', disk'.stage = "open"
               PROVE  \E C, q : Path(C, Start0, q, disk.points)' /\ Control(job') \in C
    BY DEF OnPath
  <2>1. PICK C, q : Path(C, Start0, q, disk.points) /\ Control(job) \in C
    BY DEF ReplayInv, OnPath
  <2>2. Control(job') \in C
    BY <2>1 DEF Path
  <2> QED
    BY <2>1, <2>2, PathStays
<1>2. Consumes' /\ BeginsAnew' /\ ReplayReachesAll'
  BY DEF ReplayInv, Consumes, BeginsAnew, ReplayReachesAll, Measuring
<1> QED
  BY <1>1, <1>2 DEF ReplayInv

(* Without points the path is the first request for one.                   *)
LEMMA CreateReplays == ProfileInv /\ ReplayInv /\ CreateDestination => ReplayInv'
<1> SUFFICES ASSUME ProfileInv, ReplayInv, CreateDestination PROVE ReplayInv'
  OBVIOUS
<1>1. job = Idle /\ disk.points = NoPoints /\ pplan' = pplan /\ expired' = expired
  BY DEF ProfileInv, CreateDestination, StagesHold
<1>2. disk'.points = NoPoints
  BY <1>1 DEF CreateDestination, ProfileInv, DiskShape
<1>3. job' = Idle \/ job' = [Idle EXCEPT !.pc = "begin"]
  BY <1>1 DEF CreateDestination
<1>4. job'.pc \in {"idle", "begin"} /\ job'.why = "none"
      /\ (job'.pc = "begin" => job' = [Idle EXCEPT !.pc = "begin", !.recovered = job'.recovered])
  <2>1. job'.recovered = NoPoints /\ Idle.recovered = NoPoints
        /\ job'.pc \in {"idle", "begin"} /\ job'.why = "none" /\ Idle.pc = "idle"
    BY <1>3 DEF Idle
  <2>2. [Idle EXCEPT !.pc = "begin", !.recovered = NoPoints] = [Idle EXCEPT !.pc = "begin"]
    <3> DEFINE e == [Idle EXCEPT !.pc = "begin"]
    <3>1. e.recovered = NoPoints /\ e = [k \in DOMAIN e |-> e[k]] /\ "recovered" \in DOMAIN e
      BY DEF Idle
    <3>2. [Idle EXCEPT !.pc = "begin", !.recovered = NoPoints] = [e EXCEPT !.recovered = NoPoints]
      OBVIOUS
    <3> HIDE DEF e
    <3>3. [e EXCEPT !.recovered = NoPoints] = e
      BY <3>1
    <3> QED
      BY <3>2, <3>3 DEF e
  <2> QED
    BY <1>3, <2>1, <2>2
<1>5. \E C, q : Path(C, Start0, q, disk.points)'
  <2> DEFINE o == [Start0 EXCEPT !.pc = "obtain"]
  <2>1. /\ Start0.pc = "ladder" /\ o.pc = "obtain" /\ o.points = NoPoints
        /\ CanGo(Start0, disk'.points) /\ ~CanGo(o, disk'.points)
    BY <1>2, NoPointsArePoints DEF Start0, CanGo
  <2>2. Advance(Start0, disk.points)' = o
    BY <2>1 DEF Advance
  <2> HIDE DEF o
  <2>3. Path({Start0, o}, Start0, o, disk.points)'
    BY <1>2, <2>1, <2>2 DEF Path
  <2> QED
    BY <2>3
<1>6. OnPath' /\ Consumes' /\ BeginsAnew' /\ ReplayReachesAll'
  BY <1>4, <1>5 DEF OnPath, Consumes, BeginsAnew, ReplayReachesAll, Measuring
<1> QED
  BY <1>6 DEF ReplayInv

(* A later attempt changes no point.                                       *)
LEMMA RecoverReplays == ProfileInv /\ ReplayInv /\ RecoverDestination => ReplayInv'
<1> SUFFICES ASSUME ProfileInv, ReplayInv, RecoverDestination PROVE ReplayInv'
  OBVIOUS
<1>1. pplan' = pplan /\ expired' = expired /\ disk' = disk
  BY DEF RecoverDestination
<1>2. job' = [Idle EXCEPT !.pc = "begin", !.recovered = disk.points] \/ job' = [Idle EXCEPT !.pc = "recheck"]
  BY DEF RecoverDestination
<1>3. job'.pc \in {"recheck", "begin"} /\ job'.why = "none"
      /\ (job'.pc = "begin" => job' = [Idle EXCEPT !.pc = "begin", !.recovered = job'.recovered])
  BY <1>2 DEF Idle
<1>4. OnPath'
  <2> SUFFICES ASSUME ~expired', disk'.stage = "open"
               PROVE  \E C, q : Path(C, Start0, q, disk.points)'
    BY <1>3 DEF OnPath, Measuring
  <2>1. PICK C, q : Path(C, Start0, q, disk.points)
    BY <1>1 DEF ReplayInv, OnPath
  <2> QED
    BY <1>1, <2>1, PathStays
<1> QED
  BY <1>3, <1>4 DEF ReplayInv, Consumes, BeginsAnew, ReplayReachesAll, Measuring

(* An attempt starts where every attempt starts.                           *)
LEMMA BeginReplays == ProfileInv /\ ReplayInv /\ Begin => ReplayInv'
<1> SUFFICES ASSUME ProfileInv, ReplayInv, Begin PROVE ReplayInv'
  OBVIOUS
<1>1. disk' = disk /\ pplan' = pplan /\ expired' = expired /\ job.pc = "begin"
  BY DEF Begin
<1>2. CASE job' = [job EXCEPT !.pc = "failing", !.why = "time"] \/ job' = Raise("transport")
  <2>1. job'.pc \in {"failing", "closing"} /\ job'.why # "unreachable"
    BY <1>2 DEF Raise, ProfileInv, JobShape
  <2> QED
    BY <1>1, <2>1, QuietReplays DEF Measuring
<1>3. CASE job' = [job EXCEPT !.pc = "ladder", !.at = <<Min(Ladder), 1>>]
  <2> DEFINE a == <<Min(Ladder), 1>>
             r == job.recovered
  <2>1. job = [Idle EXCEPT !.pc = "begin", !.recovered = r] /\ job' = [job EXCEPT !.pc = "ladder", !.at = a]
    BY <1>1, <1>3 DEF ReplayInv, BeginsAnew
  <2>2. a[2] = 1 /\ Start0 = [pc |-> "ladder", phase |-> "ladder", at |-> a, todo |-> {}, points |-> NoPoints]
    BY DEF Start0
  <2> HIDE DEF a, r
  <2>3. job' = [pc |-> "ladder", phase |-> "ladder", at |-> a, todo |-> {},
                recovered |-> r, consumed |-> {}, points |-> NoPoints,
                held |-> 0, why |-> "none"]
    BY <2>1 DEF Idle
  <2>4. Control(job') = Start0
    BY <2>2, <2>3 DEF Control
  <2>5. Fresh(job') /\ job'.consumed = DOMAIN job'.recovered \cap DOMAIN job'.points
    BY <2>2, <2>3, NoPointsArePoints DEF Fresh
  <2>6. OnPath'
    <3> SUFFICES ASSUME ~expired', disk'.stage = "open"
                 PROVE  \E C, q : Path(C, Start0, q, disk.points)' /\ Control(job') \in C
      BY DEF OnPath
    <3>1. PICK C, q : Path(C, Start0, q, disk.points)
      BY <1>1 DEF ReplayInv, OnPath
    <3>2. Control(job') \in C
      BY <2>4, <3>1 DEF Path
    <3> QED
      BY <1>1, <3>1, <3>2, PathStays
  <2>7. job'.pc = "ladder" /\ job'.why = "none"
    BY <2>3
  <2> QED
    BY <2>5, <2>6, <2>7 DEF ReplayInv, Consumes, BeginsAnew, ReplayReachesAll
<1> QED
  BY <1>2, <1>3 DEF Begin

(* Once the time is over there is nothing to show.                         *)
LEMMA ExpiredReplays ==
    ASSUME expired', job'.pc # "begin" PROVE ReplayInv'
BY DEF ReplayInv, OnPath, Consumes, BeginsAnew, ReplayReachesAll

(* The next point of the ladder is asked for.                              *)
LEMMA LadderReplays == ProfileInv /\ ReplayInv /\ LadderStep => ReplayInv'
<1> SUFFICES ASSUME ProfileInv, ReplayInv, LadderStep PROVE ReplayInv'
  OBVIOUS
<1>1. pplan' = pplan /\ expired' = expired /\ job.pc = "ladder"
  BY DEF LadderStep
<1>2. CASE ~expired
  <2>1. disk' = disk /\ job' = [job EXCEPT !.pc = "obtain"]
    BY <1>2 DEF LadderStep
  <2>2. /\ job'.pc = "obtain" /\ job'.at = job.at /\ job'.points = job.points
        /\ job'.recovered = job.recovered /\ job'.todo = job.todo /\ job'.consumed = job.consumed
        /\ job'.phase = job.phase /\ job'.why = job.why
    BY <2>1 DEF ProfileInv, JobShape
  <2>3. Fresh(job') /\ job'.consumed = DOMAIN job'.recovered \cap DOMAIN job'.points
    BY <1>1, <1>2, <2>2 DEF ReplayInv, Consumes, Fresh, Measuring
  <2>4. CanGo(Control(job), disk.points) /\ Control(job') = Advance(Control(job), disk.points)
    BY <1>1, <2>2 DEF CanGo, Control, Advance
  <2> QED
    BY <1>1, <2>1, <2>2, <2>3, <2>4, AlongThePath DEF Measuring
<1>3. CASE expired
  <2> DEFINE j == [job EXCEPT !.points = Put(@, job.at, SkippedPoint)]
  <2>1. job' = Boundary(j)
    BY <1>3 DEF LadderStep
  <2>2. JobRecord(j)
    <3> DEFINE p == Put(job.points, job.at, SkippedPoint)
    <3>1. JobShape /\ j = [job EXCEPT !.points = p]
      BY DEF ProfileInv
    <3> HIDE DEF j, p
    <3> QED
      BY <3>1 DEF JobRecord, JobShape
  <2> HIDE DEF j
  <2>3. job'.pc = "boundary"
    BY <2>1, <2>2, BoundaryHolds
  <2> QED
    BY <1>1, <1>3, <2>3, ExpiredReplays
<1> QED
  BY <1>2, <1>3

(* A good smoke check goes along the path.                                 *)
LEMMA SmokeReplays == ProfileInv /\ ReplayInv /\ VerifySmoke => ReplayInv'
<1> SUFFICES ASSUME ProfileInv, ReplayInv, VerifySmoke PROVE ReplayInv'
  OBVIOUS
<1>1. disk' = disk /\ pplan' = pplan /\ expired' = expired /\ job.pc = "smoke"
  BY DEF VerifySmoke
<1>2. CASE \E w \in {"time", "smoke"} : job' = Raise(w)
  <2>1. job'.pc = "closing" /\ job'.why # "unreachable"
    BY <1>2 DEF Raise, ProfileInv, JobShape
  <2> QED
    BY <1>1, <2>1, QuietReplays DEF Measuring
<1>3. CASE job' = [job EXCEPT !.pc = "obtain", !.at = <<@[1], 2>>]
  <2> DEFINE a == <<job.at[1], 2>>
  <2>1. a[1] = job.at[1] /\ a[2] = 2 /\ job' = [job EXCEPT !.pc = "obtain", !.at = a]
    BY <1>3
  <2>2. Advance(Control(job), disk.points) = [Control(job) EXCEPT !.pc = "obtain", !.at = a]
    BY <1>1 DEF Advance, Control
  <2>3. ~expired => /\ job.consumed = DOMAIN job.recovered \cap DOMAIN job.points
                    /\ job.phase = "ladder"
                    /\ \A k \in DOMAIN job.points : k[1] < a[1] \/ (k[1] = a[1] /\ k[2] < a[2])
    BY <1>1, <2>1 DEF ReplayInv, Consumes, Fresh, Measuring
  <2>4. ~expired => a \notin DOMAIN job.points
    <3> SUFFICES ASSUME ~expired, a \in DOMAIN job.points PROVE FALSE
      OBVIOUS
    <3>1. a[1] < a[1] \/ a[2] < a[2]
      BY <2>3
    <3>2. a[1] \in Nat
      BY <1>1, <2>1, LadderAssumption DEF ProfileInv, PositionHolds, Working
    <3> HIDE DEF a
    <3> QED
      BY <2>1, <3>1, <3>2
  <2> HIDE DEF a
  <2>5. /\ job'.pc = "obtain" /\ job'.at = a /\ job'.points = job.points
        /\ job'.recovered = job.recovered /\ job'.todo = job.todo /\ job'.consumed = job.consumed
        /\ job'.phase = job.phase /\ job'.why = job.why
    BY <2>1 DEF ProfileInv, JobShape
  <2>6. ~expired => Fresh(job') /\ job'.consumed = DOMAIN job'.recovered \cap DOMAIN job'.points
    BY <2>1, <2>3, <2>4, <2>5 DEF Fresh
  <2>7. CanGo(Control(job), disk.points) /\ Control(job') = Advance(Control(job), disk.points)
    BY <1>1, <2>2, <2>5 DEF CanGo, Control
  <2> QED
    BY <1>1, <2>5, <2>6, <2>7, AlongThePath DEF Measuring
<1> QED
  BY <1>2, <1>3 DEF VerifySmoke

(* A recovered point is the one the path goes on with.                     *)
LEMMA ReuseReplays == ProfileInv /\ ReplayInv /\ Reuse => ReplayInv'
<1> SUFFICES ASSUME ProfileInv, ReplayInv, Reuse PROVE ReplayInv'
  OBVIOUS
<1>1. pplan' = pplan /\ expired' = expired /\ disk' = disk /\ job.pc = "obtain"
      /\ job.at \in Ladder \X Nat /\ job.at \in DOMAIN job.recovered
  BY DEF Reuse, ProfileInv, PositionHolds, Working
<1> DEFINE v == disk.points[job.at]
           p == Put(job.points, job.at, v)
           c == job.consumed \cup {job.at}
           j == [job EXCEPT !.consumed = c, !.points = p]
<1>2. job.recovered[job.at] = v /\ job.at \in DOMAIN disk.points
  BY <1>1 DEF ProfileInv, RecoveredHolds, Measuring
<1>3. job' = Continue(j)
  BY <1>2 DEF Reuse
<1>4. DOMAIN p = DOMAIN job.points \cup {job.at} /\ c = job.consumed \cup {job.at}
  BY DEF Put
<1>5. job.todo \subseteq Concurrencies(p) /\ DOMAIN p \subseteq Ladder \X Nat
  <2>1. job.todo \subseteq Concurrencies(job.points) /\ DOMAIN job.points \subseteq Ladder \X Nat
    BY DEF ProfileInv, PositionHolds, Concurrencies, IsPoints
  <2> HIDE DEF p
  <2> QED
    BY <1>1, <1>4, <2>1 DEF Concurrencies
<1>6. Advance(Control(job), disk.points) = Continue([Control(job) EXCEPT !.points = p])
      /\ CanGo(Control(job), disk.points)
  <2> DEFINE d == Control(job)
  <2>1. d.pc = "obtain" /\ d.at = job.at /\ d.points = job.points
    BY <1>1 DEF Control
  <2> HIDE DEF d
  <2>2. Advance(d, disk.points) = Continue([d EXCEPT !.points = p]) /\ CanGo(d, disk.points)
    BY <1>2, <2>1 DEF Advance, CanGo
  <2> QED
    BY <2>2 DEF d
<1> HIDE DEF p, v, c
<1>7. /\ JobRecord(j) /\ j.points = p /\ j.recovered = job.recovered /\ j.consumed = c
      /\ j.at = job.at /\ j.todo = job.todo /\ j.phase = job.phase /\ j.why = job.why
      /\ j.pc = "obtain"
  <2>1. JobShape /\ j = [job EXCEPT !.consumed = c, !.points = p]
    BY DEF ProfileInv
  <2> HIDE DEF j
  <2> QED
    BY <1>1, <2>1 DEF JobRecord, JobShape
<1> HIDE DEF j
<1>8. Control(j) = [Control(job) EXCEPT !.points = p]
  BY <1>1, <1>7 DEF Control
<1>9. Control(job') = Advance(Control(job), disk.points)
  BY <1>3, <1>6, <1>7, <1>8, ContinueIsControlled
<1>10. /\ job'.pc \in {"boundary", "smoke", "ladder"}
       /\ job'.recovered = job.recovered /\ job'.consumed = c /\ job'.points = p
  BY <1>1, <1>3, <1>5, <1>7, ContinueHolds
<1>11. job'.why = job.why
  BY <1>3, <1>7 DEF Continue, Boundary, JobRecord
<1>12. ASSUME ~expired PROVE job'.consumed = DOMAIN job'.recovered \cap DOMAIN job'.points /\ Fresh(job')
  <2>1. job.consumed = DOMAIN job.recovered \cap DOMAIN job.points /\ Fresh(job)
    BY <1>1, <1>12 DEF ReplayInv, Consumes, Measuring
  <2>2. job'.consumed = DOMAIN job'.recovered \cap DOMAIN job'.points
    BY <1>1, <1>4, <1>10, <2>1
  <2>3. job.phase = "ladder" =>
             /\ job.at[2] \in {1, 2}
             /\ \A k \in DOMAIN p : k[1] < job.at[1] \/ (k[1] = job.at[1] /\ k[2] <= job.at[2])
    <3> SUFFICES ASSUME job.phase = "ladder", NEW k \in DOMAIN p
                 PROVE  /\ job.at[2] \in {1, 2}
                        /\ k[1] < job.at[1] \/ (k[1] = job.at[1] /\ k[2] <= job.at[2])
      BY <1>1, <2>1 DEF Fresh
    <3>1. k[2] \in Nat /\ job.at[2] \in {1, 2}
      BY <1>1, <1>5, <2>1 DEF Fresh
    <3>2. k = job.at \/ k \in DOMAIN job.points
      BY <1>4
    <3>3. k \in DOMAIN job.points => k[1] < job.at[1] \/ (k[1] = job.at[1] /\ k[2] < job.at[2])
      BY <1>1, <2>1 DEF Fresh
    <3> QED
      BY <3>1, <3>2, <3>3
  <2>4. job.phase \in {"ladder", "boundary"}
    BY <2>1 DEF Fresh
  <2>5. Fresh(job')
    BY <1>1, <1>3, <1>5, <1>7, <2>3, <2>4, ContinueIsFresh
  <2> QED
    BY <2>2, <2>5
<1> QED
  BY <1>1, <1>6, <1>9, <1>10, <1>11, <1>12, AlongThePath DEF Measuring

(* Measuring a point leaves the attempt where it is on the path.           *)
LEMMA RunPointReplays == ProfileInv /\ ReplayInv /\ RunPoint => ReplayInv'
<1> SUFFICES ASSUME ProfileInv, ReplayInv, RunPoint PROVE ReplayInv'
  OBVIOUS
<1>1. pplan' = pplan /\ expired' = expired /\ job.pc = "obtain"
  BY DEF RunPoint
<1>2. CASE disk' = disk /\ \E w \in {"time", "exists", "prepare"} : job' = Raise(w)
  <2>1. job'.pc = "closing" /\ job'.why # "unreachable"
    BY <1>2 DEF Raise, ProfileInv, JobShape
  <2> QED
    BY <1>1, <1>2, <2>1, QuietReplays DEF Measuring
<1>3. CASE \E p \in StagedPoints(job.at) : /\ job' = [job EXCEPT !.pc = "archived", !.held = p]
                                           /\ disk' = [disk EXCEPT !.archived = @ \cup {job.at}]
  <2>1. PICK p \in StagedPoints(job.at) : /\ job' = [job EXCEPT !.pc = "archived", !.held = p]
                                          /\ disk' = [disk EXCEPT !.archived = @ \cup {job.at}]
    BY <1>3
  <2>3. /\ job'.pc = "archived" /\ job'.at = job.at /\ job'.points = job.points
        /\ job'.recovered = job.recovered /\ job'.todo = job.todo /\ job'.consumed = job.consumed
        /\ job'.phase = job.phase /\ job'.why = job.why
    BY <2>1 DEF ProfileInv, JobShape
  <2>4. disk'.points = disk.points /\ disk'.stage = disk.stage
    BY <2>1 DEF ProfileInv, DiskShape
  <2>5. Control(job') = Control(job)
    BY <1>1, <2>3 DEF Control
  <2>6. ~expired => Fresh(job') /\ job'.consumed = DOMAIN job'.recovered \cap DOMAIN job'.points
    BY <1>1, <2>3 DEF ReplayInv, Consumes, Fresh, Measuring
  <2> QED
    BY <1>1, <2>3, <2>4, <2>5, <2>6, AlongThePath DEF Measuring
<1> QED
  BY <1>2, <1>3 DEF RunPoint

(* A point that is written lengthens the path by what it leads to.         *)
LEMMA WritePointReplays == ProfileInv /\ ReplayInv /\ WritePoint => ReplayInv'
<1> SUFFICES ASSUME ProfileInv, ReplayInv, WritePoint PROVE ReplayInv'
  OBVIOUS
<1>1. pplan' = pplan /\ expired' = expired /\ job.pc = "archived" /\ job.at \in Ladder \X Nat
      /\ job.at \notin DOMAIN job.recovered /\ Natural(job.held)
      /\ disk' = [disk EXCEPT !.points = Put(@, job.at, job.held)]
  BY DEF WritePoint, ProfileInv, PositionHolds, Working
<1> DEFINE D == disk.points
           v == job.held
           p == Put(job.points, job.at, v)
           j == [job EXCEPT !.points = p, !.held = 0]
           E == Put(D, job.at, v)
<1>2. disk'.points = E /\ disk'.stage = disk.stage /\ disk.stage = "open"
  BY <1>1 DEF ProfileInv, DiskShape, StagesHold
<1>3. job' = Continue(j)
  BY DEF WritePoint
<1>4. IsPoints(p) /\ DOMAIN p = DOMAIN job.points \cup {job.at} /\ DOMAIN E = DOMAIN D \cup {job.at}
  <2>1. DOMAIN p = DOMAIN job.points \cup {job.at} /\ DOMAIN E = DOMAIN D \cup {job.at}
    BY DEF Put
  <2>2. IsPoints(p)
    BY <1>1, PutKeepsPoints DEF ProfileInv
  <2> QED
    BY <2>1, <2>2
<1>5. job.todo \subseteq Concurrencies(p) /\ DOMAIN p \subseteq Ladder \X Nat
  <2>1. job.todo \subseteq Concurrencies(job.points)
    BY DEF ProfileInv, PositionHolds, Concurrencies
  <2> HIDE DEF p
  <2> QED
    BY <1>4, <2>1 DEF Concurrencies, IsPoints
<1> HIDE DEF p
<1>6. /\ JobRecord(j) /\ j.points = p /\ j.recovered = job.recovered /\ j.consumed = job.consumed
      /\ j.at = job.at /\ j.todo = job.todo /\ j.phase = job.phase /\ j.pc = "archived"
      /\ j.why = job.why
  <2>1. JobShape /\ j = [job EXCEPT !.points = p, !.held = 0]
    BY DEF ProfileInv
  <2> HIDE DEF j
  <2> QED
    BY <1>1, <2>1 DEF JobRecord, JobShape
<1> HIDE DEF j
<1>7. /\ JobRecord(job') /\ job'.pc \in {"boundary", "smoke", "ladder"}
      /\ job'.recovered = job.recovered /\ job'.consumed = job.consumed /\ job'.points = p
      /\ job'.todo \subseteq Concurrencies(p) /\ (job'.pc \in Working => job'.at \in Ladder \X Nat)
  BY <1>1, <1>3, <1>5, <1>6, ContinueHolds
<1>8. job'.why = job.why
  BY <1>3, <1>6 DEF Continue, Boundary, JobRecord
<1>9. CASE expired
  BY <1>1, <1>7, <1>9, ExpiredReplays
<1>10. CASE ~expired
  <2>1. job.consumed = DOMAIN job.recovered \cap DOMAIN job.points /\ Fresh(job)
    BY <1>1, <1>10 DEF ReplayInv, Consumes, Measuring
  <2>2. job'.consumed = DOMAIN job'.recovered \cap DOMAIN job'.points
    BY <1>1, <1>4, <1>7, <2>1
  <2>3. job.phase = "ladder" =>
             /\ job.at[2] \in {1, 2}
             /\ \A k \in DOMAIN p : k[1] < job.at[1] \/ (k[1] = job.at[1] /\ k[2] <= job.at[2])
    <3> SUFFICES ASSUME job.phase = "ladder", NEW k \in DOMAIN p
                 PROVE  /\ job.at[2] \in {1, 2}
                        /\ k[1] < job.at[1] \/ (k[1] = job.at[1] /\ k[2] <= job.at[2])
      BY <1>1, <2>1 DEF Fresh
    <3>1. k[2] \in Nat /\ job.at[2] \in {1, 2}
      BY <1>1, <1>5, <2>1 DEF Fresh
    <3>2. k = job.at \/ k \in DOMAIN job.points
      BY <1>4
    <3>3. k \in DOMAIN job.points => k[1] < job.at[1] \/ (k[1] = job.at[1] /\ k[2] < job.at[2])
      BY <1>1, <2>1 DEF Fresh
    <3> QED
      BY <3>1, <3>2, <3>3
  <2>4. job.phase \in {"ladder", "boundary"}
    BY <2>1 DEF Fresh
  <2>5. Fresh(job')
    BY <1>1, <1>3, <1>5, <1>6, <2>3, <2>4, ContinueIsFresh
  <2>6. job.at \notin DOMAIN D /\ DOMAIN E = DOMAIN p
    <3>1. job.at \notin DOMAIN job.points
      BY <1>1, <2>1 DEF Fresh
    <3>2. DOMAIN D = DOMAIN job.recovered \cup DOMAIN job.points
      BY <1>1 DEF ProfileInv, RecoveredHolds, Measuring
    <3>3. job.at \notin DOMAIN D
      BY <1>1, <3>1, <3>2
    <3>4. PICK C, q : Path(C, Start0, q, D) /\ Control(job) \in C
      BY <1>1, <1>2, <1>10 DEF ReplayInv, OnPath, Measuring
    <3>5. ~CanGo(Control(job), D) /\ Control(job).points = job.points
      BY <1>1, <3>3 DEF CanGo, Control
    <3>6. DOMAIN job.points = DOMAIN D
      BY <3>4, <3>5 DEF Path
    <3> HIDE DEF D, E
    <3> QED
      BY <1>4, <3>3, <3>6
  <2>7. PICK C, q : Path(C, Start0, q, D) /\ Control(job) \in C
    BY <1>1, <1>2, <1>10 DEF ReplayInv, OnPath, Measuring
  <2>8. q = Control(job)
    <3>1. ~CanGo(Control(job), D)
      BY <1>1, <2>6 DEF CanGo, Control
    <3> QED
      BY <2>7, <3>1 DEF Path
  <2>9. q.pc = "obtain" /\ q.at = job.at /\ q.points = job.points
        /\ Control(j) = [q EXCEPT !.points = Put(q.points, q.at, v)]
    <3>1. q.pc = "obtain" /\ q.at = job.at /\ q.points = job.points
      BY <1>1, <2>8 DEF Control
    <3>2. Control(j) = [q EXCEPT !.points = p]
      BY <1>1, <1>6, <2>8 DEF Control
    <3> QED
      BY <3>1, <3>2 DEF p
  <2> DEFINE x == Control(job')
  <2>10. x = Continue([q EXCEPT !.points = Put(q.points, q.at, v)]) /\ ControlRecord(x)
    BY <1>3, <1>6, <2>9, ContinueIsControlled
  <2>11. /\ x.pc = job'.pc /\ x.phase = job'.phase /\ x.at = job'.at /\ x.todo = job'.todo
         /\ x.points = p
    BY <1>7 DEF Control
  <2>12. PICK P, r : Path(P, x, r, E)
    <3>1. x.pc = "boundary" => x.phase = "boundary"
      BY <2>5, <2>11 DEF Fresh
    <3>2. x.pc = "ladder" => x.at \notin DOMAIN E
      BY <2>5, <2>6, <2>11, <1>7 DEF Fresh
    <3>3. x.pc = "smoke" => <<x.at[1], 2>> \notin DOMAIN E
      <4> SUFFICES ASSUME x.pc = "smoke", <<x.at[1], 2>> \in DOMAIN p PROVE FALSE
        BY <2>6
      <4>1. job'.pc = "smoke" /\ job'.at[1] \in Nat /\ <<job'.at[1], 2>> \in DOMAIN job'.points
        BY <1>7, <2>11, LadderAssumption DEF Working
      <4> DEFINE a == job'.at[1]
                 k == <<a, 2>>
      <4>2. k[1] < a \/ (k[1] = a /\ k[2] < 2)
        BY <2>5, <4>1 DEF Fresh
      <4>3. k[1] = a /\ k[2] = 2 /\ a \in Nat
        BY <4>1
      <4> HIDE DEF a, k
      <4> QED
        BY <4>2, <4>3
    <3> HIDE DEF x, E, D
    <3> QED
      BY <1>4, <1>7, <2>6, <2>10, <2>11, <3>1, <3>2, <3>3, Settles
  <2>13. Path(C \cup P, Start0, r, E)
    BY <2>6, <2>7, <2>9, <2>10, <2>12, PathGrows
  <2>14. Path(C \cup P, Start0, r, disk.points)'
    BY <1>1, <1>2, <2>13, PathMoves
  <2>15. Control(job') \in C \cup P
    BY <2>12 DEF Path
  <2>16. OnPath'
    BY <2>14, <2>15 DEF OnPath
  <2> QED
    BY <1>1, <1>7, <1>8, <1>10, <2>2, <2>5, <2>16
       DEF ReplayInv, Consumes, BeginsAnew, ReplayReachesAll
<1> QED
  BY <1>9, <1>10

(* The boundary goes along the path while there is time.                   *)
LEMMA BoundaryReplays == ProfileInv /\ ReplayInv /\ BoundaryStep => ReplayInv'
<1> SUFFICES ASSUME ProfileInv, ReplayInv, BoundaryStep PROVE ReplayInv'
  OBVIOUS
<1> DEFINE c == Min(job.todo)
           k == NextRep(job.points, c)
           t == job.todo \ {c}
<1>1. pplan' = pplan /\ expired' = expired /\ job.pc = "boundary" /\ job.todo # {}
  BY DEF BoundaryStep
<1>2. job.todo \subseteq Concurrencies(job.points) /\ job.todo \subseteq Nat /\ IsPoints(job.points)
  <2>1. job.todo \subseteq Concurrencies(job.points) /\ IsPoints(job.points)
    BY DEF ProfileInv, PositionHolds, Concurrencies
  <2>2. Concurrencies(job.points) \subseteq Ladder
    BY <2>1 DEF IsPoints, Concurrencies
  <2> QED
    BY <2>1, <2>2, LadderAssumption
<1>3. c \in Concurrencies(job.points)
  BY <1>1, <1>2, MinIsSmallest
<1>4. k \notin DOMAIN job.points
  BY <1>2, <1>3, NextRepIsNew
<1>5. CanGo(Control(job), disk.points)
  BY <1>1 DEF CanGo, Control
<1>6. CASE expired
  <2>1. job'.pc # "begin"
    <3>1. CASE Enough(job.points, c)
      <4>1. job' = [job EXCEPT !.todo = t]
        BY <3>1 DEF BoundaryStep
      <4> HIDE DEF t
      <4> QED
        BY <1>1, <4>1 DEF ProfileInv, JobShape
    <3>2. CASE ~Enough(job.points, c)
      <4> DEFINE p == Put(job.points, k, SkippedPoint)
      <4>1. job' = [job EXCEPT !.todo = t, !.points = p]
        BY <1>6, <3>2 DEF BoundaryStep
      <4> HIDE DEF t, p
      <4> QED
        BY <1>1, <4>1 DEF ProfileInv, JobShape
    <3> QED
      BY <3>1, <3>2
  <2> QED
    BY <1>1, <1>6, <2>1, ExpiredReplays
<1>7. CASE ~expired
  <2>1. job.consumed = DOMAIN job.recovered \cap DOMAIN job.points /\ Fresh(job)
    BY <1>1, <1>7 DEF ReplayInv, Consumes, Measuring
  <2>2. CASE Enough(job.points, c)
    <3>1. job' = [job EXCEPT !.todo = t] /\ disk' = disk
      BY <2>2 DEF BoundaryStep
    <3>2. Advance(Control(job), disk.points) = [Control(job) EXCEPT !.todo = t]
      BY <1>1, <2>2 DEF Advance, Control
    <3> HIDE DEF t, c, k
    <3>3. /\ job'.pc = "boundary" /\ job'.at = job.at /\ job'.points = job.points
          /\ job'.recovered = job.recovered /\ job'.todo = t /\ job'.consumed = job.consumed
          /\ job'.phase = job.phase /\ job'.why = job.why
      BY <1>1, <3>1 DEF ProfileInv, JobShape
    <3>4. Control(job') = Advance(Control(job), disk.points)
      BY <1>1, <3>2, <3>3 DEF Control
    <3>5. Fresh(job') /\ job'.consumed = DOMAIN job'.recovered \cap DOMAIN job'.points
      BY <1>1, <2>1, <3>3 DEF Fresh
    <3> QED
      BY <1>1, <1>5, <3>1, <3>3, <3>4, <3>5, AlongThePath DEF Measuring
  <2>3. CASE ~Enough(job.points, c)
    <3>1. job' = [job EXCEPT !.pc = "obtain", !.at = k] /\ disk' = disk
      BY <1>7, <2>3 DEF BoundaryStep
    <3>2. Advance(Control(job), disk.points) = [Control(job) EXCEPT !.pc = "obtain", !.at = k]
      BY <1>1, <2>3 DEF Advance, Control
    <3> HIDE DEF t, c, k
    <3>3. /\ job'.pc = "obtain" /\ job'.at = k /\ job'.points = job.points
          /\ job'.recovered = job.recovered /\ job'.todo = job.todo /\ job'.consumed = job.consumed
          /\ job'.phase = job.phase /\ job'.why = job.why
      BY <1>1, <3>1 DEF ProfileInv, JobShape
    <3>4. Control(job') = Advance(Control(job), disk.points)
      BY <1>1, <3>2, <3>3 DEF Control
    <3>5. Fresh(job') /\ job'.consumed = DOMAIN job'.recovered \cap DOMAIN job'.points
      BY <1>1, <1>4, <2>1, <3>3 DEF Fresh
    <3> QED
      BY <1>1, <1>5, <3>1, <3>3, <3>4, <3>5, AlongThePath DEF Measuring
  <2> QED
    BY <2>2, <2>3
<1> QED
  BY <1>6, <1>7

(* At its end, a measurement that had time has come through every point.   *)
LEMMA LadderEndsReplays == ProfileInv /\ ReplayInv /\ LadderEnds => ReplayInv'
<1> SUFFICES ASSUME ProfileInv, ReplayInv, LadderEnds PROVE ReplayInv'
  OBVIOUS
<1>1. disk' = disk /\ pplan' = pplan /\ expired' = expired /\ job.pc = "boundary" /\ job.todo = {}
  BY DEF LadderEnds
<1>2. ASSUME ~expired PROVE DOMAIN job.recovered \subseteq job.consumed
  <2>1. disk.stage = "open"
    BY <1>1 DEF ProfileInv, StagesHold
  <2>2. PICK C, q : Path(C, Start0, q, disk.points) /\ Control(job) \in C
    BY <1>1, <1>2, <2>1 DEF ReplayInv, OnPath, Measuring
  <2>3. ~CanGo(Control(job), disk.points) /\ Control(job).points = job.points
    BY <1>1 DEF CanGo, Control
  <2>4. DOMAIN job.points = DOMAIN disk.points
    BY <2>2, <2>3 DEF Path
  <2>5. job.consumed = DOMAIN job.recovered \cap DOMAIN job.points
    BY <1>1, <1>2 DEF ReplayInv, Consumes, Measuring
  <2> QED
    BY <2>4, <2>5 DEF ProfileInv, RecoveredHolds
<1>3. job'.pc = "closing" /\ (job'.why = "unreachable" => expired)
  BY <1>2 DEF LadderEnds, Raise, ProfileInv, JobShape
<1> QED
  BY <1>1, <1>3, QuietReplays DEF Measuring

(* The steps after the measurement, and those that end an attempt, leave   *)
(* the points alone.                                                       *)
LEMMA LeavingReplays ==
    ASSUME ProfileInv, ReplayInv,
           \/ CloseTransport \/ WriteSelection \/ RecheckSelection \/ Finalize \/ MarkFailed
           \/ Killed
    PROVE  ReplayInv'
<1>1. pplan' = pplan /\ expired' = expired
  BY DEF CloseTransport, WriteSelection, RecheckSelection, Finalize, MarkFailed, Killed
<1>2. Idle.pc = "idle" /\ Idle.why = "none"
  BY DEF Idle
<1>3. disk'.stage = disk.stage /\ disk'.points = disk.points
  BY DEF ProfileInv, DiskShape, CloseTransport, WriteSelection, RecheckSelection, Finalize,
         MarkFailed, Killed, Unverified
<1>4. job'.pc \in {"idle", "select", "failing", "finalize"}
      /\ (job'.why = "unreachable" => job.why = "unreachable")
  <2>1. CASE CloseTransport
    BY <1>2, <2>1 DEF CloseTransport, Unverified, ProfileInv, JobShape
  <2>2. CASE WriteSelection
    BY <2>2 DEF WriteSelection, ProfileInv, JobShape
  <2>3. CASE RecheckSelection
    BY <1>2, <2>3 DEF RecheckSelection, Unverified, ProfileInv, JobShape
  <2>4. CASE Finalize
    BY <1>2, <2>4 DEF Finalize, ProfileInv, JobShape
  <2>5. CASE MarkFailed \/ Killed
    BY <1>2, <2>5 DEF MarkFailed, Killed
  <2> QED
    BY <2>1, <2>2, <2>3, <2>4, <2>5
<1> QED
  BY <1>1, <1>3, <1>4, QuietReplays DEF Measuring, ReplayInv, ReplayReachesAll

(* The deadline passes.                                                    *)
LEMMA ExpireReplays == ProfileInv /\ ReplayInv /\ Expire => ReplayInv'
<1> SUFFICES ASSUME ReplayInv, Expire PROVE ReplayInv'
  OBVIOUS
<1>1. expired' /\ job' = job
  BY DEF Expire
<1> QED
  BY <1>1 DEF ReplayInv, OnPath, Consumes, BeginsAnew, ReplayReachesAll

(* Every step of profiling keeps an attempt on its path.                   *)
LEMMA ProfileReplays == ProfileInv /\ ReplayInv /\ PNext => ReplayInv'
BY CreateReplays, RecoverReplays, BeginReplays, LadderReplays, ReuseReplays, RunPointReplays,
   WritePointReplays, SmokeReplays, BoundaryReplays, LadderEndsReplays, LeavingReplays,
   ExpireReplays DEF PNext, AttemptStep

(* Profiling replays while it lasts; nobody profiles afterwards.           *)
Replaying == phase = "profiling" => ReplayInv

(* Every step keeps it.                                                    *)
LEMMA StepReplays == Inv /\ Replaying /\ [Next]_vars => Replaying'
<1> SUFFICES ASSUME Inv, Replaying, [Next]_vars, phase' = "profiling" PROVE ReplayInv'
  BY DEF Replaying
<1>1. CASE ProfileStep
  BY <1>1, ProfileReplays DEF ProfileStep, Inv, PhasesHold, Replaying
<1>2. CASE BindProfile
  BY <1>2 DEF BindProfile
<1>3. CASE CampaignStep
  <2>1. phase' \in {"manifest", "planned", "locked", "rejected", "error"}
    BY <1>3, PlanStepKeeps DEF CampaignStep, Inv, PhasesHold
  <2> QED
    BY <2>1
<1>4. CASE UNCHANGED vars
  <2>1. phase = "profiling" /\ pplan' = pplan /\ disk' = disk /\ job' = job /\ expired' = expired
    BY <1>4 DEF vars, cvars, pvars
  <2>2. ReplayInv
    BY <2>1 DEF Replaying
  <2>3. OnPath'
    <3> SUFFICES ASSUME ~expired', disk'.stage = "open"
                 PROVE  \E C, q : /\ Path(C, Start0, q, disk.points)'
                                  /\ job'.pc \in Measuring => Control(job') \in C
      BY DEF OnPath
    <3>1. PICK C, q : /\ Path(C, Start0, q, disk.points)
                      /\ job.pc \in Measuring => Control(job) \in C
      BY <2>1, <2>2 DEF ReplayInv, OnPath
    <3> QED
      BY <2>1, <3>1, PathStays
  <2> QED
    BY <2>1, <2>2, <2>3 DEF ReplayInv, Consumes, BeginsAnew, ReplayReachesAll, Fresh
<1> QED
  BY <1>1, <1>2, <1>3, <1>4 DEF Next

(* run_profile_worker and _require_all_recovered_points_consumed: a new    *)
(* attempt reaches every point an earlier one wrote unless the deadline    *)
(* passes, whatever the ladder, the rates, the failures and the kills.     *)
THEOREM ReplaysReachAll == Spec => []ReplayReachesAll
<1>1. Init => Replaying
  <2> SUFFICES ASSUME Init PROVE ReplayInv
    BY DEF Replaying
  <2>1. job = Idle /\ disk.stage = "absent"
    BY DEF Init, PInit, Blank
  <2> QED
    BY <2>1 DEF ReplayInv, OnPath, Consumes, BeginsAnew, ReplayReachesAll, Idle, Measuring
<1>2. Inv /\ Replaying => ReplayReachesAll
  <2> SUFFICES ASSUME Inv, Replaying PROVE ReplayReachesAll
    OBVIOUS
  <2>1. CASE phase = "profiling"
    BY <2>1 DEF Replaying, ReplayInv
  <2>2. CASE phase # "profiling"
    BY <2>2 DEF Inv, PhasesHold, ReplayReachesAll, Idle
  <2> QED
    BY <2>1, <2>2
<1> QED
  BY <1>1, <1>2, StepReplays, PlanningInvariance, PTL DEF Spec
=============================================================================
