--------------------------- MODULE StatisticsProofs ---------------------------
(***************************************************************************)
(* Proofs about Statistics, for any records, shapes and number of jobs:     *)
(* what the learned averages count and how fast they can be, the route a    *)
(* vehicle is matched to, the order of the predicted arrivals, and what the *)
(* row of a day adds up to.                                                *)
(***************************************************************************)
EXTENDS Statistics, FiniteSetTheorems, TLAPS

-----------------------------------------------------------------------------
(* Induction, least and greatest elements                                  *)

\* A set of natural numbers has a least element.
LEMMA LeastNatural ==
    ASSUME NEW S, S \subseteq Nat, S # {}
    PROVE  \E n \in S : \A m \in S : n <= m
<1> DEFINE R == OpToRel(<, Nat)
<1>1. IsWellFoundedOn(R, Nat)
  BY NatLessThanWellFounded
<1>2. PICK n \in S : \A m \in S : <<m, n>> \notin R
  <2> HIDE DEF R
  <2> QED
    BY <1>1, WFMin
<1>3. ASSUME NEW m \in S PROVE n <= m
  <2>1. m \in Nat /\ n \in Nat
    OBVIOUS
  <2>2. m < n => <<m, n>> \in R
    BY <2>1 DEF OpToRel
  <2>3. ~(m < n)
    BY <1>2, <2>2
  <2> HIDE DEF R
  <2> QED
    BY <2>1, <2>3
<1> HIDE DEF R
<1> QED
  BY <1>3

\* Induction on the numbers up to a bound, for the members of a set.
LEMMA InductionUpTo ==
    ASSUME NEW k \in Nat, NEW S, 0 \in S, \A n \in 0..(k - 1) : n \in S => n + 1 \in S
    PROVE  0..k \subseteq S
<1> SUFFICES ASSUME (0..k) \ S # {} PROVE FALSE
  OBVIOUS
<1>1. PICK n \in (0..k) \ S : \A m \in (0..k) \ S : n <= m
  <2>1. (0..k) \ S \subseteq Nat
    OBVIOUS
  <2> QED
    BY <2>1, LeastNatural
<1>2. n # 0 /\ n - 1 \in 0..(k - 1) /\ n - 1 \notin (0..k) \ S
  BY <1>1
<1> QED
  BY <1>1, <1>2

\* LeastOf of natural numbers is one of them and the least.
LEMMA LeastOfType ==
    ASSUME NEW S, S \subseteq Nat, S # {}
    PROVE  LeastOf(S) \in S /\ \A m \in S : LeastOf(S) <= m
  BY LeastNatural DEF LeastOf

\* GreatestOf of natural numbers up to a bound is one of them and the greatest.
LEMMA GreatestOfType ==
    ASSUME NEW k \in Nat, NEW S, S \subseteq 0..k, S # {}
    PROVE  GreatestOf(S) \in S /\ \A m \in S : GreatestOf(S) >= m
<1> DEFINE T == {k - m : m \in S}
<1>1. T \subseteq Nat /\ T # {}
  <2>1. ASSUME NEW m \in S PROVE k - m \in Nat
    <3>1. m \in 0..k
      OBVIOUS
    <3> QED
      BY <3>1
  <2> QED
    BY <2>1
<1>2. PICK n \in T : \A m \in T : n <= m
  BY <1>1, LeastNatural
<1>3. PICK g \in S : n = k - g
  BY <1>2
<1>4. \A m \in S : g >= m
  <2> TAKE m \in S
  <2>1. k - m \in T /\ m \in Int /\ g \in Int
    OBVIOUS
  <2> QED
    BY <1>2, <1>3, <2>1
<1> QED
  BY <1>4 DEF GreatestOf

\* Of two integers.
LEMMA LeastOfTwo ==
    ASSUME NEW a \in Int, NEW b \in Int
    PROVE  LeastOf({a, b}) = IF a <= b THEN a ELSE b
<1>1. \E n \in {a, b} : \A m \in {a, b} : n <= m
  OBVIOUS
<1>2. LeastOf({a, b}) \in {a, b} /\ \A m \in {a, b} : LeastOf({a, b}) <= m
  BY <1>1 DEF LeastOf
<1> QED
  BY <1>2

\* The greater of two integers.
LEMMA GreatestOfTwo ==
    ASSUME NEW a \in Int, NEW b \in Int
    PROVE  GreatestOf({a, b}) = IF a >= b THEN a ELSE b
<1>1. \E n \in {a, b} : \A m \in {a, b} : n >= m
  OBVIOUS
<1>2. GreatestOf({a, b}) \in {a, b} /\ \A m \in {a, b} : GreatestOf({a, b}) >= m
  BY <1>1 DEF GreatestOf
<1> QED
  BY <1>2

\* The indices up to n.
UpTo(I, n) == {i \in I : i <= n}

\* With n + 1 at most one index is added, the greatest.
LEMMA UpToStep ==
    ASSUME NEW k \in Nat, NEW I, I \subseteq 1..k
    PROVE  /\ UpTo(I, 0) = {} /\ UpTo(I, k) = I
           /\ \A n \in 0..(k - 1) :
                  /\ n + 1 \notin I => UpTo(I, n + 1) = UpTo(I, n)
                  /\ n + 1 \in I => UpTo(I, n + 1) = UpTo(I, n) \cup {n + 1}
                  /\ n + 1 \notin UpTo(I, n)
                  /\ \A j \in I : (j < n + 1 <=> j \in UpTo(I, n))
           /\ \A n \in 0..k : \A i \in UpTo(I, n), j \in I : j < i => j \in UpTo(I, n)
<1>0. \A i \in I : i \in Int /\ 1 <= i /\ i <= k
  OBVIOUS
<1>1. UpTo(I, 0) = {} /\ UpTo(I, k) = I
  <2>1. ASSUME NEW i \in UpTo(I, 0) PROVE FALSE
    <3>1. i \in I /\ i <= 0
      BY DEF UpTo
    <3> QED
      BY <1>0, <3>1
  <2>2. ASSUME NEW i \in I PROVE i \in UpTo(I, k)
    BY <1>0 DEF UpTo
  <2>3. UpTo(I, k) \subseteq I
    BY DEF UpTo
  <2> QED
    BY <2>1, <2>2, <2>3
<1>2. ASSUME NEW n \in 0..(k - 1)
      PROVE  /\ n + 1 \notin UpTo(I, n)
             /\ \A j \in I : (j < n + 1 <=> j \in UpTo(I, n))
             /\ \A j \in I : (j <= n + 1 <=> j \in UpTo(I, n + 1))
  BY <1>0 DEF UpTo
<1>3. ASSUME NEW n \in 0..(k - 1)
      PROVE  /\ n + 1 \notin I => UpTo(I, n + 1) = UpTo(I, n)
             /\ n + 1 \in I => UpTo(I, n + 1) = UpTo(I, n) \cup {n + 1}
  <2>1. UpTo(I, n) \subseteq I /\ UpTo(I, n + 1) \subseteq I
    BY DEF UpTo
  <2>2. \A j \in I : j <= n + 1 <=> j < n + 1 \/ j = n + 1
    BY <1>0
  <2>3. \A j \in I : j \in UpTo(I, n + 1) <=> j \in UpTo(I, n) \/ j = n + 1
    BY <1>2, <2>2
  <2> QED
    BY <2>1, <2>3
<1>4. ASSUME NEW n \in 0..k, NEW i \in UpTo(I, n), NEW j \in I, j < i PROVE j \in UpTo(I, n)
  BY <1>0, <1>4 DEF UpTo
<1> QED
  BY <1>1, <1>2, <1>3, <1>4

\* A chain of numbers, each of which adds c[i] to that of index p[i], or is c[i]
\* when p[i] is 0.
IsChain(f, I, p, c) ==
    f \in [I -> Int] /\ \A i \in I : f[i] = IF p[i] = 0 THEN c[i] ELSE f[p[i]] + c[i]
HasChain(I, p, c) == \E f : IsChain(f, I, p, c)

\* A chain exists when every index builds upon an earlier one.
LEMMA ChainExists ==
    ASSUME NEW k \in Nat, NEW I, I \subseteq 1..k, NEW p, NEW c,
           \A i \in I : c[i] \in Int,
           \A i \in I : p[i] # 0 => p[i] \in I /\ p[i] < i
    PROVE  HasChain(I, p, c)
<1> DEFINE Upto(n) == UpTo(I, n)
           Chain(n) == \E f \in [Upto(n) -> Int] : \A i \in Upto(n) :
                           f[i] = IF p[i] = 0 THEN c[i] ELSE f[p[i]] + c[i]
           S == {n \in 0..k : Chain(n)}
<1>0. /\ Upto(0) = {} /\ Upto(k) = I
      /\ \A n \in 0..(k - 1) :
             /\ n + 1 \notin I => Upto(n + 1) = Upto(n)
             /\ n + 1 \in I => Upto(n + 1) = Upto(n) \cup {n + 1}
             /\ n + 1 \notin Upto(n)
             /\ \A j \in I : (j < n + 1 <=> j \in Upto(n))
      /\ \A n \in 0..k : \A i \in Upto(n), j \in I : j < i => j \in Upto(n)
      /\ \A n \in 0..k : Upto(n) \subseteq I
  BY UpToStep DEF UpTo
<1> HIDE DEF Upto
<1>1. 0 \in S
  <2>1. Upto(0) = {}
    BY <1>0
  <2> DEFINE f == [i \in {} |-> 0]
  <2>2. f \in [Upto(0) -> Int] /\ \A i \in Upto(0) :
           f[i] = IF p[i] = 0 THEN c[i] ELSE f[p[i]] + c[i]
    <3> QED
      BY <2>1
  <2>3. Chain(0)
    BY <2>2
  <2> QED
    BY <2>3
<1>2. ASSUME NEW n \in 0..(k - 1), n \in S PROVE n + 1 \in S
  <2>1. PICK f \in [Upto(n) -> Int] : \A i \in Upto(n) :
           f[i] = IF p[i] = 0 THEN c[i] ELSE f[p[i]] + c[i]
    BY <1>2
  <2>2. CASE n + 1 \notin I
    <3>1. Upto(n + 1) = Upto(n)
      BY <1>0, <2>2
    <3>2. Chain(n + 1)
      BY <2>1, <3>1
    <3> QED
      BY <3>2
  <2>3. CASE n + 1 \in I
    <3> DEFINE last == IF p[n + 1] = 0 THEN c[n + 1] ELSE f[p[n + 1]] + c[n + 1]
               g == [i \in Upto(n + 1) |-> IF i = n + 1 THEN last ELSE f[i]]
    <3>1. Upto(n + 1) = Upto(n) \cup {n + 1} /\ n + 1 \notin Upto(n)
      BY <1>0, <2>3
    <3>2. last \in Int
      <4>1. p[n + 1] # 0 => p[n + 1] \in Upto(n)
        BY <1>0, <2>3
      <4> QED
        BY <2>3, <4>1
    <3>3. g \in [Upto(n + 1) -> Int]
      <4> HIDE DEF last
      <4> QED
        BY <3>1, <3>2
    <3>4. ASSUME NEW i \in Upto(n), p[i] # 0 PROVE p[i] \in Upto(n)
      <4>1. n \in 0..k /\ i \in I
        BY <1>0
      <4>2. p[i] \in I /\ p[i] < i
        BY <3>4, <4>1
      <4> QED
        BY <1>0, <4>1, <4>2
    <3>5. p[n + 1] # 0 => p[n + 1] \in Upto(n)
      BY <1>0, <2>3
    <3>6. ASSUME NEW i \in Upto(n + 1)
          PROVE  g[i] = IF p[i] = 0 THEN c[i] ELSE g[p[i]] + c[i]
      <4>1. CASE i = n + 1
        <5> QED
          BY <3>1, <3>5, <4>1
      <4>2. CASE i # n + 1
        <5> HIDE DEF last
        <5> QED
          BY <2>1, <3>1, <3>4, <4>2
      <4> QED
        BY <4>1, <4>2
    <3> HIDE DEF g, last
    <3>7. Chain(n + 1)
      BY <3>3, <3>6
    <3> QED
      BY <3>7
  <2> QED
    BY <2>2, <2>3
<1> HIDE DEF Chain
<1>3. k \in S
  <2>1. 0..k \subseteq S
    <3> HIDE DEF S
    <3> QED
      BY <1>1, <1>2, InductionUpTo
  <2> QED
    BY <2>1
<1>4. Upto(k) = I
  BY <1>0
<1> QED
  BY <1>3, <1>4 DEF Chain, HasChain, IsChain

-----------------------------------------------------------------------------
(* Geometry                                                                *)

\* Root is the whole part of the square root.
LEMMA RootType ==
    ASSUME NEW n \in Nat
    PROVE  /\ Root(n) \in Nat
           /\ Root(n) * Root(n) <= n /\ n < (Root(n) + 1) * (Root(n) + 1)
<1> DEFINE S == {k \in Nat : n < (k + 1) * (k + 1)}
<1>1. n \in S
  <2>1. (n + 1) * (n + 1) = n * n + 2 * n + 1 /\ n * n >= 0
    OBVIOUS
  <2> QED
    BY <2>1
<1>2. PICK k \in S : \A m \in S : k <= m
  <2>1. S \subseteq Nat /\ S # {}
    BY <1>1
  <2> HIDE DEF S
  <2> QED
    BY <2>1, LeastNatural
<1>3. k \in Nat /\ n < (k + 1) * (k + 1) /\ k <= n
  BY <1>1, <1>2
<1>4. k * k <= n
  <2>1. CASE k = 0
    BY <2>1
  <2>2. CASE k # 0
    <3>1. k - 1 \in Nat /\ k - 1 \notin S
      BY <1>2, <1>3, <2>2
    <3>2. (k - 1) + 1 = k
      BY <1>3
    <3>3. ~(n < k * k)
      BY <3>1, <3>2
    <3> HIDE DEF S
    <3>4. k * k \in Int
      BY <1>3
    <3> QED
      BY <3>3, <3>4
  <2> QED
    BY <2>1, <2>2
<1>5. \E j \in 0..n : j * j <= n /\ n < (j + 1) * (j + 1)
  BY <1>3, <1>4
<1>6. Root(n) \in 0..n /\ Root(n) * Root(n) <= n /\ n < (Root(n) + 1) * (Root(n) + 1)
  BY <1>5 DEF Root
<1> QED
  BY <1>6

\* The square of a whole number is a natural number.
LEMMA SquareType == ASSUME NEW a \in Int PROVE a * a \in Nat
<1>1. CASE a >= 0
  BY <1>1
<1>2. CASE a < 0
  <2>1. a * a = (-a) * (-a) /\ -a \in Nat
    BY <1>2
  <2> QED
    BY <2>1
<1> QED
  BY <1>1, <1>2

\* Distances are natural numbers.
LEMMA HaversineType ==
    ASSUME NEW p \in Int \X Int, NEW q \in Int \X Int
    PROVE  haversine(p, q) \in Nat
<1> DEFINE dx == p[1] - q[1]
           dy == p[2] - q[2]
<1>1. dx \in Int /\ dy \in Int
  OBVIOUS
<1> HIDE DEF dx, dy
<1>2. dx * dx \in Nat /\ dy * dy \in Nat
  BY <1>1, SquareType
<1>3. dx * dx + dy * dy \in Nat
  BY <1>2
<1>4. Root(dx * dx + dy * dy) \in Nat
  BY <1>3, RootType
<1> QED
  BY <1>4 DEF haversine, dx, dy

\* A coordinate is clamped to a coordinate.
LEMMA ClampType ==
    ASSUME NEW v \in Int, NEW a \in Int, NEW b \in Int
    PROVE  Clamp(v, a, b) \in Int
<1> DEFINE low == LeastOf({a, b})
           high == GreatestOf({a, b})
<1>1. low \in Int /\ high \in Int
  BY LeastOfTwo, GreatestOfTwo
<1> HIDE DEF low, high
<1>2. GreatestOf({low, v}) \in Int
  BY <1>1, GreatestOfTwo
<1>3. LeastOf({high, GreatestOf({low, v})}) \in Int
  BY <1>1, <1>2, LeastOfTwo
<1> QED
  BY <1>3 DEF Clamp, low, high

\* The projection of a position to a segment.
LEMMA SegmentType ==
    ASSUME NEW p \in Int \X Int, NEW a \in Int \X Int, NEW b \in Int \X Int
    PROVE  pointToSegmentDistance(p, a, b) \in [distance : Nat, travelled : Nat]
<1> DEFINE foot == <<Clamp(p[1], a[1], b[1]), Clamp(p[2], a[2], b[2])>>
<1>1. foot \in Int \X Int
  <2>1. /\ p[1] \in Int /\ p[2] \in Int /\ a[1] \in Int /\ a[2] \in Int
        /\ b[1] \in Int /\ b[2] \in Int
    OBVIOUS
  <2>2. Clamp(p[1], a[1], b[1]) \in Int /\ Clamp(p[2], a[2], b[2]) \in Int
    BY <2>1, ClampType
  <2> QED
    BY <2>2
<1> HIDE DEF foot
<1>2. haversine(p, foot) \in Nat /\ haversine(a, foot) \in Nat
  BY <1>1, HaversineType
<1> QED
  BY <1>2 DEF pointToSegmentDistance, foot

\* The projection of a position to a shape: a distance, a way along the shape,
\* and the segment it lies on.
LEMMA PolylineType ==
    ASSUME NEW p \in Int \X Int, NEW points \in Seq(Int \X Int), Len(points) >= 2
    PROVE  pointToPolylineDistance(p, points) \in
               [distance : Nat, along : Nat, segment : 1..(Len(points) - 1)]
<1> DEFINE k == Len(points) - 1
           segments == 1..k
           on == [i \in segments |-> pointToSegmentDistance(p, points[i], points[i + 1])]
           D == {on[i].distance : i \in segments}
           least == LeastOf(D)
           B == {i \in segments : on[i].distance = least}
           best == LeastOf(B)
           Adds(f) == f = [i \in segments |-> IF i = 1 THEN 0
               ELSE LET before == f[i - 1] IN before + haversine(points[i - 1], points[i])]
           start == CHOOSE f : Adds(f)
<1>1. k \in Nat /\ k >= 1
  OBVIOUS
<1>2. \A i \in 1..(k + 1) : points[i] \in Int \X Int
  BY <1>1
<1>3. on \in [segments -> [distance : Nat, travelled : Nat]]
  <2>1. ASSUME NEW i \in segments
        PROVE  pointToSegmentDistance(p, points[i], points[i + 1]) \in [distance : Nat, travelled : Nat]
    <3>1. i \in 1..(k + 1) /\ i + 1 \in 1..(k + 1)
      BY <1>1
    <3> HIDE DEF k
    <3> QED
      BY <1>2, <3>1, SegmentType
  <2> HIDE DEF k
  <2> QED
    BY <2>1
<1> HIDE DEF on, k
<1>4. D \subseteq Nat /\ D # {}
  <2>1. \A i \in segments : on[i].distance \in Nat
    BY <1>3
  <2>2. 1 \in segments
    BY <1>1
  <2>3. on[1].distance \in D
    BY <2>2
  <2> QED
    BY <2>1, <2>3
<1>5. least \in D
  <2> HIDE DEF D
  <2> QED
    BY <1>4, LeastOfType
<1>6. least \in Nat
  BY <1>4, <1>5
<1>7. B \subseteq Nat /\ B # {}
  <2>1. PICK i \in segments : least = on[i].distance
    <3> HIDE DEF least
    <3> QED
      BY <1>5
  <2>2. i \in B
    BY <2>1
  <2>3. segments \subseteq Nat
    BY <1>1
  <2> QED
    BY <2>2, <2>3
<1>8. best \in segments
  <2>1. best \in B
    <3> HIDE DEF B
    <3> QED
      BY <1>7, LeastOfType
  <2> QED
    BY <2>1
<1>9. start \in [segments -> Nat]
  <2> DEFINE way == [i \in segments |-> IF i = 1 THEN 0 ELSE haversine(points[i - 1], points[i])]
             prev == [i \in segments |-> i - 1]
  <2>1. \A i \in segments : way[i] \in Nat
    <3> SUFFICES ASSUME NEW i \in segments PROVE way[i] \in Nat
      OBVIOUS
    <3>1. CASE i = 1
      BY <3>1
    <3>2. CASE i # 1
      <4>1. i - 1 \in 1..(k + 1) /\ i \in 1..(k + 1)
        BY <1>1, <3>2
      <4>2. haversine(points[i - 1], points[i]) \in Nat
        BY <1>2, <4>1, HaversineType
      <4> QED
        BY <3>2, <4>2
    <3> QED
      BY <3>1, <3>2
  <2>2. \A i \in segments : prev[i] # 0 => prev[i] \in segments /\ prev[i] < i
    BY <1>1
  <2>3. PICK f : IsChain(f, segments, prev, way)
    <3>1. segments \subseteq 1..k /\ \A i \in segments : way[i] \in Int
      BY <2>1
    <3> HIDE DEF segments, way, prev
    <3>2. HasChain(segments, prev, way)
      BY <1>1, <2>2, <3>1, ChainExists
    <3> QED
      BY <3>2 DEF HasChain
  <2>4. Adds(f)
    <3>1. ASSUME NEW i \in segments
          PROVE  f[i] = IF i = 1 THEN 0 ELSE f[i - 1] + haversine(points[i - 1], points[i])
      <4>1. prev[i] = i - 1 /\ (i - 1 = 0 <=> i = 1)
        OBVIOUS
      <4>2. f[i] = IF prev[i] = 0 THEN way[i] ELSE f[prev[i]] + way[i]
        BY <2>3 DEF IsChain
      <4>3. way[i] = IF i = 1 THEN 0 ELSE haversine(points[i - 1], points[i])
        OBVIOUS
      <4> QED
        BY <4>1, <4>2, <4>3
    <3> QED
      BY <2>3, <3>1 DEF IsChain
  <2>5. Adds(start)
    <3> HIDE DEF Adds
    <3> QED
      BY <2>4
  <2>6. ASSUME NEW i \in segments
        PROVE  start[i] = IF i = 1 THEN 0 ELSE start[i - 1] + way[i]
    BY <2>5, <2>6
  <2> DEFINE S == {i \in 0..k : i \in segments => start[i] \in Nat}
  <2> HIDE DEF start, way
  <2>7. 0 \in S
    BY <1>1
  <2>8. ASSUME NEW n \in 0..(k - 1), n \in S PROVE n + 1 \in S
    <3>1. n + 1 \in segments /\ (n + 1) - 1 = n
      BY <1>1
    <3>2. CASE n = 0
      BY <2>6, <3>1, <3>2
    <3>3. CASE n # 0
      <4>1. start[n] \in Nat /\ way[n + 1] \in Nat
        BY <1>1, <2>1, <2>8, <3>1, <3>3
      <4>2. start[n + 1] = start[n] + way[n + 1]
        BY <1>1, <2>6, <3>1, <3>3
      <4> QED
        BY <1>1, <3>1, <4>1, <4>2
    <3> QED
      BY <3>2, <3>3
  <2>9. 0..k \subseteq S
    <3> HIDE DEF S
    <3> QED
      BY <1>1, <2>7, <2>8, InductionUpTo
  <2>10. \A i \in segments : start[i] \in Nat
    BY <1>1, <2>9
  <2>11. start = [i \in segments |-> start[i]]
    BY <2>5
  <2> HIDE DEF segments, S, Adds
  <2> QED
    BY <2>10, <2>11
<1>10. start[best] + on[best].travelled \in Nat
  <2>1. start[best] \in Nat /\ on[best].travelled \in Nat
    <3> HIDE DEF start, best, segments
    <3> QED
      BY <1>3, <1>8, <1>9
  <2> HIDE DEF start, best
  <2> QED
    BY <2>1
<1>11. pointToPolylineDistance(p, points) =
         [distance |-> least, along |-> start[best] + on[best].travelled, segment |-> best]
  BY DEF pointToPolylineDistance, on, k
<1> HIDE DEF least, best, start
<1> QED
  BY <1>6, <1>8, <1>10, <1>11 DEF k

\* Each place on each shape.
LEMMA ProjectionType ==
    ASSUME NEW p \in Places, NEW s \in ShapeIds
    PROVE  Projections[p][s] \in
               [distance : Nat, along : Nat, segment : 1..(Len(Shapes[s].points) - 1)]
<1>1. p \in Int \X Int /\ Shapes[s].points \in Seq(Int \X Int) /\ Len(Shapes[s].points) >= 2
  BY MatcherAssumption DEF MatcherAssumption
<1>2. Projections[p][s] = pointToPolylineDistance(p, Shapes[s].points)
  BY DEF Projections
<1> QED
  BY <1>1, <1>2, PolylineType

-----------------------------------------------------------------------------
(* What jobs learn and report                                              *)

Matched == [shape : ShapeIds, nearest : StopNumbers, deviation : {FALSE}]
Averages == [avg : Int, count : Nat]
Samples == [key : Segments, speed : Int]

TracksTyped ==
    /\ pc = [r \in Records |-> pc[r]]
    /\ matched \in [Records -> Matched \cup {None}]
    /\ stopTimes \in [Devices -> [ShapeIds -> [StopNumbers -> Nat]]]
    /\ sample \in [Records -> Samples \cup {None}]
    /\ reading \in [Records -> Averages \cup {None}]
    /\ speeds \in [Segments -> Averages \cup {None}]
    /\ taken \in [Segments -> Nat]
    /\ offRoute = [d \in Devices |-> None]

\* A job that is past the match has a match within 100 m; one that learns has a sample.
JobInv(r) ==
    /\ matched[r] # None => Projections[Report[r].at][matched[r].shape].distance <= 100
    /\ pc[r] \in MatchStages \ {"match"} => matched[r] # None
    /\ pc[r] \in {"select", "write"} => sample[r] # None

Writes(r, k) == pc[r] = "write" /\ sample[r].key = k

CountOf(row) == IF row = None THEN 0 ELSE row.count

\* No job has read a count above what was taken; as long as a segment is not
\* contested, the only job between its read and its write has read what is there.
SegmentInv(k) ==
    /\ CountOf(speeds[k]) <= taken[k]
    /\ \A r \in Records : Writes(r, k) => CountOf(reading[r]) <= taken[k]
    /\ k \notin contested =>
           /\ CountOf(speeds[k]) = taken[k]
           /\ \A r \in Records : Writes(r, k) => reading[r] = speeds[k]
           /\ \A r, q \in Records : Writes(r, k) /\ Writes(q, k) => r = q

JobsInv == \A r \in Records : JobInv(r)
SegmentsInv == \A k \in Segments : SegmentInv(k)

StatsInv == TracksTyped /\ JobsInv /\ SegmentsInv

\* The invariant of the statistics holds at the start.
LEMMA InitStats == Init => StatsInv
<1> SUFFICES ASSUME Init PROVE StatsInv
  OBVIOUS
<1> USE DEF Init, StatsInit, LearnerInit
<1>1. TracksTyped
  BY DEF TracksTyped
<1>2. JobsInv
  BY DEF JobsInv, JobInv, MatchStages
<1>3. SegmentsInv
  BY DEF SegmentsInv, SegmentInv, CountOf, Writes
<1> QED
  BY <1>1, <1>2, <1>3 DEF StatsInv

\* Where no job arrives at its write and nothing is written, the segments stay as they are.
LEMMA SegmentsStay ==
    ASSUME SegmentsInv, UNCHANGED <<speeds, taken, contested>>,
           \A r \in Records : pc'[r] = "write" =>
               pc[r] = "write" /\ sample'[r] = sample[r] /\ reading'[r] = reading[r]
    PROVE  SegmentsInv'
<1> SUFFICES ASSUME NEW k \in Segments PROVE SegmentInv(k)'
  BY DEF SegmentsInv
<1>1. ASSUME NEW r \in Records, Writes(r, k)' PROVE Writes(r, k) /\ reading'[r] = reading[r]
  BY <1>1 DEF Writes
<1> QED
  BY <1>1 DEF SegmentsInv, SegmentInv, CountOf

\* A step to another stage than those of the pipeline.
LEMMA LeavesPipeline ==
    ASSUME StatsInv, NEW r \in Records, NEW stage, Goto(r, stage), stage \notin MatchStages \ {"match"},
           UNCHANGED trackVars
    PROVE  StatsInv'
<1>1. UNCHANGED <<matched, stopTimes, sample, reading, speeds, taken, contested, offRoute>>
  BY DEF trackVars, matchVars, learnVars
<1>2. pc' = [pc EXCEPT ![r] = stage] /\ stage \notin {"select", "write"}
  BY DEF Goto, MatchStages
<1>3. TracksTyped'
  BY <1>1, <1>2 DEF StatsInv, TracksTyped
<1>4. JobsInv'
  BY <1>1, <1>2 DEF StatsInv, JobsInv, JobInv, TracksTyped
<1>5. SegmentsInv'
  BY <1>1, <1>2, SegmentsStay DEF StatsInv, TracksTyped
<1> QED
  BY <1>3, <1>4, <1>5 DEF StatsInv

\* A step that leaves the jobs and the samples alone keeps the count.
LEMMA TracksStay ==
    ASSUME StatsInv, UNCHANGED <<pc, matched, stopTimes, sample, reading, speeds, taken, contested, offRoute>>
    PROVE  StatsInv'
<1>1. TracksTyped'
  BY DEF StatsInv, TracksTyped
<1>2. JobsInv'
  BY DEF StatsInv, JobsInv, JobInv
<1>3. SegmentsInv'
  BY SegmentsStay DEF StatsInv
<1> QED
  BY <1>1, <1>2, <1>3 DEF StatsInv

\* Steps that store.
LEMMA StoreKeeps ==
    ASSUME StatsInv, NEW r \in Records, UNCHANGED trackVars, StoreStep(r) \/ StoreFails(r)
    PROVE  StatsInv'
<1>1. \E stage \in {"find", "store", "can", "match", "done", "waiting", "failed"} : Goto(r, stage)
  BY DEF StoreStep, Start, FindPrevious, Store, StoreCan, StoreFails, AfterStore
<1> QED
  BY <1>1, LeavesPipeline DEF MatchStages

\* A match is a candidate: within 100 m.
LEMMA MatchKeeps ==
    ASSUME StatsInv, NEW r \in Records, NEW b \in BOOLEAN, Match(r, b)
    PROVE  StatsInv'
<1>1. CASE Candidates(Report[r].at) = {}
  <2>1. Goto(r, "done") /\ UNCHANGED trackVars
    BY <1>1 DEF Match, trackVars, matchVars
  <2> QED
    BY <2>1, LeavesPipeline DEF MatchStages
<1>2. CASE Candidates(Report[r].at) # {}
  <2>1. PICK s \in Candidates(Report[r].at) :
          \E nearest \in nearestStopSequences(s, Projections[Report[r].at][s].along) :
              /\ matched' = [matched EXCEPT ![r] = [shape |-> s, nearest |-> nearest, deviation |-> FALSE]]
              /\ pc' = [pc EXCEPT ![r] = "predict"]
    BY <1>2 DEF Match, BestCandidates, Goto
  <2>9. PICK nearest \in nearestStopSequences(s, Projections[Report[r].at][s].along) :
          /\ matched' = [matched EXCEPT ![r] = [shape |-> s, nearest |-> nearest, deviation |-> FALSE]]
          /\ pc' = [pc EXCEPT ![r] = "predict"]
    BY <2>1
  <2>2. UNCHANGED <<stopTimes, sample, reading, speeds, taken, contested, offRoute>>
    BY DEF Match, learnVars
  <2>3. s \in ShapeIds /\ Projections[Report[r].at][s].distance <= 100
    BY DEF Candidates
  <2>4. nearest \in StopNumbers
    BY DEF nearestStopSequences, StopNumbers
  <2> DEFINE m == [shape |-> s, nearest |-> nearest, deviation |-> FALSE]
  <2>5. m \in Matched /\ m # None /\ m.shape = s
    <3>1. m \in [shape : ShapeIds, nearest : StopNumbers, deviation : BOOLEAN]
      BY <2>3, <2>4
    <3> QED
      BY <2>3, <2>4, <3>1, UndefinedAssumption DEF Matched
  <2> HIDE DEF m
  <2>6. TracksTyped'
    BY <2>9, <2>2, <2>5 DEF StatsInv, TracksTyped, m
  <2>7. JobsInv'
    BY <2>9, <2>2, <2>3, <2>5 DEF StatsInv, JobsInv, JobInv, TracksTyped, m
  <2>8. SegmentsInv'
    BY <2>9, <2>2, SegmentsStay DEF StatsInv, TracksTyped
  <2> QED
    BY <2>6, <2>7, <2>8 DEF StatsInv
<1> QED
  BY <1>1, <1>2

\* No match deviates.
LEMMA PredictKeeps ==
    ASSUME StatsInv, NEW r \in Records, Predict(r)
    PROVE  StatsInv'
<1>1. /\ pc[r] = "predict" /\ pc' = [pc EXCEPT ![r] = "setex"]
      /\ UNCHANGED <<stopTimes, sample, reading, speeds, taken, contested>>
      /\ TracksTyped /\ JobInv(r)
  BY DEF Predict, Goto, learnVars, StatsInv, JobsInv
<1>2. matched[r] # None /\ matched[r] \in Matched /\ Projections[Report[r].at][matched[r].shape].distance <= 100
  BY <1>1 DEF JobInv, MatchStages, TracksTyped
<1>3. ~Deviates(r)
  <2>1. Report[r].at \in Places /\ matched[r].shape \in ShapeIds
    BY <1>2, StatsAssumption DEF StatsAssumption, Matched
  <2>2. Projections[Report[r].at][matched[r].shape].distance \in Nat
    BY <2>1, ProjectionType
  <2> QED
    BY <1>2, <2>2 DEF Deviates
<1>4. matched' = [matched EXCEPT ![r].deviation = FALSE] /\ offRoute' = [offRoute EXCEPT ![DeviceOf[r]] = None]
  BY <1>3 DEF Predict, CheckAdherence
<1>5. matched' = matched
  <2>1. [matched[r] EXCEPT !.deviation = FALSE] = matched[r]
    BY <1>2 DEF Matched
  <2> QED
    BY <1>1, <1>4, <2>1 DEF TracksTyped
<1>6. offRoute' = offRoute
  BY <1>1, <1>4 DEF TracksTyped
<1>7. TracksTyped'
  BY <1>1, <1>5, <1>6 DEF TracksTyped
<1>8. JobsInv'
  BY <1>1, <1>2, <1>5 DEF StatsInv, JobsInv, JobInv, TracksTyped
<1>9. SegmentsInv'
  BY <1>1, SegmentsStay DEF StatsInv, TracksTyped
<1> QED
  BY <1>7, <1>8, <1>9 DEF StatsInv

-----------------------------------------------------------------------------
\* The time of a stop is written, and perhaps that of another forgotten.
LEMMA TimesTyped ==
    ASSUME TracksTyped, NEW r \in Records, matched[r] # None, RecordTime(r)
    PROVE  stopTimes' \in [Devices -> [ShapeIds -> [StopNumbers -> Nat]]]
<1>1. /\ DeviceOf[r] \in Devices /\ Report[r].ts \in Nat
      /\ matched[r].shape \in ShapeIds /\ matched[r].nearest \in StopNumbers
  BY StatsAssumption DEF TracksTyped, Matched
<1> DEFINE d == DeviceOf[r]
           s == matched[r].shape
           times == [stopTimes[d][s] EXCEPT ![matched[r].nearest] = Report[r].ts]
<1>2. times \in [StopNumbers -> Nat]
  BY <1>1 DEF TracksTyped
<1>3. \/ stopTimes' = [stopTimes EXCEPT ![d][s] = times]
      \/ \E m \in StopNumbers : stopTimes' = [stopTimes EXCEPT ![d][s] = [times EXCEPT ![m] = 0]]
  BY DEF RecordTime
<1> HIDE DEF times
<1>4. \E w \in [StopNumbers -> Nat] : stopTimes' = [stopTimes EXCEPT ![d][s] = w]
  BY <1>2, <1>3
<1> QED
  BY <1>1, <1>4 DEF TracksTyped

\* A job that leaves for "device" and records its time, its sample not written.
LEMMA RecordKeeps ==
    ASSUME StatsInv, NEW r \in Records, pc[r] \in {"setex", "select", "write"},
           RecordTime(r), Goto(r, "device"),
           UNCHANGED <<matched, sample, reading, speeds, taken, contested, offRoute>>
    PROVE  StatsInv'
<1>1. TracksTyped /\ matched[r] # None
  BY DEF StatsInv, JobsInv, JobInv, MatchStages
<1>2. pc' = [pc EXCEPT ![r] = "device"]
  BY DEF Goto
<1>3. TracksTyped'
  BY <1>1, <1>2, TimesTyped DEF TracksTyped
<1>4. JobsInv'
  BY <1>1, <1>2 DEF StatsInv, JobsInv, JobInv, TracksTyped
<1>5. SegmentsInv'
  BY <1>1, <1>2, SegmentsStay DEF StatsInv, TracksTyped
<1> QED
  BY <1>3, <1>4, <1>5 DEF StatsInv

\* A step of the speed learner keeps the count of samples.
LEMMA LearnKeeps ==
    ASSUME StatsInv, NEW r \in Records, Learn(r)
    PROVE  StatsInv'
<1>1. /\ pc[r] = "setex" /\ TracksTyped /\ matched[r] \in Matched /\ matched[r] # None
      /\ UNCHANGED <<matched, reading, speeds, taken, contested, offRoute>>
  BY DEF Learn, matchVars, StatsInv, JobsInv, JobInv, MatchStages, TracksTyped
<1>2. CASE RecordTime(r) /\ Goto(r, "device") /\ UNCHANGED sample
  BY <1>1, <1>2, RecordKeeps
<1>3. CASE /\ Goto(r, "select") /\ UNCHANGED stopTimes
           /\ \E m \in findPreviousRecordedSequence(stopTimes[DeviceOf[r]][matched[r].shape], matched[r].nearest) :
                /\ Plausible(Report[r].ts - stopTimes[DeviceOf[r]][matched[r].shape][m])
                /\ sample' = [sample EXCEPT ![r] =
                     [key   |-> [shape |-> matched[r].shape, from |-> m, to |-> matched[r].nearest,
                                 slot |-> SlotOf(Report[r].ts)],
                      speed |-> estimateSpeedFromTime(Report[r].ts - stopTimes[DeviceOf[r]][matched[r].shape][m])]]
  <2> DEFINE times == stopTimes[DeviceOf[r]][matched[r].shape]
  <2>1. PICK m \in findPreviousRecordedSequence(times, matched[r].nearest) :
          /\ Plausible(Report[r].ts - times[m])
          /\ sample' = [sample EXCEPT ![r] =
               [key   |-> [shape |-> matched[r].shape, from |-> m, to |-> matched[r].nearest,
                           slot |-> SlotOf(Report[r].ts)],
                speed |-> estimateSpeedFromTime(Report[r].ts - times[m])]]
    BY <1>3
  <2>2. m \in StopNumbers
    BY DEF findPreviousRecordedSequence
  <2>3. times[m] \in Nat /\ Report[r].ts \in Nat
    BY <1>1, <2>2, StatsAssumption DEF TracksTyped, Matched
  <2>4. estimateSpeedFromTime(Report[r].ts - times[m]) \in Int
    BY <2>1, <2>3 DEF Plausible, estimateSpeedFromTime
  <2>5. [shape |-> matched[r].shape, from |-> m, to |-> matched[r].nearest,
         slot |-> SlotOf(Report[r].ts)] \in Segments
    BY <1>1, <2>2 DEF Segments, TimeSlots, Matched
  <2> HIDE DEF times
  <2>6. PICK new \in Samples : sample' = [sample EXCEPT ![r] = new]
    BY <2>1, <2>4, <2>5 DEF Samples
  <2>7. new # None
    <3>1. Samples \subseteq [key : Segments, speed : Int]
      BY DEF Samples
    <3> QED
      BY <3>1, UndefinedAssumption
  <2>8. pc' = [pc EXCEPT ![r] = "select"]
    BY <1>3 DEF Goto
  <2>9. TracksTyped'
    BY <1>1, <1>3, <2>6, <2>8 DEF TracksTyped
  <2>10. JobsInv'
    BY <1>1, <2>6, <2>7, <2>8 DEF StatsInv, JobsInv, JobInv, TracksTyped, MatchStages
  <2>11. SegmentsInv'
    BY <1>1, <2>6, <2>8, SegmentsStay DEF StatsInv, TracksTyped
  <2> QED
    BY <2>9, <2>10, <2>11 DEF StatsInv
<1> QED
  BY <1>2, <1>3 DEF Learn

\* The row is read: from here on the segment is contested when another job is
\* between its read and its write.
LEMMA SelectKeeps ==
    ASSUME StatsInv, NEW r \in Records, Select(r)
    PROVE  StatsInv'
<1>1. /\ pc[r] = "select" /\ TracksTyped /\ sample[r] \in Samples
      /\ UNCHANGED <<matched, stopTimes, sample, speeds, taken, offRoute>>
  BY DEF Select, matchVars, StatsInv, JobsInv, JobInv, TracksTyped
<1> DEFINE k == sample[r].key
<1>2. /\ k \in Segments
      /\ pc' = [pc EXCEPT ![r] = "write"] /\ reading' = [reading EXCEPT ![r] = speeds[k]]
      /\ contested' = contested \cup
             {sample[q].key : q \in {p \in Records : pc[p] = "write" /\ sample[p].key = k}}
  BY <1>1 DEF Select, Goto, Samples
<1>3. contested \subseteq contested' /\ \A q \in Records : Writes(q, k) => k \in contested'
  BY <1>2 DEF Writes
<1> HIDE DEF k
<1>4. TracksTyped'
  BY <1>1, <1>2 DEF TracksTyped
<1>5. JobsInv'
  BY <1>1, <1>2 DEF StatsInv, JobsInv, JobInv, TracksTyped, MatchStages
<1>6. ASSUME NEW l \in Segments PROVE SegmentInv(l)'
  <2>1. SegmentInv(l)
    BY DEF StatsInv, SegmentsInv
  <2>2. ASSUME NEW q \in Records, q # r
        PROVE  (Writes(q, l)' <=> Writes(q, l)) /\ reading'[q] = reading[q]
    BY <1>1, <1>2, <2>2 DEF Writes, TracksTyped
  <2>3. Writes(r, l)' <=> k = l
    BY <1>1, <1>2 DEF Writes, TracksTyped, k
  <2>4. reading'[r] = speeds[k]
    BY <1>1, <1>2 DEF TracksTyped
  <2>5. l \notin contested' => l \notin contested /\ (k = l => \A q \in Records : ~Writes(q, l))
    BY <1>3
  <2> QED
    BY <1>1, <2>1, <2>2, <2>3, <2>4, <2>5 DEF SegmentInv, CountOf
<1> QED
  BY <1>4, <1>5, <1>6 DEF StatsInv, SegmentsInv

\* One is added to what was read, and to what was taken.
LEMMA WriteKeeps ==
    ASSUME StatsInv, NEW r \in Records, Write(r)
    PROVE  StatsInv'
<1>1. /\ pc[r] = "write" /\ TracksTyped /\ sample[r] \in Samples /\ matched[r] # None
      /\ RecordTime(r)
      /\ UNCHANGED <<matched, sample, reading, contested, offRoute>>
  BY DEF Write, matchVars, StatsInv, JobsInv, JobInv, TracksTyped, MatchStages
<1> DEFINE k == sample[r].key
           new == IF reading[r] # None THEN Average(reading[r], sample[r].speed)
                  ELSE IF speeds[k] = None THEN [avg |-> sample[r].speed, count |-> 1] ELSE speeds[k]
<1>2. /\ k \in Segments
      /\ pc' = [pc EXCEPT ![r] = "device"]
      /\ speeds' = [speeds EXCEPT ![k] = new] /\ taken' = [taken EXCEPT ![k] = @ + 1]
  BY <1>1 DEF Write, Goto, Samples
<1>3. /\ new \in Averages /\ new # None
      /\ new.count = IF reading[r] # None THEN reading[r].count + 1
                     ELSE IF speeds[k] = None THEN 1 ELSE speeds[k].count
  <2>1. speeds[k] \in Averages \cup {None} /\ reading[r] \in Averages \cup {None} /\ sample[r].speed \in Int
    BY <1>1, <1>2 DEF TracksTyped, Samples
  <2>2. None \notin Averages
    <3>1. Averages \subseteq [avg : Int, count : Nat]
      BY DEF Averages
    <3> QED
      BY <3>1, UndefinedAssumption
  <2>3. ASSUME reading[r] # None
        PROVE  /\ Average(reading[r], sample[r].speed) \in Averages
               /\ Average(reading[r], sample[r].speed).count = reading[r].count + 1
    <3>1. reading[r].avg \in Int /\ reading[r].count \in Nat
      BY <2>1, <2>3 DEF Averages
    <3>2. (reading[r].avg * reading[r].count + sample[r].speed) \div (reading[r].count + 1) \in Int
      BY <2>1, <3>1
    <3> QED
      BY <3>1, <3>2 DEF Average, Averages
  <2>4. [avg |-> sample[r].speed, count |-> 1] \in Averages
    BY <2>1 DEF Averages
  <2> QED
    BY <2>1, <2>2, <2>3, <2>4
<1> HIDE DEF k, new
<1>4. TracksTyped'
  <2>1. stopTimes' \in [Devices -> [ShapeIds -> [StopNumbers -> Nat]]]
    BY <1>1, TimesTyped
  <2>2. speeds' \in [Segments -> Averages \cup {None}] /\ taken' \in [Segments -> Nat]
    BY <1>1, <1>2, <1>3 DEF TracksTyped
  <2> QED
    BY <1>1, <1>2, <2>1, <2>2 DEF TracksTyped
<1>5. JobsInv'
  BY <1>1, <1>2 DEF StatsInv, JobsInv, JobInv, TracksTyped, MatchStages
<1>6. ASSUME NEW l \in Segments PROVE SegmentInv(l)'
  <2>1. /\ SegmentInv(l) /\ taken[l] \in Nat
        /\ \A q \in Records : reading[q] # None => reading[q].count \in Nat
        /\ speeds[l] # None => speeds[l].count \in Nat
    BY <1>1 DEF StatsInv, SegmentsInv, TracksTyped, Averages
  <2>2. \A q \in Records : /\ Writes(q, l)' => q # r /\ Writes(q, l)
                            /\ reading'[q] = reading[q]
    BY <1>1, <1>2 DEF Writes, TracksTyped
  <2>3. CASE l # k
    <3>1. speeds'[l] = speeds[l] /\ taken'[l] = taken[l]
      BY <1>1, <1>2, <2>3 DEF TracksTyped
    <3> QED
      BY <1>1, <2>1, <2>2, <3>1 DEF SegmentInv, CountOf
  <2>4. CASE l = k
    <3>1. speeds'[l] = new /\ taken'[l] = taken[l] + 1 /\ Writes(r, l)
      BY <1>1, <1>2, <2>4 DEF TracksTyped, Writes, k
    <3>2. CountOf(speeds'[l]) <= taken'[l]
      BY <1>3, <2>1, <2>4, <3>1 DEF SegmentInv, CountOf
    <3>3. \A q \in Records : Writes(q, l)' => CountOf(reading'[q]) <= taken'[l]
      BY <2>1, <2>2, <3>1 DEF SegmentInv, CountOf
    <3>4. l \notin contested' => CountOf(speeds'[l]) = taken'[l] /\ \A q \in Records : ~Writes(q, l)'
      BY <1>1, <1>3, <2>1, <2>2, <2>4, <3>1 DEF SegmentInv, CountOf
    <3> QED
      BY <3>2, <3>3, <3>4 DEF SegmentInv, CountOf
  <2> QED
    BY <2>3, <2>4
<1> QED
  BY <1>4, <1>5, <1>6 DEF StatsInv, SegmentsInv

\* The job ends and its variables go.
LEMMA DeviceKeeps ==
    ASSUME StatsInv, NEW r \in Records, NEW b \in BOOLEAN, UpdateDevice(r, b)
    PROVE  StatsInv'
<1>1. /\ pc[r] = "device" /\ TracksTyped /\ pc' = [pc EXCEPT ![r] = "done"]
      /\ matched' = [matched EXCEPT ![r] = None] /\ sample' = [sample EXCEPT ![r] = None]
      /\ reading' = [reading EXCEPT ![r] = None]
      /\ UNCHANGED <<stopTimes, speeds, taken, contested, offRoute>>
  BY DEF UpdateDevice, Goto, StatsInv
<1>2. TracksTyped'
  BY <1>1 DEF TracksTyped
<1>3. JobsInv'
  BY <1>1 DEF StatsInv, JobsInv, JobInv, TracksTyped, MatchStages
<1>4. SegmentsInv'
  BY <1>1, SegmentsStay DEF StatsInv, TracksTyped
<1> QED
  BY <1>2, <1>3, <1>4 DEF StatsInv

\* A job that fails keeps the count of samples.
LEMMA FailKeeps ==
    ASSUME StatsInv, NEW r \in Records, PipelineFails(r)
    PROVE  StatsInv'
<1>1. /\ pc[r] = "predict" /\ TracksTyped /\ pc' = [pc EXCEPT ![r] = "done"]
      /\ matched' = [matched EXCEPT ![r] = None]
      /\ UNCHANGED <<stopTimes, sample, reading, speeds, taken, contested, offRoute>>
  BY DEF PipelineFails, Goto, StatsInv, learnVars
<1>2. TracksTyped'
  BY <1>1 DEF TracksTyped
<1>3. JobsInv'
  BY <1>1 DEF StatsInv, JobsInv, JobInv, TracksTyped, MatchStages
<1>4. SegmentsInv'
  BY <1>1, SegmentsStay DEF StatsInv, TracksTyped
<1> QED
  BY <1>2, <1>3, <1>4 DEF StatsInv

-----------------------------------------------------------------------------
\* Every step keeps the invariant of matches and samples.
LEMMA NextStats == StatsInv /\ [Next]_vars => StatsInv'
<1> SUFFICES ASSUME StatsInv, [Next]_vars PROVE StatsInv'
  OBVIOUS
<1>1. ASSUME NEW r \in Records, StoreStep(r) \/ StoreFails(r), UNCHANGED trackVars PROVE StatsInv'
  BY <1>1, StoreKeeps
<1>2. ASSUME NEW r \in Records, TrackStep(r) \/ TrackFails(r) PROVE StatsInv'
  <2>1. ASSUME NEW b \in BOOLEAN, Match(r, b) PROVE StatsInv'
    BY <2>1, MatchKeeps
  <2>2. ASSUME NEW b \in BOOLEAN, UpdateDevice(r, b) PROVE StatsInv'
    BY <2>2, DeviceKeeps
  <2>3. CASE LearnFails(r)
    BY <2>3, RecordKeeps DEF LearnFails, matchVars
  <2> QED
    BY <1>2, <2>1, <2>2, <2>3, PredictKeeps, LearnKeeps, SelectKeeps, WriteKeeps, FailKeeps
       DEF TrackStep, TrackFails
<1>3. ASSUME NEW d \in Devices, ComputeDay(d) \/ DayFails(d), UNCHANGED trackVars PROVE StatsInv'
  BY <1>3, TracksStay DEF ComputeDay, DayFails, trackVars, matchVars, learnVars
<1>4. ASSUME TwoMinutes, UNCHANGED pc PROVE StatsInv'
  <2>1. offRoute' = offRoute
    BY <1>4 DEF TwoMinutes, StatsInv, TracksTyped
  <2> QED
    BY <1>4, <2>1, TracksStay DEF TwoMinutes, learnVars
<1>5. CASE UNCHANGED vars
  BY <1>5, TracksStay DEF vars, trackVars, matchVars, learnVars
<1>6. CASE Next
  <2>1. CASE Fails
    BY <2>1, <1>1, <1>2, <1>3 DEF Fails
  <2> QED
    BY <1>6, <2>1, <1>1, <1>2, <1>3, <1>4 DEF Next
<1> QED
  BY <1>5, <1>6

\* The invariant of the statistics holds in every reachable state.
LEMMA StatsInductive == Spec => []StatsInv
BY InitStats, NextStats, PTL DEF Spec

\* For any records, shapes, number of jobs and failures: an average counts no
\* sample twice, and it counts every one unless two jobs were between the read
\* and the write of its segment (speed-learner.ts:38-77).
THEOREM SamplesAreCounted == Spec => []SamplesCounted
<1>1. StatsInv => SamplesCounted
  BY DEF StatsInv, SegmentsInv, SegmentInv, CountOf, SamplesCounted, Count
<1> QED
  BY <1>1, StatsInductive, PTL

-----------------------------------------------------------------------------
(* Matching                                                                *)

Off(p, s) == Projections[p][s].distance
Turn(p, heading, s) ==
    LET i == Projections[p][s].segment  points == Shapes[s].points IN
    angleDiff(heading, segmentBearing(points[i], points[i + 1]))

\* The angle between two directions is a whole number.
LEMMA AngleType ==
    ASSUME NEW a \in Int, NEW b \in Int
    PROVE  angleDiff(a, b) \in Int
<1> DEFINE diff == (IF a > b THEN a - b ELSE b - a) % 360
<1>1. diff \in Int
  OBVIOUS
<1> HIDE DEF diff
<1>2. LeastOf({diff, 360 - diff}) \in Int
  BY <1>1, LeastOfTwo
<1> QED
  BY <1>2 DEF angleDiff, diff

\* How far a shape turns away from a bus, and how far it is, are whole numbers.
LEMMA MatchTypes ==
    ASSUME NEW p \in Places, NEW heading \in Int, NEW s \in ShapeIds
    PROVE  Off(p, s) \in Int /\ Turn(p, heading, s) \in Int
<1>1. \A a, b : segmentBearing(a, b) \in Int
  BY DEF segmentBearing
<1>2. Off(p, s) \in Int
  BY ProjectionType DEF Off
<1> DEFINE points == Shapes[s].points
           i == Projections[p][s].segment
           b == segmentBearing(points[i], points[i + 1])
<1>3. b \in Int
  BY <1>1
<1>4. Turn(p, heading, s) = angleDiff(heading, b)
  BY DEF Turn
<1> HIDE DEF b
<1>5. angleDiff(heading, b) \in Int
  BY <1>3, AngleType
<1> QED
  BY <1>2, <1>4, <1>5

\* What a shape scores apart from the bonus.
Points(off, turn) == 360 * GreatestOf({0, 100 - off}) + (IF turn < 45 THEN 500 * (45 - turn) ELSE 0)

\* Closer shapes that turn away less score no less.
LEMMA PointsMonotonic ==
    ASSUME NEW o1 \in Int, NEW o2 \in Int, NEW t1 \in Int, NEW t2 \in Int, o1 <= o2, t1 <= t2
    PROVE  Points(o1, t1) \in Int /\ Points(o2, t2) \in Int /\ Points(o1, t1) >= Points(o2, t2)
<1>1. /\ GreatestOf({0, 100 - o1}) = IF 0 >= 100 - o1 THEN 0 ELSE 100 - o1
      /\ GreatestOf({0, 100 - o2}) = IF 0 >= 100 - o2 THEN 0 ELSE 100 - o2
  BY GreatestOfTwo
<1> QED
  BY <1>1 DEF Points

\* The route of last time outscores every other candidate that is no closer and
\* turns away no less, also an assigned one.
LEMMA LastRouteWins ==
    ASSUME NEW p \in Places, NEW heading \in Int, NEW assigned,
           NEW last \in ShapeIds, NEW s \in ShapeIds, s # last,
           Off(p, last) <= Off(p, s), Turn(p, heading, last) <= Turn(p, heading, s)
    PROVE  /\ Score(p, heading, assigned, last, last) > Score(p, heading, assigned, last, s)
           /\ Score(p, heading, assigned, last, last) # Score(p, heading, assigned, last, s)
<1> DEFINE a == Points(Off(p, last), Turn(p, heading, last))
           b == Points(Off(p, s), Turn(p, heading, s))
<1>1. a \in Int /\ b \in Int /\ a >= b
  BY MatchTypes, PointsMonotonic
<1>2. /\ Score(p, heading, assigned, last, last) = a + Bonus(last, assigned, last)
      /\ Score(p, heading, assigned, last, s) = b + Bonus(s, assigned, last)
  BY DEF Score, Points, Off, Turn
<1>3. /\ Bonus(last, assigned, last) \in {18000, 31500}
      /\ Bonus(s, assigned, last) \in {0, 13500}
  BY DEF Bonus
<1> HIDE DEF a, b
<1> QED
  BY <1>1, <1>2, <1>3

\* The candidate that matchGpsToRoute takes is the route of last time when no
\* other is closer or turns away less.
LEMMA BestIsLast ==
    ASSUME NEW p \in Places, NEW heading \in Int, NEW assigned, NEW last \in Candidates(p),
           \A s \in Candidates(p) : /\ Off(p, last) <= Off(p, s)
                                    /\ Turn(p, heading, last) <= Turn(p, heading, s),
           NEW s \in BestCandidates(p, heading, assigned, last)
    PROVE  s = last
<1>1. s \in Candidates(p) /\ Candidates(p) \subseteq ShapeIds
  BY DEF BestCandidates, Candidates
<1>2. \/ Score(p, heading, assigned, last, s) > Score(p, heading, assigned, last, last)
      \/ Score(p, heading, assigned, last, s) = Score(p, heading, assigned, last, last)
  BY <1>1 DEF BestCandidates
<1>3. ASSUME s # last PROVE FALSE
  <2>1. /\ Score(p, heading, assigned, last, last) > Score(p, heading, assigned, last, s)
        /\ Score(p, heading, assigned, last, last) # Score(p, heading, assigned, last, s)
    BY <1>1, <1>3, LastRouteWins
  <2>2. \A x \in ShapeIds : Score(p, heading, assigned, last, x) \in Int
    <3> TAKE x \in ShapeIds
    <3>1. Score(p, heading, assigned, last, x) =
             Points(Off(p, x), Turn(p, heading, x)) + Bonus(x, assigned, last)
      BY DEF Score, Points, Off, Turn
    <3>2. Points(Off(p, x), Turn(p, heading, x)) \in Int
      BY MatchTypes, PointsMonotonic
    <3>3. Bonus(x, assigned, last) \in Int
      BY DEF Bonus
    <3> QED
      BY <3>1, <3>2, <3>3
  <2> QED
    BY <1>1, <1>2, <2>1, <2>2
<1> QED
  BY <1>3

\* Only the match of a job takes it from "match" to "predict".
LEMMA OnlyMatchPredicts ==
    ASSUME StatsInv, [Next]_vars, NEW r \in Records, pc[r] = "match", pc'[r] = "predict"
    PROVE  \E b \in BOOLEAN : Match(r, b)
<1>0. pc = [q \in Records |-> pc[q]]
  BY DEF StatsInv, TracksTyped
<1>1. pc' # pc
  BY DEF StatsInv
<1>2. ASSUME NEW q \in Records, StoreStep(q) \/ StoreFails(q) PROVE FALSE
  <2>1. pc[q] # "match" /\ \E stage : Goto(q, stage)
    BY <1>2 DEF StoreStep, Start, FindPrevious, Store, StoreCan, StoreFails, StoreStages
  <2> QED
    BY <1>0, <2>1 DEF Goto
<1>3. ASSUME NEW q \in Records, TrackStep(q) \/ TrackFails(q) PROVE \E b \in BOOLEAN : Match(r, b)
  <2>1. CASE \E b \in BOOLEAN : Match(q, b)
    <3>1. \E stage : Goto(q, stage)
      BY <2>1 DEF Match
    <3>2. q = r
      BY <1>0, <3>1 DEF Goto
    <3> QED
      BY <2>1, <3>2
  <2>2. CASE ~ \E b \in BOOLEAN : Match(q, b)
    <3>1. pc[q] # "match" /\ \E stage : Goto(q, stage)
      BY <1>3, <2>2 DEF TrackStep, TrackFails, Predict, Learn, Select, Write, UpdateDevice,
                        PipelineFails, LearnFails
    <3> QED
      BY <1>0, <3>1 DEF Goto
  <2> QED
    BY <2>1, <2>2
<1>4. \A d \in Devices : ~(ComputeDay(d) \/ DayFails(d))
  BY <1>1 DEF ComputeDay, DayFails
<1> QED
  BY <1>1, <1>2, <1>3, <1>4 DEF Next, Fails, vars

\* For any shapes, positions, assignments and interleaving of jobs: a bus keeps
\* the route of its last match, if that was in the last two minutes and no other
\* candidate is closer or fits its heading better, also when only the other route is assigned to it
\* (route-matcher.ts:140-176).
THEOREM StreetKeepsRoute == Spec => SharedStreetKeepsRoute
<1>1. ASSUME StatsInv, [Next]_vars, NEW r \in Records, pc[r] = "match", pc'[r] = "predict",
             lastMatch[DeviceOf[r]] # None,
             lastMatch[DeviceOf[r]] \in Candidates(Report[r].at),
             \A s \in Candidates(Report[r].at) :
                 /\ Off(Report[r].at, lastMatch[DeviceOf[r]]) <= Off(Report[r].at, s)
                 /\ Turn(Report[r].at, Report[r].heading, lastMatch[DeviceOf[r]])
                       <= Turn(Report[r].at, Report[r].heading, s)
      PROVE  matched'[r].shape = lastMatch[DeviceOf[r]]
  <2> DEFINE at == Report[r].at
             last == lastMatch[DeviceOf[r]]
  <2>1. PICK b \in BOOLEAN : Match(r, b)
    BY <1>1, OnlyMatchPredicts
  <2>2. Candidates(at) # {}
    BY <1>1
  <2>3. PICK assigned : \E s \in BestCandidates(at, Report[r].heading, assigned, last) :
          \E nearest : matched' = [matched EXCEPT ![r] =
                           [shape |-> s, nearest |-> nearest, deviation |-> FALSE]]
    BY <2>1, <2>2 DEF Match
  <2>4. PICK s \in BestCandidates(at, Report[r].heading, assigned, last) :
          \E nearest : matched' = [matched EXCEPT ![r] =
                           [shape |-> s, nearest |-> nearest, deviation |-> FALSE]]
    BY <2>3
  <2>5. at \in Places /\ Report[r].heading \in Int
    BY StatsAssumption DEF StatsAssumption
  <2>6. s = last
    BY <1>1, <2>5, BestIsLast
  <2>7. matched'[r].shape = s
    BY <1>1, <2>4 DEF StatsInv, TracksTyped
  <2> QED
    BY <2>6, <2>7
<1>2. StatsInv /\ [Next]_vars =>
        [\A r \in Records : pc[r] = "match" /\ pc'[r] = "predict" =>
           LET at == Report[r].at  last == lastMatch[DeviceOf[r]]
               off(s) == Projections[at][s].distance
               turn(s) == LET i == Projections[at][s].segment  points == Shapes[s].points IN
                   angleDiff(Report[r].heading, segmentBearing(points[i], points[i + 1]))
           IN  /\ last # None
               /\ last \in Candidates(at)
               /\ \A s \in Candidates(at) :
                      off(last) <= off(s) /\ turn(last) <= turn(s)
               => matched'[r].shape = last]_vars
  BY <1>1 DEF Off, Turn
<1> QED
  BY <1>2, StatsInductive, PTL DEF Spec, SharedStreetKeepsRoute

-----------------------------------------------------------------------------
(* Speeds and arrival times                                                *)

\* A quotient of whole numbers.
LEMMA Quotient ==
    ASSUME NEW x \in Int, NEW n \in Nat \ {0}
    PROVE  x \div n \in Int /\ (x \div n) * n <= x /\ x < (x \div n + 1) * n
  OBVIOUS

\* It lies between two numbers whose products lie around the dividend.
LEMMA QuotientBetween ==
    ASSUME NEW x \in Int, NEW n \in Nat \ {0}, NEW a \in Int, NEW b \in Int, a * n <= x, x <= b * n
    PROVE  x \div n \in a..b
<1> DEFINE q == x \div n
<1>1. q \in Int /\ q * n <= x /\ x < (q + 1) * n
  BY Quotient
<1> HIDE DEF q
<1>2. ASSUME q < a PROVE FALSE
  <2>1. q + 1 <= a
    BY <1>1, <1>2
  <2>2. (q + 1) * n <= a * n
    BY <1>1, <2>1
  <2> QED
    BY <1>1, <2>2
<1>3. ASSUME q > b PROVE FALSE
  <2>1. q >= b + 1
    BY <1>1, <1>3
  <2>2. (b + 1) * n <= q * n /\ (b + 1) * n = b * n + n
    BY <1>1, <2>1
  <2>3. b * n \in Int
    OBVIOUS
  <2> QED
    BY <1>1, <2>2, <2>3
<1>4. q \in a..b
  BY <1>1, <1>2, <1>3
<1> QED
  BY <1>4 DEF q

\* The speeds that a sample may have.
IsPace(v) == v \in Int /\ 1000 <= v /\ v <= 360000

\* The speed of a plausible sample.
LEMMA SampleInBounds ==
    ASSUME NEW t \in Int, Plausible(t)
    PROVE  IsPace(estimateSpeedFromTime(t))
<1> DEFINE x == 1800000
           low == 1000
           high == 360000
<1>1. /\ x \in Int /\ low \in Int /\ high \in Int
      /\ t \in Nat \ {0} /\ low * t <= x /\ x <= high * t
  BY SMT DEF Plausible
<1>2. estimateSpeedFromTime(t) = x \div t
  BY SMT DEF estimateSpeedFromTime
<1>3. \A v \in Int : low <= v /\ v <= high => IsPace(v)
  BY SMT DEF IsPace
<1> HIDE DEF x, low, high
<1>4. x \div t \in low..high
  BY <1>1, QuotientBetween
<1>5. x \div t \in Int /\ low <= x \div t /\ x \div t <= high
  BY <1>1, <1>4
<1> QED
  BY <1>2, <1>3, <1>5

\* The average of speeds within bounds is within bounds.
LEMMA AverageInBounds ==
    ASSUME NEW row \in Averages, IsPace(row.avg), NEW speed, IsPace(speed)
    PROVE  IsPace(Average(row, speed).avg)
<1> DEFINE low == 1000
           high == 360000
           a == row.avg
           n == row.count
           x == a * n + speed
<1>1. /\ low \in Int /\ high \in Int
      /\ \A v : IsPace(v) <=> v \in Int /\ low <= v /\ v <= high
  BY SMT DEF IsPace
<1>2. n \in Nat /\ IsPace(a) /\ IsPace(speed)
  BY DEF Averages
<1>3. Average(row, speed).avg = x \div (n + 1)
  BY DEF Average
<1> HIDE DEF a, n, low, high
<1>4. /\ a \in Int /\ low <= a /\ a <= high
      /\ speed \in Int /\ low <= speed /\ speed <= high
  BY <1>1, <1>2
<1>5. low * n <= a * n /\ a * n <= high * n /\ a * n \in Int /\ low * n \in Int /\ high * n \in Int
  BY <1>1, <1>2, <1>4
<1>6. low * (n + 1) = low * n + low /\ high * (n + 1) = high * n + high
  BY <1>1, <1>2
<1>7. x \in Int /\ low * (n + 1) <= x /\ x <= high * (n + 1) /\ n + 1 \in Nat \ {0}
  BY <1>1, <1>2, <1>4, <1>5, <1>6
<1> HIDE DEF x
<1>8. x \div (n + 1) \in low..high
  BY <1>1, <1>7, QuotientBetween
<1>9. x \div (n + 1) \in Int /\ low <= x \div (n + 1) /\ x \div (n + 1) <= high
  BY <1>1, <1>8
<1> QED
  BY <1>1, <1>3, <1>9

\* The speed that an arrival is predicted from is positive.
LEMMA EstimateType ==
    ASSUME NEW h, h = None \/ h \in Nat, NEW current \in Nat
    PROVE  getEstimatedSpeed(h, current) \in Nat \ {0}
<1>1. \A x \in Nat : x >= 10 => x \div 10 \in Nat \ {0}
  OBVIOUS
<1> DEFINE effective == IF current > 0 THEN current ELSE DefaultSpeed
<1>2. effective \in Nat
  BY DEF DefaultSpeed
<1>3. CASE h # None
  <2>1. 6 * h + 3 * effective + DefaultSpeed \in Nat /\ 6 * h + 3 * effective + DefaultSpeed >= 10
    BY <1>2, <1>3 DEF DefaultSpeed
  <2> HIDE DEF effective
  <2>2. (6 * h + 3 * effective + DefaultSpeed) \div 10 \in Nat \ {0}
    BY <1>1, <2>1
  <2> QED
    BY <1>3, <2>2 DEF getEstimatedSpeed, effective
<1>4. CASE h = None
  <2>1. 7 * current + 3 * DefaultSpeed \in Nat /\ 7 * current + 3 * DefaultSpeed >= 10
    BY DEF DefaultSpeed
  <2>2. (7 * current + 3 * DefaultSpeed) \div 10 \in Nat \ {0}
    BY <1>1, <2>1
  <2> QED
    BY <1>4, <2>2 DEF getEstimatedSpeed, DefaultSpeed
<1> QED
  BY <1>3, <1>4

\* What is computed along a chain is a number for every index.
LEMMA ChainTyped ==
    ASSUME NEW k \in Nat, NEW I, I \subseteq 1..k, NEW p, NEW c, NEW f,
           \A i \in I : c[i] \in Int,
           \A i \in I : p[i] # 0 => p[i] \in I /\ p[i] < i,
           f = [i \in I |-> f[i]],
           \A i \in I : p[i] = 0 => f[i] = c[i],
           \A i \in I : p[i] # 0 /\ f[p[i]] \in Int => f[i] = f[p[i]] + c[i]
    PROVE  IsChain(f, I, p, c)
<1> DEFINE S == {n \in 0..k : \A i \in UpTo(I, n) : f[i] \in Int}
<1>1. 0 \in S
  BY UpToStep
<1>2. ASSUME NEW n \in 0..(k - 1), n \in S PROVE n + 1 \in S
  <2>1. /\ n + 1 \notin I => UpTo(I, n + 1) = UpTo(I, n)
        /\ n + 1 \in I => UpTo(I, n + 1) = UpTo(I, n) \cup {n + 1}
        /\ \A j \in I : (j < n + 1 <=> j \in UpTo(I, n))
    BY UpToStep
  <2>2. ASSUME n + 1 \in I PROVE f[n + 1] \in Int
    <3>1. p[n + 1] # 0 => f[p[n + 1]] \in Int
      BY <1>2, <2>1, <2>2
    <3> QED
      BY <2>2, <3>1
  <2>3. \A i \in UpTo(I, n + 1) : f[i] \in Int
    BY <1>2, <2>1, <2>2
  <2> QED
    BY <2>3
<1>3. k \in S
  <2>1. 0..k \subseteq S
    <3> HIDE DEF S
    <3> QED
      BY <1>1, <1>2, InductionUpTo
  <2> QED
    BY <2>1
<1>4. \A i \in I : f[i] \in Int
  BY <1>3, UpToStep
<1>5. f \in [I -> Int]
  BY <1>4
<1> QED
  BY <1>4, <1>5 DEF IsChain

\* Arrivals one after the other, with the time at a stop between two of them.
InOrder(times) == \A i, j \in DOMAIN times : i < j => times[i] + DwellSeconds <= times[j]

\* The arrivals that are predicted for one position are in order.
LEMMA PredictionInOrder ==
    ASSUME NEW s \in ShapeIds, NEW along \in Int, NEW nearest \in StopNumbers, NEW learned,
           \A a, b \in StopNumbers : learned[a][b] = None \/ learned[a][b] \in Nat,
           NEW current \in Nat
    PROVE  InOrder(predictETAs(s, along, nearest, learned, current))
<1> DEFINE k == Len(RouteStops)
           I == upcomingStops(s, along)
           before(i) == {j \in I : j < i}
           last(i) == IF before(i) = {} THEN 0 ELSE GreatestOf(before(i))
           previous(i) == IF last(i) = 0 THEN nearest ELSE RouteStops[last(i)].sequence
           segment(i) == RouteStops[i].from -
                             (IF last(i) = 0 THEN along ELSE RouteStops[last(i)].from)
           speed(i) == getEstimatedSpeed(learned[previous(i)][RouteStops[i].sequence], current)
           quotient(i) == (segment(i) * 3600) \div speed(i)
           travel(i) == GreatestOf({0, quotient(i)})
           Runs(f) == f = [i \in I |-> IF last(i) = 0 THEN travel(i)
                                        ELSE LET left == f[last(i)] IN Leaves(left) + travel(i)]
           f == CHOOSE f : Runs(f)
           p == [i \in I |-> last(i)]
           c == [i \in I |-> IF last(i) = 0 THEN travel(i) ELSE DwellSeconds + travel(i)]
<1>1. /\ k \in Nat /\ I \subseteq 1..k
      /\ \A i \in I : RouteStops[i].from \in Int /\ RouteStops[i].sequence \in StopNumbers
  BY MatcherAssumption DEF MatcherAssumption, upcomingStops, StopNumbers
<1>2. predictETAs(s, along, nearest, learned, current) = f
  BY DEF predictETAs
<1> HIDE DEF I, k
<1>3. ASSUME NEW i \in I
      PROVE  /\ last(i) # 0 => last(i) \in I /\ last(i) < i
             /\ \A j \in I : j < i => last(i) \in I /\ j <= last(i)
  <2> DEFINE B == before(i)
  <2>1. B \subseteq 0..k /\ B \subseteq I /\ \A j \in B : j < i
    BY <1>1
  <2>2. \A j \in I : j < i => j \in B
    OBVIOUS
  <2>3. last(i) = IF B = {} THEN 0 ELSE GreatestOf(B)
    OBVIOUS
  <2>4. ASSUME B # {} PROVE GreatestOf(B) \in B /\ \A j \in B : GreatestOf(B) >= j
    <3> HIDE DEF B
    <3> QED
      BY <1>1, <2>1, <2>4, GreatestOfType
  <2> HIDE DEF B, last
  <2>5. \A j \in I : j \in Int
    BY <1>1
  <2> QED
    BY <2>1, <2>2, <2>3, <2>4, <2>5
<1> HIDE DEF last
<1>4. ASSUME NEW i \in I PROVE travel(i) \in Nat
  <2>1. segment(i) \in Int
    <3>1. RouteStops[i].from \in Int
      BY <1>1
    <3>2. last(i) # 0 => RouteStops[last(i)].from \in Int
      BY <1>1, <1>3
    <3> QED
      BY <3>1, <3>2
  <2>2. previous(i) \in StopNumbers
    BY <1>1, <1>3
  <2>3. speed(i) \in Nat \ {0}
    <3> DEFINE h == learned[previous(i)][RouteStops[i].sequence]
    <3>1. h = None \/ h \in Nat
      BY <1>1, <2>2
    <3> HIDE DEF h
    <3>2. getEstimatedSpeed(h, current) \in Nat \ {0}
      BY <3>1, EstimateType
    <3> QED
      BY <3>2 DEF h
  <2> HIDE DEF speed, segment
  <2>4. quotient(i) \in Int
    <3>1. segment(i) * 3600 \in Int
      BY <2>1
    <3> QED
      BY <2>3, <3>1
  <2> HIDE DEF quotient
  <2> QED
    BY <2>4, GreatestOfTwo
<1> HIDE DEF travel
<1>5. /\ \A i \in I : c[i] \in Int
      /\ \A i \in I : p[i] # 0 => p[i] \in I /\ p[i] < i
  BY <1>3, <1>4 DEF DwellSeconds
<1>6. ASSUME NEW g, NEW i \in I, last(i) # 0, g[last(i)] \in Int
      PROVE  Leaves(g[last(i)]) + travel(i) = g[last(i)] + (DwellSeconds + travel(i))
  <2>1. travel(i) \in Nat
    BY <1>4
  <2> QED
    BY <1>6, <2>1 DEF Leaves, DwellSeconds
<1>7. \E g : Runs(g)
  <2>1. PICK g : IsChain(g, I, p, c)
    <3> HIDE DEF p, c
    <3>1. HasChain(I, p, c)
      BY <1>1, <1>5, ChainExists
    <3> QED
      BY <3>1 DEF HasChain
  <2>2. g \in [I -> Int] /\ \A i \in I : g[i] = IF p[i] = 0 THEN c[i] ELSE g[p[i]] + c[i]
    BY <2>1 DEF IsChain
  <2>3. ASSUME NEW i \in I
        PROVE  g[i] = IF last(i) = 0 THEN travel(i) ELSE Leaves(g[last(i)]) + travel(i)
    <3>1. CASE last(i) = 0
      BY <2>2, <3>1
    <3>2. CASE last(i) # 0
      <4>1. g[last(i)] \in Int
        BY <1>3, <2>2, <3>2
      <4>2. g[i] = g[last(i)] + (DwellSeconds + travel(i))
        BY <2>2, <3>2
      <4> QED
        BY <1>6, <3>2, <4>1, <4>2
    <3> QED
      BY <3>1, <3>2
  <2>4. Runs(g)
    BY <2>2, <2>3
  <2> QED
    BY <2>4
<1>8. IsChain(f, I, p, c)
  <2>1. Runs(f)
    <3> HIDE DEF Runs
    <3> QED
      BY <1>7
  <2> HIDE DEF f
  <2>2. \A i \in I : f[i] = IF last(i) = 0 THEN travel(i) ELSE Leaves(f[last(i)]) + travel(i)
    BY <2>1
  <2>3. f = [i \in I |-> f[i]]
    BY <2>1
  <2>4. \A i \in I : p[i] = 0 => f[i] = c[i]
    BY <2>2
  <2>5. ASSUME NEW i \in I, p[i] # 0, f[p[i]] \in Int PROVE f[i] = f[p[i]] + c[i]
    BY <1>6, <2>2, <2>5
  <2> HIDE DEF p, c
  <2> QED
    BY <1>1, <1>5, <2>3, <2>4, <2>5, ChainTyped
<1> HIDE DEF f
<1>9. ASSUME NEW i \in I, last(i) # 0 PROVE f[last(i)] + DwellSeconds <= f[i] /\ f[last(i)] \in Int
  <2>1. /\ f \in [I -> Int] /\ f[i] = f[last(i)] + c[i] /\ c[i] = DwellSeconds + travel(i)
        /\ last(i) \in I
    BY <1>3, <1>8, <1>9 DEF IsChain
  <2> HIDE DEF c, p
  <2>2. f[last(i)] \in Int /\ travel(i) \in Nat
    BY <1>4, <2>1
  <2> QED
    BY <2>1, <2>2 DEF DwellSeconds
<1> DEFINE S == {n \in 0..k : \A j \in UpTo(I, n) : \A i \in I : i < j => f[i] + DwellSeconds <= f[j]}
<1>10. k \in S
  <2>1. 0 \in S
    <3>1. UpTo(I, 0) = {}
      BY <1>1, UpToStep
    <3>2. 0 \in 0..k
      BY <1>1
    <3> QED
      BY <3>1, <3>2
  <2>2. ASSUME NEW n \in 0..(k - 1), n \in S PROVE n + 1 \in S
    <3>1. /\ n + 1 \notin I => UpTo(I, n + 1) = UpTo(I, n)
          /\ n + 1 \in I => UpTo(I, n + 1) = UpTo(I, n) \cup {n + 1}
          /\ \A j \in I : (j < n + 1 <=> j \in UpTo(I, n))
      <4>1. k \in Nat /\ I \subseteq 1..k
        BY <1>1
      <4> HIDE DEF f, p, c, S, I, k
      <4> QED
        BY <4>1, UpToStep, ZenonT(30)
    <3>2. ASSUME n + 1 \in I, NEW i \in I, i < n + 1 PROVE f[i] + DwellSeconds <= f[n + 1]
      <4>1. last(n + 1) \in I /\ last(n + 1) < n + 1 /\ i <= last(n + 1) /\ last(n + 1) # 0
        BY <1>1, <1>3, <3>2
      <4>2. f[last(n + 1)] + DwellSeconds <= f[n + 1] /\ f[last(n + 1)] \in Int
        BY <1>9, <3>2, <4>1
      <4>3. CASE i = last(n + 1)
        BY <4>2, <4>3
      <4>4. CASE i < last(n + 1)
        <5>1. f[i] + DwellSeconds <= f[last(n + 1)]
          BY <2>2, <3>1, <4>1, <4>4
        <5>2. f[i] \in Int /\ f[n + 1] \in Int
          BY <1>8, <3>2 DEF IsChain
        <5> QED
          BY <4>2, <5>1, <5>2 DEF DwellSeconds
      <4>5. i \in Int /\ last(n + 1) \in Int
        <5>1. \A j \in I : j \in Int
          BY <1>1
        <5> QED
          BY <4>1, <5>1
      <4> QED
        BY <4>1, <4>3, <4>4, <4>5
    <3>3. \A j \in UpTo(I, n + 1) : \A i \in I : i < j => f[i] + DwellSeconds <= f[j]
      BY <2>2, <3>1, <3>2
    <3>4. n + 1 \in 0..k
      BY <1>1
    <3> QED
      BY <3>3, <3>4
  <2>3. 0..k \subseteq S
    <3> HIDE DEF S
    <3> QED
      BY <1>1, <2>1, <2>2, InductionUpTo
  <2> QED
    BY <1>1, <2>3
<1>11. \A i, j \in I : i < j => f[i] + DwellSeconds <= f[j]
  <2>1. UpTo(I, k) = I
    BY <1>1, UpToStep
  <2> QED
    BY <1>10, <2>1
<1>12. DOMAIN f = I
  BY <1>8 DEF IsChain
<1> QED
  BY <1>2, <1>11, <1>12 DEF InOrder

\* Every speed that was learned or is being learned lies within the bounds of a
\* sample, and the arrivals that were predicted last are in order.
PacesInv ==
    /\ \A r \in Records : sample[r] # None => IsPace(sample[r].speed)
    /\ \A r \in Records : reading[r] # None => IsPace(reading[r].avg)
    /\ \A k \in Segments : speeds[k] # None => IsPace(speeds[k].avg)
EtasInv == DOMAIN etas = Devices /\ \A d \in Devices : InOrder(etas[d])
ArrivalInv == PacesInv /\ EtasInv

\* They hold at the start.
LEMMA InitArrivals == Init => ArrivalInv
<1> SUFFICES ASSUME Init PROVE ArrivalInv
  OBVIOUS
<1> USE DEF Init, LearnerInit
<1>1. PacesInv
  BY DEF PacesInv
<1>2. InOrder(<<>>)
  BY DEF InOrder
<1>3. EtasInv
  BY <1>2 DEF EtasInv
<1> QED
  BY <1>1, <1>3 DEF ArrivalInv

\* A prediction from learned speeds is in order.
LEMMA PredictArrivals ==
    ASSUME StatsInv, ArrivalInv, NEW r \in Records, Predict(r)
    PROVE  ArrivalInv'
<1> DEFINE d == DeviceOf[r]
           s == matched[r].shape
           along == Projections[Report[r].at][s].along
           nearest == matched[r].nearest
           learned(slot) == [a \in StopNumbers |-> [b \in StopNumbers |->
               LET row == speeds[[shape |-> s, from |-> a, to |-> b, slot |-> slot]] IN
               IF row = None THEN None ELSE row.avg]]
           ahead(slot) == predictETAs(s, along, nearest, learned(slot), Report[r].speed)
<1>1. PICK slot \in TimeSlots :
          etas' = [etas EXCEPT ![d] = IF DOMAIN ahead(slot) = {} THEN @ ELSE ahead(slot)]
  BY DEF Predict
<1>2. d \in Devices /\ Report[r].at \in Places /\ Report[r].speed \in Nat
  BY StatsAssumption DEF StatsAssumption
<1>3. s \in ShapeIds /\ nearest \in StopNumbers
  <2>1. matched[r] \in Matched
    BY DEF Predict, StatsInv, JobsInv, JobInv, MatchStages, TracksTyped
  <2> QED
    BY <2>1 DEF Matched
<1>4. along \in Int
  BY <1>2, <1>3, ProjectionType
<1>5. \A a, b \in StopNumbers : learned(slot)[a][b] = None \/ learned(slot)[a][b] \in Nat
  <2> SUFFICES ASSUME NEW a \in StopNumbers, NEW b \in StopNumbers
               PROVE  learned(slot)[a][b] = None \/ learned(slot)[a][b] \in Nat
    OBVIOUS
  <2> DEFINE k == [shape |-> s, from |-> a, to |-> b, slot |-> slot]
  <2>1. k \in Segments
    BY <1>3 DEF Segments
  <2>2. learned(slot)[a][b] = IF speeds[k] = None THEN None ELSE speeds[k].avg
    OBVIOUS
  <2> HIDE DEF k, learned
  <2>3. speeds[k] # None => IsPace(speeds[k].avg)
    BY <2>1 DEF ArrivalInv, PacesInv
  <2>4. \A v : IsPace(v) => v \in Nat
    BY SMT DEF IsPace
  <2> QED
    BY <2>2, <2>3, <2>4
<1> HIDE DEF s, along, nearest, learned
<1>6. InOrder(ahead(slot))
  BY <1>2, <1>3, <1>4, <1>5, PredictionInOrder
<1> HIDE DEF d, ahead
<1>7. EtasInv'
  BY <1>1, <1>2, <1>6 DEF EtasInv, ArrivalInv
<1>8. PacesInv'
  BY DEF Predict, learnVars, PacesInv, ArrivalInv
<1> QED
  BY <1>7, <1>8 DEF ArrivalInv

\* A sample is the speed of a plausible time.
LEMMA LearnArrivals ==
    ASSUME StatsInv, ArrivalInv, NEW r \in Records, Learn(r)
    PROVE  ArrivalInv'
<1>1. UNCHANGED <<etas, reading, speeds>>
  BY DEF Learn
<1>2. TracksTyped
  BY DEF StatsInv
<1>3. \/ sample' = sample
      \/ \E k : \E t \in Int : Plausible(t) /\ sample' = [sample EXCEPT ![r] =
             [key |-> k, speed |-> estimateSpeedFromTime(t)]]
  <2> DEFINE d == DeviceOf[r]
             s == matched[r].shape
             since(m) == Report[r].ts - stopTimes[d][s][m]
  <2>1. ASSUME NEW m \in StopNumbers PROVE since(m) \in Int
    <3>1. Report[r].ts \in Nat /\ d \in Devices
      BY StatsAssumption DEF StatsAssumption
    <3>2. s \in ShapeIds
      BY <1>2 DEF Learn, StatsInv, JobsInv, JobInv, MatchStages, TracksTyped, Matched
    <3>3. stopTimes[d][s][m] \in Nat
      BY <1>2, <3>1, <3>2 DEF TracksTyped
    <3> QED
      BY <3>1, <3>3
  <2>2. \/ sample' = sample
        \/ \E m \in findPreviousRecordedSequence(stopTimes[d][s], matched[r].nearest) :
              /\ Plausible(since(m))
              /\ sample' = [sample EXCEPT ![r] =
                     [key   |-> [shape |-> s, from |-> m, to |-> matched[r].nearest,
                                 slot |-> SlotOf(Report[r].ts)],
                      speed |-> estimateSpeedFromTime(since(m))]]
    BY DEF Learn
  <2> HIDE DEF since
  <2>3. findPreviousRecordedSequence(stopTimes[d][s], matched[r].nearest) \subseteq StopNumbers
    BY DEF findPreviousRecordedSequence
  <2> QED
    BY <2>1, <2>2, <2>3
<1>4. ASSUME NEW q \in Records, sample'[q] # None PROVE IsPace(sample'[q].speed)
  <2>1. sample'[q] = sample[q] \/ \E t \in Int : Plausible(t) /\ sample'[q].speed = estimateSpeedFromTime(t)
    BY <1>2, <1>3 DEF TracksTyped
  <2> QED
    BY <1>4, <2>1, SampleInBounds DEF ArrivalInv, PacesInv
<1> QED
  BY <1>1, <1>4 DEF ArrivalInv, PacesInv, EtasInv

\* A row is read.
LEMMA SelectArrivals ==
    ASSUME StatsInv, ArrivalInv, NEW r \in Records, Select(r)
    PROVE  ArrivalInv'
<1> DEFINE k == sample[r].key
<1>1. /\ UNCHANGED <<etas, sample, speeds>> /\ reading' = [reading EXCEPT ![r] = speeds[k]]
      /\ k \in Segments /\ TracksTyped
  BY DEF Select, StatsInv, JobsInv, JobInv, TracksTyped, Samples
<1> HIDE DEF k
<1>2. ASSUME NEW q \in Records, reading'[q] # None PROVE IsPace(reading'[q].avg)
  <2>1. reading'[q] = IF q = r THEN speeds[k] ELSE reading[q]
    BY <1>1 DEF TracksTyped
  <2> QED
    BY <1>1, <1>2, <2>1 DEF ArrivalInv, PacesInv
<1> QED
  BY <1>1, <1>2 DEF ArrivalInv, PacesInv, EtasInv

\* The average, the first sample, or what another job has inserted.
LEMMA WriteArrivals ==
    ASSUME StatsInv, ArrivalInv, NEW r \in Records, Write(r)
    PROVE  ArrivalInv'
<1> DEFINE k == sample[r].key
           new == IF reading[r] # None THEN Average(reading[r], sample[r].speed)
                  ELSE IF speeds[k] = None THEN [avg |-> sample[r].speed, count |-> 1] ELSE speeds[k]
<1>1. /\ UNCHANGED <<etas, sample, reading>> /\ speeds' = [speeds EXCEPT ![k] = new]
      /\ k \in Segments /\ TracksTyped /\ sample[r] # None
  BY DEF Write, StatsInv, JobsInv, JobInv, TracksTyped, Samples
<1>2. IsPace(sample[r].speed)
  BY <1>1 DEF ArrivalInv, PacesInv
<1>3. new # None => IsPace(new.avg)
  <2>1. ASSUME reading[r] # None PROVE IsPace(Average(reading[r], sample[r].speed).avg)
    <3>1. reading[r] \in Averages /\ IsPace(reading[r].avg)
      BY <1>1, <2>1 DEF TracksTyped, ArrivalInv, PacesInv
    <3> QED
      BY <1>2, <3>1, AverageInBounds
  <2>2. [avg |-> sample[r].speed, count |-> 1].avg = sample[r].speed
    OBVIOUS
  <2>3. speeds[k] # None => IsPace(speeds[k].avg)
    BY <1>1 DEF ArrivalInv, PacesInv
  <2> QED
    BY <1>2, <2>1, <2>2, <2>3
<1> HIDE DEF k, new
<1>4. ASSUME NEW l \in Segments, speeds'[l] # None PROVE IsPace(speeds'[l].avg)
  <2>1. speeds'[l] = IF l = k THEN new ELSE speeds[l]
    BY <1>1 DEF TracksTyped
  <2> QED
    BY <1>3, <1>4, <2>1 DEF ArrivalInv, PacesInv
<1> QED
  BY <1>1, <1>4 DEF ArrivalInv, PacesInv, EtasInv

\* Steps that learn and predict nothing.
LEMMA ArrivalsStay ==
    ASSUME StatsInv, ArrivalInv, UNCHANGED <<etas, speeds>>,
           \A r \in Records : sample'[r] \in {sample[r], None} /\ reading'[r] \in {reading[r], None}
    PROVE  ArrivalInv'
<1>1. ASSUME NEW r \in Records
      PROVE  /\ sample'[r] # None => IsPace(sample'[r].speed)
             /\ reading'[r] # None => IsPace(reading'[r].avg)
  BY DEF ArrivalInv, PacesInv
<1> QED
  BY <1>1 DEF ArrivalInv, PacesInv, EtasInv

\* Every step keeps the speeds within bounds and the arrivals in order.
LEMMA NextArrivals == StatsInv /\ ArrivalInv /\ [Next]_vars => ArrivalInv'
<1> SUFFICES ASSUME StatsInv, ArrivalInv, [Next]_vars PROVE ArrivalInv'
  OBVIOUS
<1>1. ASSUME UNCHANGED <<etas, learnVars>> PROVE ArrivalInv'
  BY <1>1, ArrivalsStay DEF learnVars
<1>2. ASSUME NEW r \in Records, TrackStep(r) \/ TrackFails(r) PROVE ArrivalInv'
  <2>1. ASSUME NEW b \in BOOLEAN, Match(r, b) PROVE ArrivalInv'
    BY <1>1, <2>1 DEF Match
  <2>2. ASSUME NEW b \in BOOLEAN, UpdateDevice(r, b) PROVE ArrivalInv'
    <3>1. UNCHANGED <<etas, speeds>> /\ sample' = [sample EXCEPT ![r] = None]
          /\ reading' = [reading EXCEPT ![r] = None] /\ TracksTyped
      BY <2>2 DEF UpdateDevice, StatsInv
    <3> QED
      BY <3>1, ArrivalsStay DEF TracksTyped
  <2>3. CASE LearnFails(r)
    BY <2>3, ArrivalsStay DEF LearnFails
  <2>4. CASE PipelineFails(r)
    BY <1>1, <2>4 DEF PipelineFails
  <2> QED
    BY <1>2, <2>1, <2>2, <2>3, <2>4, PredictArrivals, LearnArrivals, SelectArrivals, WriteArrivals
       DEF TrackStep, TrackFails
<1>3. ASSUME UNCHANGED trackVars PROVE ArrivalInv'
  BY <1>1, <1>3 DEF trackVars
<1>4. CASE TwoMinutes
  BY <1>1, <1>4 DEF TwoMinutes
<1>5. CASE UNCHANGED vars
  BY <1>3, <1>5 DEF vars
<1>6. CASE Next
  <2>1. CASE Fails
    BY <2>1, <1>2, <1>3 DEF Fails
  <2> QED
    BY <1>6, <2>1, <1>2, <1>3, <1>4 DEF Next
<1> QED
  BY <1>5, <1>6

\* For any shapes, stops, positions and interleaving of jobs: a bus is predicted
\* to reach the stops ahead one after the other, each after the time it spends
\* at the one before, and no learned average leaves the bounds of a sample
\* (eta-predictor.ts:61-124, speed-learner.ts:31).
THEOREM ArrivalsAreInOrder == Spec => []ArrivalsInOrder
<1>1. ArrivalInv => ArrivalsInOrder
  <2> SUFFICES ASSUME ArrivalInv PROVE ArrivalsInOrder
    OBVIOUS
  <2>1. \A d \in Devices : \A i, j \in DOMAIN etas[d] :
            i < j => etas[d][i] + DwellSeconds <= etas[d][j]
    BY DEF ArrivalInv, EtasInv, InOrder
  <2>2. \A k \in Segments : speeds[k] # None => 1000 <= speeds[k].avg /\ speeds[k].avg <= 360000
    BY SMT DEF ArrivalInv, PacesInv, IsPace
  <2> QED
    BY <2>1, <2>2 DEF ArrivalsInOrder
<1> QED
  BY <1>1, InitArrivals, NextArrivals, StatsInductive, PTL DEF Spec

-----------------------------------------------------------------------------
(* Sums over finite sets                                                   *)

\* The recursion that sums up f, one picked element after the other.
Picked(s) == CHOOSE x \in s : TRUE
IsFold(g, f, S) == g = [s \in SUBSET S |->
    IF s = {} THEN 0 ELSE f[Picked(s)] + g[s \ {Picked(s)}]]
Fold(f, S) == CHOOSE g : IsFold(g, f, S)

\* SumFunctionOnSet is that recursion.
LEMMA SumIsFold == ASSUME NEW f, NEW S PROVE SumFunctionOnSet(f, S) = Fold(f, S)[S]
  BY DEF SumFunctionOnSet, FoldFunctionOnSet, MapThenFoldSet, Fold, IsFold, Picked

\* Induction on the subsets of a finite set, each from the smaller ones.
LEMMA SubsetInduction ==
    ASSUME NEW S, IsFiniteSet(S), NEW P,
           \A s \in SUBSET S : (\A t \in SUBSET s : t # s => t \in P) => s \in P
    PROVE  SUBSET S \subseteq P
<1> DEFINE k == Cardinality(S)
           N == {n \in 0..k : \A s \in SUBSET S : Cardinality(s) <= n => s \in P}
<1>1. k \in Nat
  BY FS_CardinalityType
<1>2. ASSUME NEW s \in SUBSET S
      PROVE  /\ Cardinality(s) \in Nat /\ Cardinality(s) <= k
             /\ \A t \in SUBSET s : t # s => Cardinality(t) < Cardinality(s) /\ Cardinality(t) \in Nat
  <2>1. IsFiniteSet(s) /\ Cardinality(s) <= k
    BY FS_Subset
  <2>2. ASSUME NEW t \in SUBSET s, t # s PROVE Cardinality(t) < Cardinality(s) /\ Cardinality(t) \in Nat
    BY <2>1, <2>2, FS_Subset, FS_CardinalityType
  <2> QED
    BY <2>1, <2>2, FS_CardinalityType
<1> HIDE DEF k
<1>3. 0 \in N
  <2>1. ASSUME NEW s \in SUBSET S, Cardinality(s) <= 0 PROVE s \in P
    <3>1. \A t \in SUBSET s : t = s
      BY <1>2, <2>1
    <3> QED
      BY <3>1
  <2>2. 0 \in 0..k
    BY <1>1
  <2> QED
    BY <2>1, <2>2
<1>4. ASSUME NEW n \in 0..(k - 1), n \in N PROVE n + 1 \in N
  <2>1. ASSUME NEW s \in SUBSET S, Cardinality(s) <= n + 1 PROVE s \in P
    <3>1. ASSUME NEW t \in SUBSET s, t # s PROVE t \in P
      <4>1. Cardinality(t) < Cardinality(s) /\ Cardinality(t) \in Nat /\ Cardinality(s) \in Nat
        BY <1>2, <3>1
      <4>2. Cardinality(t) <= n /\ t \in SUBSET S
        BY <2>1, <4>1
      <4> QED
        BY <1>4, <4>2
    <3> QED
      BY <3>1
  <2>2. n + 1 \in 0..k
    BY <1>1
  <2> QED
    BY <2>1, <2>2
<1>5. 0..k \subseteq N
  <2> HIDE DEF N
  <2> QED
    BY <1>1, <1>3, <1>4, InductionUpTo
<1>6. k \in N
  BY <1>1, <1>5
<1> QED
  BY <1>2, <1>6

\* What is picked from a set.
LEMMA PickedIn == ASSUME NEW s, s # {} PROVE Picked(s) \in s /\ s \ {Picked(s)} # s /\ s \ {Picked(s)} \in SUBSET s
  BY DEF Picked

\* One step of the recursion.
LEMMA FoldStep ==
    ASSUME NEW f, NEW S, NEW g, IsFold(g, f, S), NEW s \in SUBSET S
    PROVE  /\ s = {} => g[s] = 0
           /\ s # {} => g[s] = f[Picked(s)] + g[s \ {Picked(s)}]
  BY DEF IsFold

\* Two recursions agree where both are defined.
LEMMA FoldsAgree ==
    ASSUME NEW f, NEW S, NEW T \in SUBSET S, IsFiniteSet(T), NEW g, NEW h, IsFold(g, f, S), IsFold(h, f, T)
    PROVE  g[T] = h[T]
<1> DEFINE P == {s \in SUBSET T : g[s] = h[s]}
<1>1. ASSUME NEW s \in SUBSET T, \A t \in SUBSET s : t # s => t \in P PROVE s \in P
  <2>1. s \in SUBSET S
    OBVIOUS
  <2>2. CASE s = {}
    BY <2>1, <2>2, FoldStep
  <2>3. CASE s # {}
    <3> DEFINE u == s \ {Picked(s)}
    <3>1. u \in P
      BY <1>1, <2>3, PickedIn
    <3>2. g[s] = f[Picked(s)] + g[u] /\ h[s] = f[Picked(s)] + h[u]
      BY <2>1, <2>3, FoldStep
    <3> HIDE DEF u
    <3> QED
      BY <3>1, <3>2
  <2> QED
    BY <2>2, <2>3
<1>2. SUBSET T \subseteq P
  <2> HIDE DEF P
  <2> QED
    BY <1>1, SubsetInduction
<1> QED
  BY <1>2

\* The recursion is defined for every finite set.
LEMMA FoldExists ==
    ASSUME NEW f, NEW S, IsFiniteSet(S)
    PROVE  IsFold(Fold(f, S), f, S)
<1> DEFINE P == {s \in SUBSET S : IsFold(Fold(f, s), f, s)}
<1>1. ASSUME NEW s \in SUBSET S, \A t \in SUBSET s : t # s => t \in P PROVE s \in P
  <2> DEFINE V(t) == Fold(f, t)[t]
             g == [t \in SUBSET s |-> IF t = {} THEN 0 ELSE f[Picked(t)] + V(t \ {Picked(t)})]
  <2>1. ASSUME NEW t \in SUBSET s, t # s PROVE g[t] = V(t)
    <3>1. IsFold(Fold(f, t), f, t)
      BY <1>1, <2>1
    <3>2. CASE t = {}
      <4>1. Fold(f, t)[t] = 0
        BY <3>1, <3>2, FoldStep
      <4> QED
        BY <3>2, <4>1
    <3>3. CASE t # {}
      <4> DEFINE u == t \ {Picked(t)}
      <4>1. u \in SUBSET t /\ u \in SUBSET s /\ u # s /\ IsFiniteSet(u)
        <5>1. u \in SUBSET t /\ u # t
          BY <3>3, PickedIn
        <5>2. IsFiniteSet(u)
          BY FS_Subset
        <5> QED
          BY <5>1, <5>2
      <4>2. IsFold(Fold(f, u), f, u)
        BY <1>1, <4>1
      <4>3. Fold(f, t)[t] = f[Picked(t)] + Fold(f, t)[u]
        BY <3>1, <3>3, FoldStep
      <4>4. Fold(f, t)[u] = Fold(f, u)[u]
        <5> HIDE DEF u
        <5> QED
          BY <3>1, <4>1, <4>2, FoldsAgree
      <4>5. g[t] = f[Picked(t)] + V(u)
        BY <3>3
      <4> QED
        BY <4>3, <4>4, <4>5
    <3> QED
      BY <3>2, <3>3
  <2>2. ASSUME NEW t \in SUBSET s, t # {} PROVE g[t] = f[Picked(t)] + g[t \ {Picked(t)}]
    <3> DEFINE u == t \ {Picked(t)}
    <3>1. u \in SUBSET s /\ u # s
      BY <2>2, PickedIn
    <3>2. g[u] = V(u)
      <4> HIDE DEF u, g, V
      <4> QED
        BY <2>1, <3>1
    <3>3. g[t] = f[Picked(t)] + V(u)
      BY <2>2
    <3> QED
      BY <3>2, <3>3
  <2>3. g[{}] = 0
    OBVIOUS
  <2>4. g = [t \in SUBSET s |-> g[t]]
    OBVIOUS
  <2> HIDE DEF g
  <2>5. g = [t \in SUBSET s |-> IF t = {} THEN 0 ELSE f[Picked(t)] + g[t \ {Picked(t)}]]
    BY <2>2, <2>3, <2>4
  <2>6. IsFold(g, f, s)
    BY <2>5 DEF IsFold
  <2>7. IsFold(Fold(f, s), f, s)
    BY <2>6 DEF Fold
  <2> QED
    BY <2>7
<1>2. SUBSET S \subseteq P
  <2> HIDE DEF P
  <2> QED
    BY <1>1, SubsetInduction
<1> QED
  BY <1>2

\* A sum unfolds at the element that is picked.
LEMMA SumStep ==
    ASSUME NEW f, NEW S, IsFiniteSet(S)
    PROVE  /\ S = {} => SumFunctionOnSet(f, S) = 0
           /\ S # {} => SumFunctionOnSet(f, S) =
                            f[Picked(S)] + SumFunctionOnSet(f, S \ {Picked(S)})
<1> DEFINE u == S \ {Picked(S)}
<1>1. IsFold(Fold(f, S), f, S) /\ S \in SUBSET S
  BY FoldExists
<1>2. S = {} => SumFunctionOnSet(f, S) = 0
  <2>1. S = {} => Fold(f, S)[S] = 0
    BY <1>1, FoldStep
  <2> QED
    BY <2>1, SumIsFold
<1>3. CASE S # {}
  <2>1. u \in SUBSET S /\ IsFiniteSet(u)
    BY FS_Subset
  <2>2. Fold(f, S)[S] = f[Picked(S)] + Fold(f, S)[u]
    BY <1>1, <1>3, FoldStep
  <2> HIDE DEF u
  <2>3. Fold(f, S)[u] = Fold(f, u)[u]
    BY <1>1, <2>1, FoldExists, FoldsAgree
  <2>4. SumFunctionOnSet(f, S) = f[Picked(S)] + SumFunctionOnSet(f, u)
    BY <2>2, <2>3, SumIsFold
  <2> QED
    BY <1>3, <2>4 DEF u
<1> QED
  BY <1>2, <1>3

\* A sum of whole numbers is a whole number, one of natural numbers a natural number.
LEMMA SumType ==
    ASSUME NEW f, NEW S, IsFiniteSet(S), NEW N, N \in {Nat, Int}, \A x \in S : f[x] \in N
    PROVE  SumFunctionOnSet(f, S) \in N
<1> DEFINE P == {s \in SUBSET S : SumFunctionOnSet(f, s) \in N}
<1>1. ASSUME NEW s \in SUBSET S, \A t \in SUBSET s : t # s => t \in P PROVE s \in P
  <2>1. IsFiniteSet(s)
    BY FS_Subset
  <2>2. CASE s = {}
    <3>1. SumFunctionOnSet(f, s) = 0
      BY <2>1, <2>2, SumStep
    <3>2. 0 \in N
      OBVIOUS
    <3> QED
      BY <3>1, <3>2
  <2>3. CASE s # {}
    <3> DEFINE u == s \ {Picked(s)}
    <3>1. u \in P /\ Picked(s) \in S
      BY <1>1, <2>3, PickedIn
    <3>2. SumFunctionOnSet(f, s) = f[Picked(s)] + SumFunctionOnSet(f, u)
      BY <2>1, <2>3, SumStep
    <3> HIDE DEF u
    <3>3. f[Picked(s)] \in N /\ SumFunctionOnSet(f, u) \in N
      BY <3>1
    <3> QED
      BY <3>2, <3>3
  <2> QED
    BY <2>2, <2>3
<1>2. SUBSET S \subseteq P
  <2> HIDE DEF P
  <2> QED
    BY <1>1, SubsetInduction
<1> QED
  BY <1>2

\* Which element is taken out first makes no difference.
LEMMA SumRemove ==
    ASSUME NEW f, NEW S, IsFiniteSet(S), \A x \in S : f[x] \in Int, NEW m \in S
    PROVE  SumFunctionOnSet(f, S) = f[m] + SumFunctionOnSet(f, S \ {m})
<1> DEFINE P == {s \in SUBSET S : \A x \in s :
                     SumFunctionOnSet(f, s) = f[x] + SumFunctionOnSet(f, s \ {x})}
<1>1. ASSUME NEW s \in SUBSET S, \A t \in SUBSET s : t # s => t \in P PROVE s \in P
  <2> SUFFICES ASSUME NEW x \in s
               PROVE  SumFunctionOnSet(f, s) = f[x] + SumFunctionOnSet(f, s \ {x})
    OBVIOUS
  <2> DEFINE c == Picked(s)
             u == s \ {c}
             v == s \ {x}
             w == s \ {c, x}
  <2>1. IsFiniteSet(s) /\ c \in s
    BY FS_Subset, PickedIn
  <2>2. SumFunctionOnSet(f, s) = f[c] + SumFunctionOnSet(f, u)
    BY <2>1, SumStep
  <2> HIDE DEF c
  <2>3. CASE x = c
    BY <2>2, <2>3
  <2>4. CASE x # c
    <3>1. u \in P /\ v \in P
      BY <1>1, <2>1
    <3>2. x \in u /\ u \ {x} = w /\ c \in v /\ v \ {c} = w
      BY <2>1, <2>4
    <3> HIDE DEF u, v, w
    <3>3. SumFunctionOnSet(f, u) = f[x] + SumFunctionOnSet(f, w)
      BY <3>1, <3>2
    <3>4. SumFunctionOnSet(f, v) = f[c] + SumFunctionOnSet(f, w)
      BY <3>1, <3>2
    <3>5. f[x] \in Int /\ f[c] \in Int /\ SumFunctionOnSet(f, w) \in Int
      <4>1. w \in SUBSET S
        BY DEF w
      <4>2. IsFiniteSet(w) /\ \A y \in w : f[y] \in Int
        BY <4>1, FS_Subset
      <4>3. SumFunctionOnSet(f, w) \in Int
        BY <4>2, SumType
      <4> QED
        BY <2>1, <4>3
    <3>6. SumFunctionOnSet(f, s) = f[x] + SumFunctionOnSet(f, v)
      BY <2>2, <3>3, <3>4, <3>5
    <3> QED
      BY <3>6 DEF v
  <2> QED
    BY <2>3, <2>4
<1>2. SUBSET S \subseteq P
  <2> HIDE DEF P
  <2> QED
    BY <1>1, SubsetInduction
<1>3. S \in P
  BY <1>2
<1> QED
  BY <1>3

\* The sum depends on the values only.
LEMMA SumAgree ==
    ASSUME NEW f, NEW g, NEW S, IsFiniteSet(S), \A x \in S : f[x] = g[x]
    PROVE  SumFunctionOnSet(f, S) = SumFunctionOnSet(g, S)
<1> DEFINE P == {s \in SUBSET S : SumFunctionOnSet(f, s) = SumFunctionOnSet(g, s)}
<1>1. ASSUME NEW s \in SUBSET S, \A t \in SUBSET s : t # s => t \in P PROVE s \in P
  <2>1. IsFiniteSet(s)
    BY FS_Subset
  <2>2. CASE s = {}
    BY <2>1, <2>2, SumStep
  <2>3. CASE s # {}
    <3> DEFINE u == s \ {Picked(s)}
    <3>1. u \in P /\ Picked(s) \in S
      BY <1>1, <2>3, PickedIn
    <3>2. /\ SumFunctionOnSet(f, s) = f[Picked(s)] + SumFunctionOnSet(f, u)
          /\ SumFunctionOnSet(g, s) = g[Picked(s)] + SumFunctionOnSet(g, u)
      BY <2>1, <2>3, SumStep
    <3> HIDE DEF u
    <3> QED
      BY <3>1, <3>2
  <2> QED
    BY <2>2, <2>3
<1>2. SUBSET S \subseteq P
  <2> HIDE DEF P
  <2> QED
    BY <1>1, SubsetInduction
<1> QED
  BY <1>2

\* One more value is added.
LEMMA SumGrows ==
    ASSUME NEW f, NEW g, NEW S, NEW m, IsFiniteSet(S), m \notin S,
           DOMAIN f = S, DOMAIN g = S \cup {m},
           \A x \in S : g[x] = f[x] /\ f[x] \in Int, g[m] \in Int
    PROVE  SumFunction(g) = SumFunction(f) + g[m] /\ SumFunction(f) \in Int
<1>1. SumFunctionOnSet(g, S) = SumFunctionOnSet(f, S)
  BY SumAgree
<1>2. SumFunctionOnSet(f, S) \in Int
  BY SumType
<1> DEFINE T == S \cup {m}
<1>3. IsFiniteSet(T) /\ m \in T /\ T \ {m} = S /\ \A x \in T : g[x] \in Int
  BY FS_AddElement
<1> HIDE DEF T
<1>4. SumFunctionOnSet(g, T) = g[m] + SumFunctionOnSet(g, S)
  BY <1>3, SumRemove
<1> QED
  BY <1>1, <1>2, <1>4 DEF SumFunction, T

\* The sum of nothing.
LEMMA SumEmpty == ASSUME NEW f, DOMAIN f = {} PROVE SumFunction(f) = 0
  BY FS_EmptySet, SumStep DEF SumFunction

-----------------------------------------------------------------------------
(* The time of a day                                                       *)

Row == [rec : Records, attempt : Nat, distance : Nat \cup {None}]
Ts(x) == Report[x.rec].ts

\* The order of the rows of a device.
Before(y, x) == Ts(y) < Ts(x) \/ (y.rec = x.rec /\ y.attempt < x.attempt)

\* Rows of one device, one for each attempt.
OfOneDevice(S) ==
    /\ IsFiniteSet(S) /\ S \subseteq Row
    /\ \A x, y \in S : DeviceOf[x.rec] = DeviceOf[y.rec]
    /\ \A x, y \in S : x.rec = y.rec /\ x.attempt = y.attempt => x = y

IsLast(h, S) == h \in S /\ \A x \in S \ {h} : Before(x, h)

\* Every set of such rows is one as well.
LEMMA FewerRows == ASSUME NEW S, OfOneDevice(S), NEW T \in SUBSET S PROVE OfOneDevice(T)
  BY FS_Subset DEF OfOneDevice

\* The order is a strict total order in which the time does not decrease.
LEMMA RowOrder ==
    ASSUME NEW S, OfOneDevice(S), NEW x \in S, NEW y \in S
    PROVE  /\ Ts(x) \in Nat /\ ~Before(x, x)
           /\ x # y => Before(x, y) \/ Before(y, x)
           /\ Before(x, y) => Ts(x) <= Ts(y) /\ ~Before(y, x)
           /\ \A z \in S : Before(x, y) /\ Before(y, z) => Before(x, z)
<1>1. \A v \in S : v.rec \in Records /\ v.attempt \in Nat /\ Ts(v) \in Nat
  <2> SUFFICES ASSUME NEW v \in S PROVE v.rec \in Records /\ v.attempt \in Nat /\ Ts(v) \in Nat
    OBVIOUS
  <2>1. v.rec \in Records /\ v.attempt \in Nat
    BY DEF OfOneDevice, Row
  <2> QED
    BY <2>1, StatsAssumption DEF StatsAssumption, Ts
<1>2. \A v, w \in S : Ts(v) = Ts(w) <=> v.rec = w.rec
  <2> SUFFICES ASSUME NEW v \in S, NEW w \in S PROVE Ts(v) = Ts(w) <=> v.rec = w.rec
    OBVIOUS
  <2>1. DeviceOf[v.rec] = DeviceOf[w.rec]
    BY DEF OfOneDevice
  <2> QED
    BY <1>1, <2>1, RecordsAssumption DEF RecordsAssumption, Ts
<1>3. x # y => x.rec # y.rec \/ x.attempt # y.attempt
  BY DEF OfOneDevice
<1> QED
  BY <1>1, <1>2, <1>3 DEF Before

\* One row comes last.
LEMMA LastExists == ASSUME NEW S, OfOneDevice(S), S # {} PROVE \E h \in S : IsLast(h, S)
<1> DEFINE P == {s \in SUBSET S : s # {} => \E h \in s : IsLast(h, s)}
<1>1. ASSUME NEW s \in SUBSET S, \A t \in SUBSET s : t # s => t \in P PROVE s \in P
  <2> SUFFICES ASSUME s # {} PROVE \E h \in s : IsLast(h, s)
    OBVIOUS
  <2>1. PICK x \in s : TRUE
    OBVIOUS
  <2> DEFINE u == s \ {x}
  <2>2. CASE u = {}
    <3>1. IsLast(x, s)
      BY <2>2 DEF IsLast
    <3> QED
      BY <3>1
  <2>3. CASE u # {}
    <3>1. PICK h \in u : IsLast(h, u)
      BY <1>1, <2>3
    <3>2. OfOneDevice(s) /\ h \in s /\ h # x
      BY FewerRows
    <3>3. CASE Before(x, h)
      <4>1. IsLast(h, s)
        BY <3>1, <3>2, <3>3 DEF IsLast
      <4> QED
        BY <3>2, <4>1
    <3>4. CASE Before(h, x)
      <4>1. \A z \in s \ {x} : Before(z, x)
        BY <3>1, <3>2, <3>4, RowOrder DEF IsLast
      <4>2. IsLast(x, s)
        BY <4>1 DEF IsLast
      <4> QED
        BY <4>2
    <3> QED
      BY <3>2, <3>3, <3>4, RowOrder
  <2> QED
    BY <2>2, <2>3
<1>2. SUBSET S \subseteq P
  <2>1. IsFiniteSet(S)
    BY DEF OfOneDevice
  <2> HIDE DEF P
  <2> QED
    BY <1>1, <2>1, SubsetInduction
<1>3. S \in P
  BY <1>2
<1> QED
  BY <1>3

\* The rows before a row.
LEMMA EarlierRows ==
    ASSUME NEW S, NEW x \in S PROVE Earlier(x, S) = {y \in S : Before(y, x)}
  BY DEF Earlier, Before, Ts

\* The previous row is the last of the earlier ones.
LEMMA PreviousIs ==
    ASSUME NEW S, OfOneDevice(S), NEW x \in S, NEW h, IsLast(h, Earlier(x, S))
    PROVE  PreviousRow(x, S) = h
<1> DEFINE E == Earlier(x, S)
<1>1. E = {y \in S : Before(y, x)}
  BY EarlierRows
<1>2. h \in E /\ \A z \in E \ {h} : Before(z, h)
  BY DEF IsLast
<1> HIDE DEF E
<1>3. ASSUME NEW y \in E PROVE Earlier(y, S) = {z \in S : Before(z, y)}
  BY <1>1, EarlierRows
<1>4. E \ {h} = Earlier(h, S)
  <2>1. ASSUME NEW z \in S, Before(z, h) PROVE z \in E /\ z # h
    BY <1>1, <1>2, <2>1, RowOrder
  <2> QED
    BY <1>1, <1>2, <1>3, <2>1
<1>5. ASSUME NEW y \in E, E \ {y} = Earlier(y, S) PROVE y = h
  <2> SUFFICES ASSUME y # h PROVE FALSE
    OBVIOUS
  <2>1. Before(y, h)
    BY <1>2
  <2>2. h \in Earlier(y, S)
    BY <1>2, <1>5
  <2>3. Before(h, y)
    BY <1>3, <2>2
  <2> QED
    BY <1>1, <1>2, <2>1, <2>3, RowOrder
<1> QED
  BY <1>2, <1>4, <1>5 DEF PreviousRow, E

\* What a last row adds to the others: it follows them, and they keep their
\* previous rows.
LEMMA LastRowAdds ==
    ASSUME NEW S, OfOneDevice(S), NEW m, IsLast(m, S), NEW h, IsLast(h, S \ {m})
    PROVE  LET T == S \ {m} IN
           /\ Followers(S) = Followers(T) \cup {m} /\ m \notin Followers(T)
           /\ PreviousRow(m, S) = h
           /\ \A x \in Followers(T) : PreviousRow(x, S) = PreviousRow(x, T) /\ PreviousRow(x, T) \in T
<1> DEFINE T == S \ {m}
<1>1. /\ m \in S /\ h \in T /\ OfOneDevice(T)
      /\ \A x \in T : Before(x, m) /\ x # m
      /\ T \subseteq S
  BY FewerRows DEF IsLast
<1>2. \A x \in T : x \in S /\ ~Before(m, x)
  BY <1>1, RowOrder
<1>3. \A x \in T : Earlier(x, S) = Earlier(x, T)
  <2> SUFFICES ASSUME NEW x \in T PROVE Earlier(x, S) = Earlier(x, T)
    OBVIOUS
  <2>1. Earlier(x, S) = {y \in S : Before(y, x)} /\ Earlier(x, T) = {y \in T : Before(y, x)}
    BY <1>1, EarlierRows
  <2> QED
    BY <1>2, <2>1
<1>4. Earlier(m, S) = T
  <2>1. Earlier(m, S) = {y \in S : Before(y, m)}
    BY <1>1, EarlierRows
  <2>2. ~Before(m, m)
    BY <1>1, RowOrder
  <2> QED
    BY <1>1, <2>1, <2>2
<1>5. PreviousRow(m, S) = h
  BY <1>1, <1>4, PreviousIs
<1>6. Followers(S) = Followers(T) \cup {m} /\ m \notin Followers(T) /\ Followers(T) \subseteq T
  <2>1. Earlier(m, S) # {}
    BY <1>1, <1>4
  <2> HIDE DEF T
  <2>2. S = T \cup {m} /\ m \notin T
    BY <1>1 DEF T
  <2> QED
    BY <1>1, <1>3, <2>1, <2>2 DEF Followers
<1>7. ASSUME NEW x \in Followers(T)
      PROVE  PreviousRow(x, S) = PreviousRow(x, T) /\ PreviousRow(x, T) \in T
  <2>1. x \in T /\ Earlier(x, T) # {} /\ Earlier(x, T) \subseteq T
    BY DEF Followers, Earlier
  <2>2. OfOneDevice(Earlier(x, T))
    BY <1>1, <2>1, FewerRows
  <2>3. PICK g \in Earlier(x, T) : IsLast(g, Earlier(x, T))
    BY <2>1, <2>2, LastExists
  <2>4. PreviousRow(x, T) = g
    BY <1>1, <2>1, <2>3, PreviousIs
  <2>5. PreviousRow(x, S) = g
    BY <1>1, <1>3, <2>1, <2>3, PreviousIs
  <2> QED
    BY <2>1, <2>4, <2>5
<1> QED
  BY <1>5, <1>6, <1>7

\* The rows whose gaps count as driving and as standing.
DrivingRows(S) == {x \in Followers(S) : Moving(x)}
IdleRows(S) == {x \in Followers(S) : ~Moving(x) /\ Report[x.rec].ignition}
TimeOf(D, S) == SumFunction([x \in D |-> Gap(x, S)])

\* A gap is no longer than the time between the two rows.
LEMMA GapType ==
    ASSUME NEW S, NEW x, Ts(x) \in Nat, Ts(PreviousRow(x, S)) \in Nat
    PROVE  Gap(x, S) \in Int /\ Gap(x, S) <= Ts(x) - Ts(PreviousRow(x, S))
<1> DEFINE dt == Ts(x) - Ts(PreviousRow(x, S))
<1>1. dt \in Int
  OBVIOUS
<1>2. Gap(x, S) = LeastOf({600, dt})
  BY DEF Gap, Ts
<1> HIDE DEF dt
<1>3. LeastOf({600, dt}) \in Int /\ LeastOf({600, dt}) <= dt
  BY <1>1, LeastOfTwo
<1> QED
  BY <1>2, <1>3 DEF dt

\* Rows without a row before them.
LEMMA SingleRow ==
    ASSUME NEW S, OfOneDevice(S), NEW m, S = {m}
    PROVE  Followers(S) = {}
<1>1. Earlier(m, S) = {}
  BY EarlierRows, RowOrder
<1> QED
  BY <1>1 DEF Followers

\* What a set of followers adds up to, with and without the last row.
LEMMA TimeGrows ==
    ASSUME NEW S, NEW T, NEW m, NEW D, NEW E, IsFiniteSet(D), D \subseteq Followers(T),
           m \notin Followers(T), E \in {D, D \cup {m}},
           \A x \in Followers(T) : Gap(x, S) = Gap(x, T) /\ Gap(x, T) \in Int,
           Gap(m, S) \in Int
    PROVE  /\ TimeOf(D, T) \in Int
           /\ TimeOf(E, S) = IF E = D THEN TimeOf(D, T) ELSE TimeOf(D, T) + Gap(m, S)
<1> DEFINE f == [x \in D |-> Gap(x, T)]
           g == [x \in E |-> Gap(x, S)]
<1>1. \A x \in D : f[x] \in Int
  OBVIOUS
<1>2. TimeOf(D, T) = SumFunctionOnSet(f, D)
  BY DEF TimeOf, SumFunction
<1>3. TimeOf(D, T) \in Int
  <2> HIDE DEF f
  <2> QED
    BY <1>1, <1>2, SumType
<1>4. CASE E = D
  <2>1. g = f
    BY <1>4
  <2> QED
    BY <1>3, <1>4, <2>1 DEF TimeOf
<1>5. CASE E = D \cup {m} /\ E # D
  <2>1. /\ DOMAIN f = D /\ DOMAIN g = D \cup {m} /\ m \notin D
        /\ \A x \in D : g[x] = f[x] /\ f[x] \in Int
        /\ g[m] = Gap(m, S)
    BY <1>5
  <2> HIDE DEF f, g
  <2>2. SumFunction(g) = SumFunction(f) + g[m]
    BY <2>1, SumGrows
  <2> QED
    BY <1>3, <1>5, <2>1, <2>2 DEF TimeOf, f, g
<1> QED
  BY <1>3, <1>4, <1>5

\* The time a bus drives and stands is no more than that between its first and
\* its last row.
InTime(S) ==
    /\ TimeOf(DrivingRows(S), S) \in Int /\ TimeOf(IdleRows(S), S) \in Int
    /\ \E low, h \in S : /\ IsLast(h, S) /\ \A x \in S : Ts(low) <= Ts(x)
                         /\ TimeOf(DrivingRows(S), S) + TimeOf(IdleRows(S), S) <= Ts(h) - Ts(low)

\* One row alone counts no time.
LEMMA SingleInTime == ASSUME NEW S, OfOneDevice(S), NEW m, S = {m} PROVE InTime(S)
<1>1. DrivingRows(S) = {} /\ IdleRows(S) = {}
  BY SingleRow DEF DrivingRows, IdleRows
<1>2. TimeOf({}, S) = 0
  <2> DEFINE f == [x \in {} |-> Gap(x, S)]
  <2>1. SumFunction(f) = 0
    BY SumEmpty
  <2> QED
    BY <2>1 DEF TimeOf
<1>3. IsLast(m, S) /\ Ts(m) \in Nat
  BY RowOrder DEF IsLast
<1>4. TimeOf(DrivingRows(S), S) = 0 /\ TimeOf(IdleRows(S), S) = 0
  BY <1>1, <1>2
<1>5. m \in S /\ \A x \in S : Ts(m) <= Ts(x)
  BY <1>3
<1>6. TimeOf(DrivingRows(S), S) + TimeOf(IdleRows(S), S) <= Ts(m) - Ts(m)
  BY <1>3, <1>4
<1> QED
  BY <1>3, <1>4, <1>5, <1>6 DEF InTime

\* A last row adds at most the time since the row before it.
LEMMA LastInTime ==
    ASSUME NEW S, OfOneDevice(S), NEW m, IsLast(m, S), InTime(S \ {m})
    PROVE  InTime(S)
<1> DEFINE T == S \ {m}
           D == DrivingRows(T)
           I == IdleRows(T)
<1>1. PICK low \in T, h \in T :
          /\ IsLast(h, T) /\ \A x \in T : Ts(low) <= Ts(x)
          /\ TimeOf(D, T) + TimeOf(I, T) <= Ts(h) - Ts(low)
  BY DEF InTime
<1>2. m \in S /\ OfOneDevice(T) /\ T \subseteq S /\ S = T \cup {m}
  BY FewerRows DEF IsLast
<1>3. /\ Followers(S) = Followers(T) \cup {m} /\ m \notin Followers(T)
      /\ PreviousRow(m, S) = h
      /\ \A x \in Followers(T) : PreviousRow(x, S) = PreviousRow(x, T) /\ PreviousRow(x, T) \in T
  BY <1>1, LastRowAdds
<1>4. Followers(T) \subseteq T
  BY DEF Followers
<1> HIDE DEF T
<1>5. \A x \in S : Ts(x) \in Nat
  BY RowOrder
<1>6. Gap(m, S) \in Int /\ Gap(m, S) <= Ts(m) - Ts(h)
  <2>1. Ts(m) \in Nat /\ Ts(PreviousRow(m, S)) \in Nat
    BY <1>1, <1>2, <1>3, <1>5
  <2>2. Gap(m, S) \in Int /\ Gap(m, S) <= Ts(m) - Ts(PreviousRow(m, S))
    BY <2>1, GapType
  <2> QED
    BY <1>3, <2>2
<1>7. ASSUME NEW x \in Followers(T) PROVE Gap(x, S) = Gap(x, T) /\ Gap(x, T) \in Int
  <2>1. Ts(x) \in Nat /\ Ts(PreviousRow(x, T)) \in Nat
    BY <1>2, <1>3, <1>4, <1>5
  <2> QED
    BY <1>3, <2>1, GapType DEF Gap
<1>8. /\ D \subseteq Followers(T) /\ DrivingRows(S) \in {D, D \cup {m}}
      /\ I \subseteq Followers(T) /\ IdleRows(S) \in {I, I \cup {m}}
      /\ DrivingRows(S) # D => IdleRows(S) = I
  <2>1. \A x \in Followers(S) : x \in DrivingRows(S) <=> Moving(x)
    BY DEF DrivingRows
  <2>2. DrivingRows(S) = IF Moving(m) THEN D \cup {m} ELSE D
    BY <1>3 DEF DrivingRows
  <2>3. IdleRows(S) = IF ~Moving(m) /\ Report[m.rec].ignition THEN I \cup {m} ELSE I
    BY <1>3 DEF IdleRows
  <2> QED
    BY <2>2, <2>3 DEF DrivingRows, IdleRows
<1>9. IsFiniteSet(D) /\ IsFiniteSet(I)
  <2>1. IsFiniteSet(T)
    BY <1>2 DEF OfOneDevice
  <2> QED
    BY <1>4, <1>8, <2>1, FS_Subset
<1> HIDE DEF D, I
<1>10. /\ TimeOf(D, T) \in Int
       /\ TimeOf(DrivingRows(S), S) = IF DrivingRows(S) = D THEN TimeOf(D, T) ELSE TimeOf(D, T) + Gap(m, S)
  <2> DEFINE E == DrivingRows(S)
  <2>1. /\ IsFiniteSet(D) /\ D \subseteq Followers(T) /\ m \notin Followers(T)
        /\ E \in {D, D \cup {m}} /\ Gap(m, S) \in Int
    BY <1>3, <1>6, <1>8, <1>9
  <2> HIDE DEF E
  <2>2. /\ TimeOf(D, T) \in Int
        /\ TimeOf(E, S) = IF E = D THEN TimeOf(D, T) ELSE TimeOf(D, T) + Gap(m, S)
    BY <1>7, <2>1, TimeGrows, SMTT(30)
  <2> QED
    BY <2>2 DEF E
<1>11. /\ TimeOf(I, T) \in Int
       /\ TimeOf(IdleRows(S), S) = IF IdleRows(S) = I THEN TimeOf(I, T) ELSE TimeOf(I, T) + Gap(m, S)
  <2> DEFINE E == IdleRows(S)
  <2>1. /\ IsFiniteSet(I) /\ I \subseteq Followers(T) /\ m \notin Followers(T)
        /\ E \in {I, I \cup {m}} /\ Gap(m, S) \in Int
    BY <1>3, <1>6, <1>8, <1>9
  <2> HIDE DEF E
  <2>2. /\ TimeOf(I, T) \in Int
        /\ TimeOf(E, S) = IF E = I THEN TimeOf(I, T) ELSE TimeOf(I, T) + Gap(m, S)
    BY <1>7, <2>1, TimeGrows, SMTT(30)
  <2> QED
    BY <2>2 DEF E
<1>12. Ts(m) \in Nat /\ Ts(h) \in Nat /\ Ts(low) \in Nat /\ Ts(h) <= Ts(m) /\ low \in S
  <2>1. Before(h, m) /\ h \in S
    BY <1>1, <1>2 DEF IsLast, T
  <2> QED
    BY <1>1, <1>2, <1>5, <2>1, RowOrder
<1>13. /\ TimeOf(DrivingRows(S), S) \in Int /\ TimeOf(IdleRows(S), S) \in Int
       /\ TimeOf(DrivingRows(S), S) + TimeOf(IdleRows(S), S) <= Ts(m) - Ts(low)
  <2> DEFINE a == TimeOf(D, T)
             b == TimeOf(I, T)
             g == Gap(m, S)
             aa == TimeOf(DrivingRows(S), S)
             bb == TimeOf(IdleRows(S), S)
  <2>1. a \in Int /\ b \in Int /\ g \in Int /\ g <= Ts(m) - Ts(h) /\ a + b <= Ts(h) - Ts(low)
    BY <1>1, <1>6, <1>10, <1>11
  <2>2. aa \in {a, a + g} /\ bb \in {b, b + g} /\ (aa = a \/ bb = b)
    BY <1>8, <1>10, <1>11
  <2> HIDE DEF a, b, g, aa, bb
  <2>3. aa \in Int /\ bb \in Int /\ aa + bb <= Ts(m) - Ts(low)
    BY <1>12, <2>1, <2>2
  <2> QED
    BY <2>3 DEF aa, bb
<1>14. \A x \in S : Ts(low) <= Ts(x)
  <2>1. Ts(low) <= Ts(h)
    BY <1>1
  <2> QED
    BY <1>1, <1>2, <1>12, <2>1
<1> QED
  BY <1>2, <1>12, <1>13, <1>14 DEF InTime

\* So it is for every set of rows of a device.
LEMMA RowsInTime == ASSUME NEW S, OfOneDevice(S), S # {} PROVE InTime(S)
<1> DEFINE P == {s \in SUBSET S : s # {} => InTime(s)}
<1>1. ASSUME NEW s \in SUBSET S, \A t \in SUBSET s : t # s => t \in P PROVE s \in P
  <2> SUFFICES ASSUME s # {} PROVE InTime(s)
    OBVIOUS
  <2>1. OfOneDevice(s)
    BY FewerRows
  <2>2. PICK m \in s : IsLast(m, s)
    BY <2>1, LastExists
  <2>3. CASE s \ {m} = {}
    <3>1. s = {m}
      BY <2>3
    <3> QED
      BY <2>1, <3>1, SingleInTime
  <2>4. CASE s \ {m} # {}
    <3>1. InTime(s \ {m})
      BY <1>1, <2>4
    <3> QED
      BY <2>1, <2>2, <3>1, LastInTime
  <2> QED
    BY <2>3, <2>4
<1>2. SUBSET S \subseteq P
  <2>1. IsFiniteSet(S)
    BY DEF OfOneDevice
  <2> HIDE DEF P
  <2> QED
    BY <1>1, <2>1, SubsetInduction
<1>3. S \in P
  BY <1>2
<1> QED
  BY <1>3

\* The day that is computed from rows of one device counts no more driving and
\* standing than the day was long.
LEMMA DayIsLongEnough ==
    ASSUME NEW S, OfOneDevice(S), S # {}
    PROVE  DayStats(S).drivingTime + DayStats(S).idleTime <= GreatestOf(TimesOf(S)) - LeastOf(TimesOf(S))
<1>1. PICK low \in S, h \in S :
          /\ IsLast(h, S) /\ \A x \in S : Ts(low) <= Ts(x)
          /\ TimeOf(DrivingRows(S), S) + TimeOf(IdleRows(S), S) <= Ts(h) - Ts(low)
  BY RowsInTime DEF InTime
<1>2. TimesOf(S) = {Ts(x) : x \in S}
  BY DEF TimesOf, Ts
<1>3. \A x \in S : Ts(x) \in Nat /\ Ts(x) <= Ts(h)
  <2> SUFFICES ASSUME NEW x \in S PROVE Ts(x) \in Nat /\ Ts(x) <= Ts(h)
    OBVIOUS
  <2>1. x = h \/ Before(x, h)
    BY <1>1 DEF IsLast
  <2>2. Ts(x) \in Nat /\ (Before(x, h) => Ts(x) <= Ts(h))
    BY RowOrder
  <2> QED
    BY <2>1, <2>2
<1>4. GreatestOf(TimesOf(S)) = Ts(h)
  <2>1. Ts(h) \in TimesOf(S) /\ \A t \in TimesOf(S) : Ts(h) >= t
    BY <1>2, <1>3
  <2>2. GreatestOf(TimesOf(S)) \in TimesOf(S) /\ \A t \in TimesOf(S) : GreatestOf(TimesOf(S)) >= t
    BY <2>1 DEF GreatestOf
  <2>3. \A t \in TimesOf(S) : t \in Nat
    BY <1>2, <1>3
  <2> QED
    BY <2>1, <2>2, <2>3
<1>5. LeastOf(TimesOf(S)) = Ts(low)
  <2>1. Ts(low) \in TimesOf(S) /\ \A t \in TimesOf(S) : Ts(low) <= t
    BY <1>1, <1>2
  <2>2. LeastOf(TimesOf(S)) \in TimesOf(S) /\ \A t \in TimesOf(S) : LeastOf(TimesOf(S)) <= t
    BY <2>1 DEF LeastOf
  <2>3. \A t \in TimesOf(S) : t \in Nat
    BY <1>2, <1>3
  <2> QED
    BY <2>1, <2>2, <2>3
<1>6. /\ DayStats(S).drivingTime = TimeOf(DrivingRows(S), S)
      /\ DayStats(S).idleTime = TimeOf(IdleRows(S), S)
  BY DEF DayStats, TimeOf, DrivingRows, IdleRows
<1> QED
  BY <1>1, <1>4, <1>5, <1>6

-----------------------------------------------------------------------------
(* The distance of a day                                                   *)

\* The way between the places of two rows.
Way(x, y) == Distances[Report[x.rec].at][Report[y.rec].at]

\* Ways are natural numbers, the same there and back, and never longer than by a third place.
LEMMA WayType ==
    ASSUME NEW x \in Row, NEW y \in Row
    PROVE  /\ Way(x, y) \in Nat /\ Way(x, x) = 0 /\ Way(x, y) = Way(y, x)
           /\ \A z \in Row : Way(x, z) <= Way(x, y) + Way(y, z)
<1> DEFINE at(v) == Report[v.rec].at
<1>1. \A v \in Row : at(v) \in Places /\ at(v) \in Int \X Int
  <2> SUFFICES ASSUME NEW v \in Row PROVE at(v) \in Places /\ at(v) \in Int \X Int
    OBVIOUS
  <2>1. v.rec \in Records
    BY DEF Row
  <2> QED
    BY <2>1, StatsAssumption, MatcherAssumption DEF StatsAssumption, MatcherAssumption
<1>2. \A v, w \in Row : Way(v, w) = Distances[at(v)][at(w)]
  BY DEF Way
<1> HIDE DEF at
<1>3. \A v, w \in Row : Way(v, w) = haversine(at(v), at(w))
  BY <1>1, <1>2 DEF Distances
<1>4. Way(x, y) \in Nat
  BY <1>1, <1>3, HaversineType
<1>5. Way(x, x) = 0
  <2> DEFINE p == at(x)
  <2>1. p \in Int \X Int
    BY <1>1
  <2>2. haversine(p, p) = Root(0)
    <3>1. (p[1] - p[1]) * (p[1] - p[1]) + (p[2] - p[2]) * (p[2] - p[2]) = 0
      BY <2>1
    <3> HIDE DEF p
    <3> QED
      BY <3>1 DEF haversine
  <2>3. Root(0) = 0
    <3>1. Root(0) \in Nat /\ Root(0) * Root(0) <= 0
      BY RootType
    <3> DEFINE k == Root(0)
    <3> HIDE DEF k
    <3>2. k \in Nat /\ k * k <= 0 => k = 0
      <4>1. k \in Nat /\ k # 0 => k * k >= 1
        OBVIOUS
      <4> QED
        BY <4>1
    <3> QED
      BY <3>1, <3>2 DEF k
  <2> QED
    BY <1>3, <2>2, <2>3
<1>6. Way(x, y) = Way(y, x)
  <2> DEFINE p == at(x)
             q == at(y)
             dx == p[1] - q[1]
             dy == p[2] - q[2]
             ex == q[1] - p[1]
             ey == q[2] - p[2]
  <2>1. p \in Int \X Int /\ q \in Int \X Int
    BY <1>1
  <2>2. dx \in Int /\ dy \in Int /\ ex = -dx /\ ey = -dy
    BY <2>1
  <2>3. haversine(p, q) = Root(dx * dx + dy * dy) /\ haversine(q, p) = Root(ex * ex + ey * ey)
    BY DEF haversine
  <2> HIDE DEF dx, dy, ex, ey, p, q
  <2>4. dx * dx = ex * ex /\ dy * dy = ey * ey
    BY <2>2
  <2> QED
    BY <1>3, <2>3, <2>4 DEF p, q
<1>7. ASSUME NEW z \in Row PROVE Way(x, z) <= Way(x, y) + Way(y, z)
  BY <1>1, <1>2, RecordsAssumption DEF RecordsAssumption
<1> QED
  BY <1>4, <1>5, <1>6, <1>7

\* When at most one row lacks a distance, the distances add up to the way
\* between any two of them at least.
Linked(S) ==
    (\A x, y \in S : x.distance = None /\ y.distance = None => x = y) =>
        \A x, y \in S : Way(x, y) <= TotalDistance(S)

\* The rows that add to the distance.
WithDistance(S) == {x \in S : x.distance # None}

\* A row adds its distance.
LEMMA DistanceGrows ==
    ASSUME NEW S, IsFiniteSet(S), S \subseteq Row, NEW z \in Row, z \notin S
    PROVE  /\ TotalDistance(S) \in Nat
           /\ TotalDistance(S \cup {z}) =
                  IF z.distance = None THEN TotalDistance(S) ELSE TotalDistance(S) + z.distance
<1> DEFINE f == [x \in WithDistance(S) |-> x.distance]
           T == S \cup {z}
           g == [x \in WithDistance(T) |-> x.distance]
<1>1. IsFiniteSet(WithDistance(S)) /\ WithDistance(S) \subseteq S
  BY FS_Subset DEF WithDistance
<1>2. \A x \in WithDistance(S) : f[x] \in Nat
  BY DEF WithDistance, Row
<1>3. TotalDistance(S) = SumFunction(f) /\ TotalDistance(T) = SumFunction(g)
  BY DEF TotalDistance, WithDistance
<1>4. TotalDistance(S) \in Nat
  <2>1. DOMAIN f = WithDistance(S)
    OBVIOUS
  <2> HIDE DEF f
  <2> QED
    BY <1>1, <1>2, <1>3, <2>1, SumType DEF SumFunction
<1>5. CASE z.distance = None
  <2>1. WithDistance(T) = WithDistance(S)
    BY <1>5 DEF WithDistance
  <2>2. g = f
    BY <2>1
  <2> QED
    BY <1>3, <1>4, <1>5, <2>2
<1>6. CASE z.distance # None
  <2>1. WithDistance(T) = WithDistance(S) \cup {z} /\ z \notin WithDistance(S)
    BY <1>6 DEF WithDistance
  <2>2. /\ DOMAIN f = WithDistance(S) /\ DOMAIN g = WithDistance(S) \cup {z}
        /\ \A x \in WithDistance(S) : g[x] = f[x]
        /\ g[z] = z.distance
    BY <2>1
  <2>4. z.distance \in Int /\ \A x \in WithDistance(S) : f[x] \in Int
    BY <1>2, <1>6 DEF Row
  <2> HIDE DEF f, g
  <2>3. SumFunction(g) = SumFunction(f) + g[z]
    BY <1>1, <2>1, <2>2, <2>4, SumGrows
  <2> QED
    BY <1>3, <1>4, <1>6, <2>2, <2>3
<1> QED
  BY <1>4, <1>5, <1>6

\* A row is linked to one of the others by its distance.
LEMMA LinkedGrows ==
    ASSUME NEW S, IsFiniteSet(S), S \subseteq Row, Linked(S), NEW z \in Row, z \notin S,
           S # {} => \E x \in S : x.distance = None,
           z.distance # None => \E x \in S : z.distance = Way(x, z)
    PROVE  Linked(S \cup {z})
<1> DEFINE T == S \cup {z}
<1> SUFFICES ASSUME \A x, y \in T : x.distance = None /\ y.distance = None => x = y
             PROVE  \A x, y \in T : Way(x, y) <= TotalDistance(T)
  BY DEF Linked
<1>1. /\ TotalDistance(S) \in Nat
      /\ TotalDistance(T) = IF z.distance = None THEN TotalDistance(S) ELSE TotalDistance(S) + z.distance
  BY DistanceGrows
<1>2. \A x, y \in S : Way(x, y) <= TotalDistance(S)
  BY DEF Linked
<1>3. Way(z, z) = 0
  BY WayType
<1>4. CASE z.distance = None
  <2>1. S = {}
    BY <1>4
  <2> QED
    BY <1>1, <1>3, <1>4, <2>1
<1>5. CASE z.distance # None
  <2>1. PICK w \in S : z.distance = Way(w, z)
    BY <1>5
  <2>2. Way(w, z) \in Nat /\ TotalDistance(T) = TotalDistance(S) + Way(w, z)
    BY <1>1, <1>5, <2>1, WayType
  <2>3. ASSUME NEW x \in S PROVE Way(x, z) <= TotalDistance(T) /\ Way(z, x) <= TotalDistance(T)
    <3>1. Way(x, z) <= Way(x, w) + Way(w, z) /\ Way(x, w) \in Nat /\ Way(x, z) \in Nat /\ Way(z, x) = Way(x, z)
      BY WayType
    <3>2. Way(x, w) <= TotalDistance(S)
      BY <1>2
    <3> QED
      BY <1>1, <2>2, <3>1, <3>2
  <2>4. ASSUME NEW x \in S, NEW y \in S PROVE Way(x, y) <= TotalDistance(T)
    <3>1. Way(x, y) \in Nat /\ Way(x, y) <= TotalDistance(S)
      BY <1>2, WayType
    <3> QED
      BY <1>1, <2>2, <3>1
  <2>5. Way(z, z) <= TotalDistance(T)
    BY <1>1, <1>3, <2>2
  <2> QED
    BY <2>3, <2>4, <2>5
<1> QED
  BY <1>4, <1>5

-----------------------------------------------------------------------------
(* The rows of a day                                                       *)

\* Every attempt of a job stores one row at most; a job that knows a distance
\* knows the way from a row that is stored.
StoredInv ==
    /\ IsFiniteSet(rows) /\ rows \subseteq Row
    /\ failures \in [Records -> Nat]
    /\ distance \in [Records -> Nat \cup {None}]
    /\ \A x \in rows : /\ x.attempt <= failures[x.rec]
                       /\ pc[x.rec] \in {"waiting", "find", "store"} => x.attempt < failures[x.rec]
    /\ \A x, y \in rows : x.rec = y.rec /\ x.attempt = y.attempt => x = y
    /\ \A r \in Records : distance[r] # None =>
           \E x \in RowsOf(DeviceOf[r]) : distance[r] = Distances[Report[x.rec].at][Report[r].at]

\* The first row of a device lacks a distance, and the others are linked to it.
LinkInv ==
    \A d \in Devices : /\ RowsOf(d) # {} => \E x \in RowsOf(d) : x.distance = None
                       /\ Linked(RowsOf(d))

OnOneDay(S) == \A x, y \in S : DayOf(x.rec) = DayOf(y.rec)

\* A row of a day was computed from rows that are still there; from all of
\* them at the time, as long as they are of one day.
DayInv(d, date) ==
    dayRows[d][date] # None =>
        /\ counted[d][date] \subseteq RowsOf(d) /\ counted[d][date] # {}
        /\ dayRows[d][date] = DayStats(counted[d][date])
        /\ OnOneDay(RowsOf(d)) => Linked(counted[d][date])
DaysInv ==
    /\ dayRows = [d \in Devices |-> [date \in Dates |-> dayRows[d][date]]]
    /\ counted = [d \in Devices |-> [date \in Dates |-> counted[d][date]]]
    /\ \A d \in Devices, date \in Dates : DayInv(d, date)

RowsInv == StoredInv /\ LinkInv /\ DaysInv

\* The invariant of the rows holds at the start.
LEMMA InitRows == Init => RowsInv
<1> SUFFICES ASSUME Init PROVE RowsInv
  OBVIOUS
<1> USE DEF Init, StatsInit
<1>1. StoredInv
  BY FS_EmptySet DEF StoredInv, RowsOf
<1>2. LinkInv
  BY DEF LinkInv, RowsOf, Linked
<1>3. DaysInv
  BY DEF DaysInv, DayInv
<1> QED
  BY <1>1, <1>2, <1>3 DEF RowsInv

\* Where no row is stored, links and days stay.
LEMMA LinksStay == ASSUME RowsInv, UNCHANGED rows PROVE LinkInv'
  BY DEF RowsInv, LinkInv, RowsOf, Linked, TotalDistance, Way

\* Where nothing is computed, days stay, however many rows come in.
LEMMA DaysStay ==
    ASSUME RowsInv, UNCHANGED <<dayRows, counted>>, rows \subseteq rows' PROVE DaysInv'
<1>1. ASSUME NEW d \in Devices, NEW date \in Dates PROVE DayInv(d, date)'
  <2>1. DayInv(d, date)
    BY DEF RowsInv, DaysInv
  <2>2. RowsOf(d) \subseteq RowsOf(d)'
    BY DEF RowsOf
  <2>3. OnOneDay(RowsOf(d))' => OnOneDay(RowsOf(d))
    BY <2>2 DEF OnOneDay, DayOf
  <2>4. counted'[d][date] = counted[d][date] /\ dayRows'[d][date] = dayRows[d][date]
    OBVIOUS
  <2>5. Linked(counted[d][date])' <=> Linked(counted[d][date])
    BY <2>4 DEF Linked, TotalDistance, Way
  <2>6. DayStats(counted[d][date])' = DayStats(counted[d][date])
    BY <2>4 DEF DayStats, TotalDistance, Followers, Earlier, PreviousRow, Gap, Moving
  <2> QED
    BY <2>1, <2>2, <2>3, <2>4, <2>5, <2>6 DEF DayInv
<1> QED
  BY <1>1 DEF RowsInv, DaysInv

\* Stages of jobs change.
LEMMA StagesChange ==
    ASSUME StatsInv, RowsInv, UNCHANGED <<rows, failures, dayRows, counted>>,
           \A r \in Records : distance'[r] # None =>
               \E x \in RowsOf(DeviceOf[r]) : distance'[r] = Distances[Report[x.rec].at][Report[r].at],
           distance' \in [Records -> Nat \cup {None}],
           \A r \in Records : pc'[r] \in {"waiting", "find", "store"} => pc[r] \in {"waiting", "find", "store"}
    PROVE  RowsInv'
<1>1. \A d : RowsOf(d)' = RowsOf(d)
  BY DEF RowsOf
<1>2. \A x \in rows : x.rec \in Records
  BY DEF RowsInv, StoredInv, Row
<1>3. StoredInv'
  BY <1>1, <1>2 DEF RowsInv, StoredInv
<1> QED
  BY <1>3, LinksStay, DaysStay DEF RowsInv

\* The way between two places.
LEMMA DistanceType == ASSUME NEW p \in Places, NEW q \in Places PROVE Distances[p][q] \in Nat
<1>1. p \in Int \X Int /\ q \in Int \X Int
  BY MatcherAssumption DEF MatcherAssumption
<1> QED
  BY <1>1, HaversineType DEF Distances

\* The distance is taken from a row that is stored.
LEMMA FindKeepsRows ==
    ASSUME StatsInv, RowsInv, NEW r \in Records, FindPrevious(r)
    PROVE  RowsInv'
<1>1. /\ pc[r] = "find" /\ pc' = [pc EXCEPT ![r] = "store"]
      /\ UNCHANGED <<rows, failures, dayRows, counted>>
      /\ distance \in [Records -> Nat \cup {None}] /\ pc = [q \in Records |-> pc[q]]
  BY DEF FindPrevious, Goto, dailyVars, RowsInv, StoredInv, StatsInv, TracksTyped
<1>2. \/ distance' = [distance EXCEPT ![r] = None]
      \/ \E x \in RowsOf(DeviceOf[r]) : distance' =
             [distance EXCEPT ![r] = Distances[Report[x.rec].at][Report[r].at]]
  BY DEF FindPrevious
<1>3. CASE distance' = [distance EXCEPT ![r] = None]
  BY <1>1, <1>3, StagesChange DEF RowsInv, StoredInv
<1>4. CASE \E x \in RowsOf(DeviceOf[r]) : distance' =
             [distance EXCEPT ![r] = Distances[Report[x.rec].at][Report[r].at]]
  <2>1. PICK x \in RowsOf(DeviceOf[r]) : distance' =
             [distance EXCEPT ![r] = Distances[Report[x.rec].at][Report[r].at]]
    BY <1>4
  <2> DEFINE way == Distances[Report[x.rec].at][Report[r].at]
  <2>2. way \in Nat
    <3>1. x.rec \in Records
      BY DEF RowsInv, StoredInv, RowsOf, Row
    <3> QED
      BY <3>1, DistanceType, StatsAssumption DEF StatsAssumption
  <2>3. distance' \in [Records -> Nat \cup {None}] /\ distance'[r] = way
        /\ \A q \in Records : q # r => distance'[q] = distance[q]
    <3> HIDE DEF way
    <3>1. distance' = [distance EXCEPT ![r] = way]
      BY <2>1 DEF way
    <3> QED
      BY <1>1, <2>2, <3>1
  <2>4. ASSUME NEW q \in Records, distance'[q] # None
        PROVE  \E y \in RowsOf(DeviceOf[q]) : distance'[q] = Distances[Report[y.rec].at][Report[q].at]
    BY <2>3, <2>4 DEF RowsInv, StoredInv
  <2> QED
    BY <1>1, <2>3, <2>4, StagesChange
<1> QED
  BY <1>2, <1>3, <1>4

\* The row is stored, linked by the distance.
LEMMA StoreKeepsRows ==
    ASSUME StatsInv, RowsInv, NEW r \in Records, Store(r)
    PROVE  RowsInv'
<1> DEFINE z == [rec |-> r, attempt |-> failures[r], distance |-> distance[r]]
           e == DeviceOf[r]
<1>1. /\ pc[r] = "store" /\ rows' = rows \cup {z}
      /\ distance' = [distance EXCEPT ![r] = None]
      /\ UNCHANGED <<failures, dayRows, counted>>
      /\ StoredInv /\ LinkInv
      /\ pc = [q \in Records |-> pc[q]]
  BY DEF Store, dailyVars, RowsInv, StatsInv, TracksTyped
<1>2. \E stage \in {"can", "match", "done"} : pc' = [pc EXCEPT ![r] = stage]
  BY DEF Store, Goto, AfterStore
<1>3. z \in Row /\ z.rec = r /\ z.attempt = failures[r] /\ z.distance = distance[r] /\ e \in Devices
  BY <1>1, StatsAssumption DEF StoredInv, Row, StatsAssumption
<1> HIDE DEF z
<1>4. \A x \in rows : x.rec \in Records /\ x.attempt \in Nat /\ (x.rec = r => x.attempt < failures[r])
  BY <1>1 DEF StoredInv, Row
<1>5. z \notin rows /\ \A x \in rows : x.rec = z.rec => x.attempt # z.attempt
  BY <1>1, <1>3, <1>4 DEF StoredInv
<1>6. \A d \in Devices : RowsOf(d)' = IF d = e THEN RowsOf(d) \cup {z} ELSE RowsOf(d)
  BY <1>1, <1>3 DEF RowsOf
<1>7. StoredInv'
  <2>1. IsFiniteSet(rows') /\ rows' \subseteq Row
    BY <1>1, <1>3, FS_AddElement DEF StoredInv
  <2>2. failures' \in [Records -> Nat] /\ distance' \in [Records -> Nat \cup {None}]
    BY <1>1 DEF StoredInv
  <2>3. \A x \in rows' : /\ x.attempt <= failures'[x.rec]
                         /\ pc'[x.rec] \in {"waiting", "find", "store"} => x.attempt < failures'[x.rec]
    <3> SUFFICES ASSUME NEW x \in rows'
                 PROVE  /\ x.attempt <= failures'[x.rec]
                        /\ pc'[x.rec] \in {"waiting", "find", "store"} => x.attempt < failures'[x.rec]
      OBVIOUS
    <3>1. CASE x = z
      <4>1. failures[r] \in Nat
        BY <1>1 DEF StoredInv
      <4> QED
        BY <1>1, <1>2, <1>3, <3>1, <4>1
    <3>2. CASE x \in rows
      <4>1. pc'[x.rec] = pc[x.rec] \/ pc'[x.rec] \in {"can", "match", "done"}
        BY <1>1, <1>2
      <4> QED
        BY <1>1, <3>2, <4>1 DEF StoredInv
    <3> QED
      BY <1>1, <3>1, <3>2
  <2>4. \A x, y \in rows' : x.rec = y.rec /\ x.attempt = y.attempt => x = y
    BY <1>1, <1>5 DEF StoredInv
  <2>5. ASSUME NEW q \in Records, distance'[q] # None
        PROVE  \E x \in RowsOf(DeviceOf[q])' : distance'[q] = Distances[Report[x.rec].at][Report[q].at]
    <3>1. distance'[q] = distance[q] /\ DeviceOf[q] \in Devices
      BY <1>1, <2>5, StatsAssumption DEF StoredInv, StatsAssumption
    <3>2. RowsOf(DeviceOf[q]) \subseteq RowsOf(DeviceOf[q])'
      BY <1>6, <3>1
    <3> QED
      BY <1>1, <2>5, <3>1, <3>2 DEF StoredInv
  <2> QED
    BY <2>1, <2>2, <2>3, <2>4, <2>5 DEF StoredInv
<1>8. LinkInv'
  <2> SUFFICES ASSUME NEW d \in Devices
               PROVE  /\ RowsOf(d)' # {} => \E x \in RowsOf(d)' : x.distance = None
                      /\ Linked(RowsOf(d))'
    BY DEF LinkInv
  <2>1. /\ RowsOf(d) # {} => \E x \in RowsOf(d) : x.distance = None
        /\ Linked(RowsOf(d))
    BY <1>1 DEF LinkInv
  <2>2. \A S : S = RowsOf(d)' => (Linked(RowsOf(d))' <=> Linked(S))
    BY DEF Linked, TotalDistance, Way
  <2>3. CASE d # e
    BY <1>6, <2>1, <2>2, <2>3
  <2>4. CASE d = e
    <3> DEFINE S == RowsOf(d)
    <3>1. IsFiniteSet(S) /\ S \subseteq Row /\ z \notin S /\ RowsOf(d)' = S \cup {z}
      BY <1>1, <1>5, <1>6, <2>4, FS_Subset DEF StoredInv, RowsOf
    <3>2. z.distance # None => \E x \in S : z.distance = Way(x, z)
      BY <1>1, <1>3, <2>4 DEF StoredInv, Way
    <3>3. S # {} => \E x \in S : x.distance = None
      BY <2>1
    <3> HIDE DEF S
    <3>4. Linked(S \cup {z})
      <4>1. Linked(S)
        BY <2>1 DEF S
      <4> QED
        BY <1>3, <3>1, <3>2, <3>3, <4>1, LinkedGrows
    <3>5. \E x \in S \cup {z} : x.distance = None
      BY <3>2, <3>3
    <3> QED
      BY <2>2, <3>1, <3>4, <3>5
  <2> QED
    BY <2>3, <2>4
<1>9. DaysInv'
  <2>1. rows \subseteq rows'
    BY <1>1
  <2> QED
    BY <1>1, <2>1, DaysStay
<1> QED
  BY <1>7, <1>8, <1>9 DEF RowsInv

\* A job that fails is tried again under another number.
LEMMA StoreFailsKeepsRows ==
    ASSUME StatsInv, RowsInv, NEW r \in Records, StoreFails(r)
    PROVE  RowsInv'
<1>1. /\ failures' = [failures EXCEPT ![r] = failures[r] + 1]
      /\ distance' = [distance EXCEPT ![r] = None]
      /\ UNCHANGED <<rows, dayRows, counted>> /\ StoredInv
      /\ pc = [q \in Records |-> pc[q]]
  BY DEF StoreFails, dailyVars, RowsInv, StatsInv, TracksTyped
<1>2. \E stage : pc' = [pc EXCEPT ![r] = stage]
  BY DEF StoreFails, Goto
<1>3. failures[r] \in Nat /\ failures' \in [Records -> Nat] /\ distance' \in [Records -> Nat \cup {None}]
  BY <1>1 DEF StoredInv
<1>4. \A x \in rows : /\ x.attempt <= failures'[x.rec]
                      /\ pc'[x.rec] \in {"waiting", "find", "store"} => x.attempt < failures'[x.rec]
  <2> SUFFICES ASSUME NEW x \in rows
               PROVE  /\ x.attempt <= failures'[x.rec]
                      /\ pc'[x.rec] \in {"waiting", "find", "store"} => x.attempt < failures'[x.rec]
    OBVIOUS
  <2>1. x.rec \in Records /\ x.attempt \in Nat /\ x.attempt <= failures[x.rec]
    BY <1>1 DEF StoredInv, Row
  <2>2. CASE x.rec = r
    BY <1>1, <1>3, <2>1, <2>2 DEF StoredInv
  <2>3. CASE x.rec # r
    BY <1>1, <1>2, <2>1, <2>3 DEF StoredInv
  <2> QED
    BY <2>2, <2>3
<1>5. ASSUME NEW q \in Records, distance'[q] # None
      PROVE  \E x \in RowsOf(DeviceOf[q])' : distance'[q] = Distances[Report[x.rec].at][Report[q].at]
  BY <1>1, <1>5 DEF StoredInv, RowsOf
<1>6. StoredInv'
  BY <1>1, <1>3, <1>4, <1>5 DEF StoredInv
<1> QED
  BY <1>1, <1>6, LinksStay, DaysStay DEF RowsInv

\* A day is computed from the rows of that day.
LEMMA ComputeKeepsRows ==
    ASSUME RowsInv, NEW d \in Devices, ComputeDay(d), UNCHANGED pc
    PROVE  RowsInv'
<1> DEFINE found == {x \in RowsOf(d) : DayOf(x.rec) = daily.day}
           key == DateKey(daily.day)
<1>1. UNCHANGED <<pc, failures, distance, rows>>
  BY DEF ComputeDay, storeVars
<1>2. StoredInv' /\ LinkInv'
  BY <1>1, LinksStay DEF RowsInv, StoredInv, RowsOf
<1>3. CASE UNCHANGED <<dayRows, counted>>
  BY <1>1, <1>2, <1>3, DaysStay DEF RowsInv
<1>4. CASE /\ found # {}
           /\ dayRows' = [dayRows EXCEPT ![d][key] = DayStats(found)]
           /\ counted' = [counted EXCEPT ![d][key] = found]
  <2>1. OnOneDay(RowsOf(d)) => found = RowsOf(d)
    BY <1>4 DEF OnOneDay
  <2>2. OnOneDay(RowsOf(d)) => Linked(found)
    BY <2>1 DEF RowsInv, LinkInv
  <2>3. found \subseteq RowsOf(d)
    OBVIOUS
  <2> HIDE DEF found, key
  <2>4. ASSUME NEW c \in Devices, NEW date \in Dates PROVE DayInv(c, date)'
    <3>1. DayInv(c, date)
      BY DEF RowsInv, DaysInv
    <3>2. /\ dayRows'[c][date] = IF c = d /\ date = key THEN DayStats(found) ELSE dayRows[c][date]
          /\ counted'[c][date] = IF c = d /\ date = key THEN found ELSE counted[c][date]
      BY <1>4 DEF RowsInv, DaysInv
    <3> DEFINE S == counted'[c][date]
    <3>3. /\ RowsOf(c)' = RowsOf(c)
          /\ OnOneDay(RowsOf(c))' <=> OnOneDay(RowsOf(c))
          /\ DayStats(counted[c][date])' = DayStats(S)
          /\ Linked(counted[c][date])' <=> Linked(S)
      <4>1. RowsOf(c)' = RowsOf(c)
        BY <1>1 DEF RowsOf
      <4>2. OnOneDay(RowsOf(c))' <=> OnOneDay(RowsOf(c))
        BY <4>1 DEF OnOneDay, DayOf
      <4>3. DayStats(counted[c][date])' = DayStats(S)
        BY DEF DayStats, TotalDistance, Followers, Earlier, PreviousRow, Gap, Moving
      <4>4. Linked(counted[c][date])' <=> Linked(S)
        BY DEF Linked, TotalDistance, Way
      <4> QED
        BY <4>1, <4>2, <4>3, <4>4
    <3> HIDE DEF S
    <3>4. CASE c = d /\ date = key
      <4>1. S = found /\ dayRows'[c][date] = DayStats(found)
        BY <3>2, <3>4 DEF S
      <4> QED
        BY <1>4, <2>2, <2>3, <3>3, <3>4, <4>1 DEF DayInv, S
    <3>5. CASE ~(c = d /\ date = key)
      <4>1. S = counted[c][date] /\ dayRows'[c][date] = dayRows[c][date]
        BY <3>2, <3>5 DEF S
      <4> QED
        BY <3>1, <3>3, <4>1 DEF DayInv, S
    <3> QED
      BY <3>4, <3>5
  <2>5. /\ dayRows' = [c \in Devices |-> [date \in Dates |-> dayRows'[c][date]]]
        /\ counted' = [c \in Devices |-> [date \in Dates |-> counted'[c][date]]]
    BY <1>4 DEF RowsInv, DaysInv
  <2> QED
    BY <1>2, <2>4, <2>5 DEF RowsInv, DaysInv
<1> QED
  BY <1>3, <1>4 DEF ComputeDay

\* A step of the pipeline stores nothing.
LEMMA TrackKeepsRows ==
    ASSUME StatsInv, RowsInv, NEW r \in Records, TrackStep(r) \/ TrackFails(r),
           UNCHANGED <<storeVars, dailyVars>>
    PROVE  RowsInv'
<1>1. \E stage \in {"done", "predict", "setex", "select", "write", "device"} : Goto(r, stage)
  <2>1. ASSUME NEW b \in BOOLEAN, Match(r, b) PROVE Goto(r, "done") \/ Goto(r, "predict")
    BY <2>1 DEF Match
  <2>2. ASSUME NEW b \in BOOLEAN, UpdateDevice(r, b) PROVE Goto(r, "done")
    BY <2>2 DEF UpdateDevice
  <2>3. ASSUME Predict(r) PROVE Goto(r, "setex")
    BY <2>3 DEF Predict
  <2>4. ASSUME Learn(r) PROVE Goto(r, "select") \/ Goto(r, "device")
    BY <2>4 DEF Learn
  <2>5. ASSUME Select(r) PROVE Goto(r, "write")
    BY <2>5 DEF Select
  <2>6. ASSUME Write(r) \/ LearnFails(r) PROVE Goto(r, "device")
    BY <2>6 DEF Write, LearnFails
  <2>7. ASSUME PipelineFails(r) PROVE Goto(r, "done")
    BY <2>7 DEF PipelineFails
  <2> QED
    BY <2>1, <2>2, <2>3, <2>4, <2>5, <2>6, <2>7 DEF TrackStep, TrackFails
<1>2. \A q \in Records : pc'[q] \in {"waiting", "find", "store"} => pc[q] \in {"waiting", "find", "store"}
  BY <1>1 DEF Goto, StatsInv, TracksTyped
<1> QED
  BY <1>2, StagesChange DEF storeVars, dailyVars, RowsInv, StoredInv

\* A step of storing.
LEMMA StoringKeepsRows ==
    ASSUME StatsInv, RowsInv, NEW r \in Records, StoreStep(r) \/ StoreFails(r)
    PROVE  RowsInv'
<1>1. CASE Start(r)
  <2>1. /\ pc[r] = "waiting" /\ pc' = [pc EXCEPT ![r] = "find"]
        /\ UNCHANGED <<rows, failures, distance, dayRows, counted>>
        /\ pc = [q \in Records |-> pc[q]]
    BY <1>1 DEF Start, Goto, storeVars, dailyVars, StatsInv, TracksTyped
  <2> QED
    BY <2>1, StagesChange DEF RowsInv, StoredInv
<1>2. CASE StoreCan(r)
  <2>1. /\ pc[r] = "can" /\ \E stage \in {"match", "done"} : pc' = [pc EXCEPT ![r] = stage]
        /\ UNCHANGED <<rows, failures, distance, dayRows, counted>>
        /\ pc = [q \in Records |-> pc[q]]
    BY <1>2 DEF StoreCan, Goto, AfterStore, storeVars, dailyVars, StatsInv, TracksTyped
  <2> QED
    BY <2>1, StagesChange DEF RowsInv, StoredInv
<1> QED
  BY <1>1, <1>2, FindKeepsRows, StoreKeepsRows, StoreFailsKeepsRows DEF StoreStep

\* Every step keeps the invariant of the rows.
LEMMA NextRows == StatsInv /\ RowsInv /\ [Next]_vars => RowsInv'
<1> SUFFICES ASSUME StatsInv, RowsInv, [Next]_vars PROVE RowsInv'
  OBVIOUS
<1>1. ASSUME UNCHANGED <<pc, storeVars, dailyVars>> PROVE RowsInv'
  BY <1>1, StagesChange DEF storeVars, dailyVars, RowsInv, StoredInv
<1>2. ASSUME NEW d \in Devices, DayFails(d) PROVE RowsInv'
  BY <1>2, StagesChange DEF DayFails, storeVars, RowsInv, StoredInv
<1>3. ASSUME NEW d \in Devices, ComputeDay(d) PROVE RowsInv'
  BY <1>3, ComputeKeepsRows DEF ComputeDay
<1>4. CASE Next
  <2>1. CASE Fails
    BY <2>1, <1>2, StoringKeepsRows, TrackKeepsRows DEF Fails
  <2> QED
    BY <1>4, <2>1, <1>1, <1>3, StoringKeepsRows, TrackKeepsRows DEF Next
<1>5. CASE UNCHANGED vars
  BY <1>1, <1>5 DEF vars
<1> QED
  BY <1>4, <1>5

\* For any records, number of jobs and failures: the row of a day counts no more
\* driving and standing than its records lie apart, and when all rows of the
\* device are of one day and one of those counted at most lacks a distance, at
\* least the way between any two of them (telemetry.processor.ts:87-102,
\* analytics.processor.ts:54-95).
THEOREM DayRowsSound == Spec => []DayRowsAreSound
<1>1. RowsInv => DayRowsAreSound
  <2> SUFFICES ASSUME RowsInv, NEW d \in Devices, NEW date \in Dates, dayRows[d][date] # None
               PROVE  LET row == dayRows[d][date]
                          S == counted[d][date]
                          linked == /\ \A x, y \in RowsOf(d) : DayOf(x.rec) = DayOf(y.rec)
                                    /\ Cardinality({x \in S : x.distance = None}) <= 1
                      IN  /\ row.drivingTime + row.idleTime <= GreatestOf(TimesOf(S)) - LeastOf(TimesOf(S))
                          /\ linked => \A x, y \in S :
                                 Distances[Report[x.rec].at][Report[y.rec].at] <= row.totalDistance
    BY DEF DayRowsAreSound
  <2> DEFINE row == dayRows[d][date]
             S == counted[d][date]
             lacking == {x \in S : x.distance = None}
  <2>1. /\ S \subseteq RowsOf(d) /\ S # {} /\ row = DayStats(S)
        /\ OnOneDay(RowsOf(d)) => Linked(S)
    BY DEF RowsInv, DaysInv, DayInv
  <2>2. OfOneDevice(S)
    <3>1. S \subseteq rows /\ \A x \in S : DeviceOf[x.rec] = d
      BY <2>1 DEF RowsOf
    <3>2. IsFiniteSet(S)
      BY <3>1, FS_Subset DEF RowsInv, StoredInv
    <3> QED
      BY <3>1, <3>2 DEF RowsInv, StoredInv, OfOneDevice
  <2> HIDE DEF S, row
  <2>3. row.drivingTime + row.idleTime <= GreatestOf(TimesOf(S)) - LeastOf(TimesOf(S))
    BY <2>1, <2>2, DayIsLongEnough
  <2>4. ASSUME \A x, y \in RowsOf(d) : DayOf(x.rec) = DayOf(y.rec), Cardinality(lacking) <= 1
        PROVE  \A x, y \in S : Way(x, y) <= row.totalDistance
    <3>1. Linked(S)
      BY <2>1, <2>4 DEF OnOneDay
    <3>2. ASSUME NEW x \in S, NEW y \in S, x.distance = None, y.distance = None PROVE x = y
      <4> SUFFICES ASSUME x # y PROVE FALSE
        OBVIOUS
      <4>1. IsFiniteSet(lacking) /\ {x, y} \subseteq lacking
        BY <2>2, <3>2, FS_Subset DEF OfOneDevice
      <4>2. IsFiniteSet({x}) /\ Cardinality({x}) = 1
        BY FS_Singleton
      <4>3. Cardinality({x} \cup {y}) = 2
        <5>1. Cardinality({x} \cup {y}) = IF y \in {x} THEN Cardinality({x}) ELSE Cardinality({x}) + 1
          BY <4>2, FS_AddElement, Zenon
        <5>2. y \notin {x}
          OBVIOUS
        <5> QED
          BY <4>2, <5>1, <5>2
      <4>4. {x} \cup {y} = {x, y} /\ Cardinality({x, y}) <= Cardinality(lacking)
        BY <4>1, FS_Subset
      <4>5. Cardinality(lacking) \in Nat
        BY <4>1, FS_CardinalityType
      <4> QED
        BY <2>4, <4>3, <4>4, <4>5
    <3>3. row.totalDistance = TotalDistance(S)
      BY <2>1 DEF DayStats
    <3> QED
      BY <3>1, <3>2, <3>3 DEF Linked
  <2> QED
    BY <2>3, <2>4 DEF S, row, Way
<1> QED
  BY <1>1, InitRows, NextRows, StatsInductive, PTL DEF Spec
=============================================================================
