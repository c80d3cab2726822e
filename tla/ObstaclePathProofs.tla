------------------------- MODULE ObstaclePathProofs -------------------------
(* The safety of ObstaclePath from a cluster to what the planner looks up,  *)
(* for every recording and size of the map: ring of points, box, costmap.   *)
EXTENDS ObstaclePath, DataLemmas, FiniteSetTheorems, TLAPS

BoxType == [minX : Int, maxX : Int, minY : Int, maxY : Int]
CornersType == [at : Seq(Int \X Int), den : Nat \ {0}]

\* The fit of one cluster.  What the ring holds at k when it is complete: the points to
\* and fro, since HullSize stays 0 and so nothing is ever dropped.
Ring(k) == IF k <= Len(points) THEN points[k] ELSE points[2 * Len(points) - k]

Fitting ==
  /\ Fit!ToSet(points) \in Clusters /\ Len(points) >= 5
  /\ \A j \in 1 .. Len(points), k \in 1 .. Len(points) : j # k => points[j] # points[k]
  /\ \A k \in 1 .. Len(hull) : hull[k] = Ring(k)
  /\ fit_pc = "lower" => i \in 1 .. Len(points) + 1 /\ Len(hull) = i - 1
  /\ fit_pc = "upper" => i \in 0 .. Len(points) - 1 /\ Len(hull) = 2 * Len(points) - 1 - i
  /\ fit_pc = "fit" => i \in 1 .. Len(hull) + 1
  /\ fit_pc = "idle" => i = Len(hull) + 1
  /\ fit_pc \in {"fit", "idle"} => Len(hull) = 2 * Len(points) - 2
  /\ fit_pc = "idle" \/ (fit_pc = "fit" /\ i > 1) =>
       edge # <<0, 0>> /\ box = Fit!Extent(edge)

FitInv ==
  /\ fit_pc \in {"idle", "lower", "upper", "fit"}
  /\ points \in Seq(Int \X Int) /\ hull \in Seq(Int \X Int)
  /\ HullSize = 0 /\ lower_size = 0
  /\ edge \in Int \X Int /\ corners \in CornersType
  /\ box \in BoxType /\ box.minX <= box.maxX /\ box.minY <= box.maxY
  /\ Fitting \/ (fit_pc = "idle" /\ points = << >> /\ hull = << >> /\ i = 1)

\* The costmap and the two nodes about it.
GridInv ==
  /\ Grid!TypeOK
  /\ clusters \in Seq(CornersType)

NodeInv ==
  /\ recording \in Recordings /\ scan \in 0 .. Len(recording)
  /\ stage \in {"spin", "fit", "draw"} /\ (stage = "fit" => scan >= 1)
  /\ boxes \in Seq([edge : Int \X Int, box : BoxType, corners : CornersType])
  /\ plan \in [scan : Nat, valid : SUBSET Candidates, zone : BOOLEAN]
  /\ plan.scan \in {scan, scan - 1}

IInv == FitInv /\ GridInv /\ NodeInv

----------------------------------------------------------------------------
(* SortingPoints (Lshapefitting.cpp): every point comes once.               *)

(* LShapeBox counts as the library does.                                    *)
LEMMA SameCount == ASSUME NEW S PROVE Fit!Cardinality(S) = Cardinality(S)
BY DEF Fit!Cardinality, Cardinality

Below(P, p) == {q \in P : Fit!Before(q, p)}
Rank(P) == [p \in P |-> Cardinality(Below(P, p))]

(* The points are ordered, and so their ranks differ.                       *)
LEMMA RankInjective ==
  ASSUME NEW P, P \subseteq Int \X Int, IsFiniteSet(P)
  PROVE  Cardinality(P) \in Nat /\ Rank(P) \in Injection(P, 0 .. Cardinality(P) - 1)
<1>1. Cardinality(P) \in Nat
  BY FS_CardinalityType
<1>2. ASSUME NEW p \in P
      PROVE  /\ IsFiniteSet(Below(P, p)) /\ Cardinality(Below(P, p)) \in Nat
             /\ Cardinality(Below(P, p)) < Cardinality(P)
  <2>1. Below(P, p) \in SUBSET (P \ {p})
    BY DEF Below, Fit!Before
  <2>2. IsFiniteSet(P \ {p}) /\ Cardinality(P \ {p}) = Cardinality(P) - 1
    BY FS_RemoveElement
  <2>3. IsFiniteSet(Below(P, p)) /\ Cardinality(Below(P, p)) <= Cardinality(P \ {p})
    BY <2>1, <2>2, FS_Subset
  <2>4. Cardinality(Below(P, p)) \in Nat
    BY <2>3, FS_CardinalityType
  <2> QED BY <1>1, <2>2, <2>3, <2>4
<1>3. ASSUME NEW p \in P, NEW q \in P, Fit!Before(p, q)
      PROVE  Cardinality(Below(P, p)) < Cardinality(Below(P, q))
  <2>1. p \notin Below(P, p) /\ Below(P, p) \union {p} \subseteq Below(P, q)
    BY <1>3 DEF Below, Fit!Before
  <2>2. Cardinality(Below(P, p) \union {p}) = Cardinality(Below(P, p)) + 1
    BY <1>2, <2>1, FS_AddElement
  <2>3. Cardinality(Below(P, p) \union {p}) <= Cardinality(Below(P, q))
    BY <1>2, <2>1, FS_Subset
  <2> QED BY <1>2, <2>2, <2>3
<1>4. \A p \in P, q \in P : p # q => Fit!Before(p, q) \/ Fit!Before(q, p)
  BY DEF Fit!Before
<1>5. Rank(P) \in [P -> 0 .. Cardinality(P) - 1]
  BY <1>1, <1>2 DEF Rank
<1>6. \A p \in P, q \in P : Rank(P)[p] = Rank(P)[q] => p = q
  BY <1>2, <1>3, <1>4 DEF Rank
<1> QED BY <1>1, <1>5, <1>6 DEF Injection, IsInjective

(* Sorted enumerates a set of points without repetition.                    *)
LEMMA SortedEnumerates ==
  ASSUME NEW P, P \subseteq Int \X Int, IsFiniteSet(P)
  PROVE  /\ Fit!Sorted(P) \in Seq(P) /\ Len(Fit!Sorted(P)) = Cardinality(P)
         /\ \A p \in P : \E k \in 1 .. Cardinality(P) : Fit!Sorted(P)[k] = p
         /\ \A j \in 1 .. Cardinality(P), k \in 1 .. Cardinality(P) :
              j # k => Fit!Sorted(P)[j] # Fit!Sorted(P)[k]
<1> DEFINE n == Cardinality(P)
           sorted == Fit!Sorted(P)
           rank == Rank(P)
<1>1. n \in Nat /\ rank \in Injection(P, 0 .. n - 1)
  BY RankInjective
<1>2. IsFiniteSet(0 .. n - 1) /\ Cardinality(0 .. n - 1) = n
  BY <1>1, FS_Interval
<1>3. rank \in Surjection(P, 0 .. n - 1)
  <2> HIDE DEF rank
  <2> QED BY <1>1, <1>2, FS_Injection
<1>4. ASSUME NEW k \in 1 .. n PROVE sorted[k] \in P /\ rank[sorted[k]] = k - 1
  <2>1. k - 1 \in 0 .. n - 1
    BY <1>1
  <2>2. \E p \in P : rank[p] = k - 1
    <3> HIDE DEF rank, n
    <3> QED BY <1>3, <2>1 DEF Surjection
  <2>3. \E p \in P : Fit!Cardinality({q \in P : Fit!Before(q, p)}) = k - 1
    BY <2>2, SameCount DEF Rank, Below
  <2>4. k \in 1 .. Fit!Cardinality(P)
    BY SameCount
  <2>5. sorted[k] = CHOOSE p \in P : Fit!Cardinality({q \in P : Fit!Before(q, p)}) = k - 1
    BY <2>4 DEF Fit!Sorted
  <2>6. sorted[k] \in P /\ Fit!Cardinality({q \in P : Fit!Before(q, sorted[k])}) = k - 1
    <3> HIDE DEF sorted
    <3> QED BY <2>3, <2>5
  <2> QED BY <2>6, SameCount DEF Rank, Below
<1>5. sorted \in [1 .. n -> P]
  <2> DEFINE pick(k) == CHOOSE p \in P : Fit!Cardinality({q \in P : Fit!Before(q, p)}) = k - 1
  <2>1. sorted = [k \in 1 .. Fit!Cardinality(P) |-> pick(k)]
    BY DEF Fit!Sorted
  <2> HIDE DEF pick
  <2>2. Fit!Cardinality(P) = n
    BY SameCount
  <2> HIDE DEF sorted, n
  <2> QED BY <1>4, <2>1, <2>2
<1> HIDE DEF sorted, rank, n
<1>6. ASSUME NEW p \in P PROVE \E k \in 1 .. n : sorted[k] = p
  <2>1. rank[p] \in 0 .. n - 1
    BY <1>1 DEF Injection
  <2> DEFINE k == rank[p] + 1
  <2>2. k \in 1 .. n /\ k - 1 = rank[p]
    BY <1>1, <2>1
  <2>3. sorted[k] \in P /\ rank[sorted[k]] = rank[p]
    BY <1>4, <2>2
  <2>4. sorted[k] = p
    BY <1>1, <2>3 DEF Injection, IsInjective
  <2> QED BY <2>2, <2>4
<1>7. \A j \in 1 .. n, k \in 1 .. n : j # k => sorted[j] # sorted[k]
  BY <1>1, <1>4
<1>8. sorted \in Seq(P) /\ Len(sorted) = n
  BY <1>1, <1>5
<1> QED BY <1>6, <1>7, <1>8 DEF n, sorted

----------------------------------------------------------------------------
(* The rectangle (Calculate_Closeness).                                     *)

Values(f) == {f[k] : k \in DOMAIN f}

(* The least and the largest of finitely many numbers bound them.           *)
LEMMA Extremes ==
  ASSUME NEW n \in Nat, n >= 1, NEW f \in [1 .. n -> Int], NEW S, S = Values(f)
  PROVE  /\ Fit!Min(S) \in Int /\ Fit!Max(S) \in Int /\ Fit!Min(S) <= Fit!Max(S)
         /\ \A x \in S : x \in Fit!Min(S) .. Fit!Max(S)
<1>1. PICK low \in Int, high \in Int : \A k \in 1 .. n : low <= f[k] /\ f[k] <= high
  BY Bounded
<1>2. S \subseteq Int /\ S # {} /\ \A x \in S : low <= x /\ x <= high
  <2>1. f[1] \in S
    BY DEF Values
  <2> QED BY <1>1, <2>1 DEF Values
<1>3. Min(S) \in S /\ \A y \in S : Min(S) <= y
  BY <1>2, MinInt
<1>4. Max(S) \in S /\ \A y \in S : Max(S) >= y
  BY <1>2, MaxInt
<1>5. Fit!Min(S) = Min(S) /\ Fit!Max(S) = Max(S)
  BY Zenon DEF Fit!Min, Min, Fit!Max, Max
<1>6. Min(S) \in Int /\ Max(S) \in Int /\ Min(S) <= Max(S)
  BY <1>2, <1>3, <1>4
<1>7. \A x \in S : x \in Min(S) .. Max(S)
  BY <1>2, <1>3, <1>4, <1>6
<1> QED BY <1>5, <1>6, <1>7

(* The extent at an angle is a rectangle about all points.                  *)
LEMMA ExtentCovers ==
  ASSUME points \in Seq(Int \X Int), Len(points) >= 1, NEW e \in Int \X Int
  PROVE  LET b == Fit!Extent(e) IN
         /\ b \in BoxType /\ b.minX <= b.maxX /\ b.minY <= b.maxY
         /\ \A p \in Fit!ToSet(points) : /\ Fit!Along(p, e) \in b.minX .. b.maxX
                                         /\ Fit!Across(p, e) \in b.minY .. b.maxY
<1> DEFINE n == Len(points)
           P == Fit!ToSet(points)
           Xs == {Fit!Along(p, e) : p \in P}
           Ys == {Fit!Across(p, e) : p \in P}
           f == [k \in 1 .. n |-> Fit!Along(points[k], e)]
           g == [k \in 1 .. n |-> Fit!Across(points[k], e)]
<1>1. n \in Nat /\ n >= 1 /\ P = {points[k] : k \in 1 .. n}
  BY DEF Fit!ToSet
<1>2. f \in [1 .. n -> Int] /\ g \in [1 .. n -> Int]
  <2>1. ASSUME NEW k \in 1 .. n
        PROVE  Fit!Along(points[k], e) \in Int /\ Fit!Across(points[k], e) \in Int
    <3>1. points[k] \in Int \X Int
      OBVIOUS
    <3>2. points[k][1] \in Int /\ points[k][2] \in Int /\ e[1] \in Int /\ e[2] \in Int
      BY <3>1
    <3> QED BY <3>2 DEF Fit!Along, Fit!Across
  <2> HIDE DEF n
  <2> QED BY <2>1
<1>3. Xs = Values(f) /\ Ys = Values(g)
  <2> HIDE DEF P, n
  <2> QED BY <1>1 DEF Values
<1>4. Fit!Extent(e) = [minX |-> Fit!Min(Xs), maxX |-> Fit!Max(Xs),
                       minY |-> Fit!Min(Ys), maxY |-> Fit!Max(Ys)]
  BY DEF Fit!Extent
<1>5. \A p \in P : Fit!Along(p, e) \in Xs /\ Fit!Across(p, e) \in Ys
  OBVIOUS
<1> HIDE DEF f, g, Xs, Ys, P, n
<1>6. Fit!Min(Xs) \in Int /\ Fit!Max(Xs) \in Int /\ Fit!Min(Xs) <= Fit!Max(Xs)
      /\ \A x \in Xs : x \in Fit!Min(Xs) .. Fit!Max(Xs)
  BY <1>1, <1>2, <1>3, Extremes
<1>7. Fit!Min(Ys) \in Int /\ Fit!Max(Ys) \in Int /\ Fit!Min(Ys) <= Fit!Max(Ys)
      /\ \A x \in Ys : x \in Fit!Min(Ys) .. Fit!Max(Ys)
  BY <1>1, <1>2, <1>3, Extremes
<1> QED BY <1>4, <1>5, <1>6, <1>7 DEF BoxType, P

(* The padding at an angle is the root it stands for, to a whole number: it *)
(* is looked for in a range that is wide enough.                            *)
LEMMA PadType ==
  ASSUME edge \in Int \X Int
  PROVE  LET n == Fine * Fine * Padding * Padding * Fit!Norm2(edge)
         IN  Fit!Pad \in Nat /\ Fit!Pad * Fit!Pad <= n /\ (Fit!Pad + 1) * (Fit!Pad + 1) > n
<1> DEFINE a == edge[1]
           b == edge[2]
           x == Fit!Abs(a)
           y == Fit!Abs(b)
           u == Fine * Padding
<1>1. /\ Fine \in Nat /\ Padding \in Nat /\ a \in Int /\ b \in Int /\ x \in Nat /\ y \in Nat
      /\ a * a = x * x /\ b * b = y * y
  <2>1. ASSUME NEW c \in Int PROVE Fit!Abs(c) \in Nat /\ c * c = Fit!Abs(c) * Fit!Abs(c)
    <3>1. CASE c < 0
      BY <3>1 DEF Fit!Abs
    <3>2. CASE ~(c < 0)
      BY <3>2 DEF Fit!Abs
    <3> QED BY <3>1, <3>2
  <2>2. a \in Int /\ b \in Int
    OBVIOUS
  <2>3. x \in Nat /\ a * a = x * x
    <3> HIDE DEF a
    <3> QED BY <2>1, <2>2
  <2>4. y \in Nat /\ b * b = y * y
    <3> HIDE DEF b
    <3> QED BY <2>1, <2>2
  <2> HIDE DEF a, b, x, y
  <2> QED BY <2>2, <2>3, <2>4, LengthsAssumption
<1> DEFINE n == Fine * Fine * Padding * Padding * Fit!Norm2(edge)
           m == Fine * Padding * (x + y)
<1>2. Fit!Pad = CHOOSE k \in 0 .. m : k * k <= n /\ (k + 1) * (k + 1) > n
  BY DEF Fit!Pad
<1>3. Fit!Norm2(edge) = a * a + b * b
  BY DEF Fit!Norm2
<1> HIDE DEF a, b, x, y
<1>4. m \in Nat /\ n \in Nat /\ n <= m * m
  <2>1. u \in Nat
    BY <1>1
  <2> DEFINE N == x * x + y * y
             v == x + y
  <2>2. N \in Nat /\ v \in Nat /\ Fit!Norm2(edge) = N
    BY <1>1, <1>3
  <2>3. N <= v * v
    <3>1. v * v = N + 2 * (x * y)
      BY <1>1
    <3>2. x * y \in Nat
      BY <1>1
    <3> HIDE DEF N, v
    <3> QED BY <2>2, <3>1, <3>2
  <2> HIDE DEF N, v
  <2>4. m = u * v
    BY DEF v
  <2>5. n = (u * u) * N
    BY <1>1, <2>2
  <2> HIDE DEF u, m, n
  <2>6. u * u \in Nat
    BY <2>1
  <2>7. (u * u) * N <= (u * u) * (v * v)
    <3> DEFINE w == u * u
               z == v * v
    <3>1. w \in Nat /\ z \in Nat /\ N <= z
      BY <2>2, <2>3, <2>6
    <3> HIDE DEF w, z
    <3>2. w * N <= w * z
      BY <2>2, <3>1
    <3> QED BY <3>2 DEF w, z
  <2>8. (u * v) * (u * v) = (u * u) * (v * v)
    BY <2>1, <2>2
  <2>9. u * v \in Nat /\ (u * u) * N \in Nat
    BY <2>1, <2>2, <2>6
  <2> QED BY <2>4, <2>5, <2>7, <2>8, <2>9
<1> HIDE DEF m, n
<1>5. \E k \in 0 .. m : k * k <= n /\ (k + 1) * (k + 1) > n
  BY <1>4, Root
<1>6. Fit!Pad \in 0 .. m /\ Fit!Pad * Fit!Pad <= n /\ (Fit!Pad + 1) * (Fit!Pad + 1) > n
  <2> DEFINE k == Fit!Pad
  <2>1. k \in 0 .. m /\ k * k <= n /\ (k + 1) * (k + 1) > n
    BY <1>2, <1>5
  <2> QED BY <2>1
<1> QED BY <1>4, <1>6 DEF n

(* The corners passed on have a denominator: the winning edge has a length. *)
LEMMA TurnedType ==
  ASSUME edge \in Int \X Int, edge # <<0, 0>>, box \in BoxType
  PROVE  Fit!Turned \in CornersType
<1> DEFINE x0 == Fine * box.minX - Fit!Pad
           x1 == Fine * box.maxX + Fit!Pad
           y0 == Fine * box.minY - Fit!Pad
           y1 == Fine * box.maxY + Fit!Pad
<1>1. Fine \in Nat \ {0} /\ Fit!Pad \in Int /\ edge[1] \in Int /\ edge[2] \in Int
  BY LengthsAssumption, PadType
<1>2. x0 \in Int /\ x1 \in Int /\ y0 \in Int /\ y1 \in Int
  BY <1>1 DEF BoxType
<1>3. \A x \in Int, y \in Int : Fit!Back(x, y) \in Int \X Int
  BY <1>1 DEF Fit!Back
<1>4. Fine * Fit!Norm2(edge) \in Nat \ {0}
  <2>1. Fit!Norm2(edge) \in Nat \ {0}
    <3>1. edge[1] # 0 \/ edge[2] # 0
      OBVIOUS
    <3>2. \A a \in Int : a * a \in Nat /\ (a # 0 => a * a > 0)
      OBVIOUS
    <3> QED BY <1>1, <3>1, <3>2 DEF Fit!Norm2
  <2> QED BY <1>1, <2>1
<1>5. Fit!Turned = [at |-> <<Fit!Back(x0, y0), Fit!Back(x0, y1), Fit!Back(x1, y1), Fit!Back(x1, y0)>>,
                    den |-> Fine * Fit!Norm2(edge)]
  BY DEF Fit!Turned
<1> HIDE DEF x0, x1, y0, y1
<1>6. <<Fit!Back(x0, y0), Fit!Back(x0, y1), Fit!Back(x1, y1), Fit!Back(x1, y0)>> \in Seq(Int \X Int)
  <2> DEFINE p == Fit!Back(x0, y0)
             q == Fit!Back(x0, y1)
             r == Fit!Back(x1, y1)
             s == Fit!Back(x1, y0)
  <2>1. p \in Int \X Int /\ q \in Int \X Int /\ r \in Int \X Int /\ s \in Int \X Int
    BY <1>2, <1>3
  <2> HIDE DEF p, q, r, s
  <2>2. <<p, q, r, s>> \in Seq(Int \X Int)
    BY <2>1
  <2> QED BY <2>2 DEF p, q, r, s
<1> QED BY <1>4, <1>5, <1>6 DEF CornersType

----------------------------------------------------------------------------
(* The fit of one cluster (Lshapefitting.cpp).                              *)

(* A ring holds points of the cluster.                                      *)
LEMMA RingType ==
  ASSUME points \in Seq(Int \X Int), NEW k \in 1 .. 2 * Len(points) - 1
  PROVE  Ring(k) \in Int \X Int
<1>1. Len(points) \in Nat
  OBVIOUS
<1>2. CASE k <= Len(points)
  <2>1. k \in 1 .. Len(points)
    BY <1>1, <1>2
  <2> QED BY <1>2, <2>1 DEF Ring
<1>3. CASE ~(k <= Len(points))
  <2>1. 2 * Len(points) - k \in 1 .. Len(points)
    BY <1>1, <1>3
  <2> QED BY <1>3, <2>1 DEF Ring
<1> QED BY <1>2, <1>3

(* Nothing is dropped from the ring: its size is read as 0 for ever.        *)
LEMMA NothingDropped ==
  ASSUME FitInv, NEW p
  PROVE  ~Fit!Drops(p, 1) /\ ~Fit!Drops(p, lower_size)
BY DEF FitInv, Fit!Drops

(* Neighbours on the ring are different points, also across its seam.       *)
LEMMA EdgeHasLength ==
  ASSUME FitInv, Fitting, fit_pc \in {"fit", "idle"}, NEW k \in 1 .. Len(hull)
  PROVE  Fit!Edge(k) \in Int \X Int /\ Fit!Edge(k) # <<0, 0>>
<1> DEFINE n == Len(points)
           next == IF k = Len(hull) THEN 1 ELSE k + 1
<1>1. n \in Nat /\ n >= 5 /\ Len(hull) = 2 * n - 2 /\ points \in Seq(Int \X Int)
  BY DEF FitInv, Fitting
<1>2. hull[k] = Ring(k) /\ hull[next] = Ring(next)
  <2>1. Len(hull) \in Nat
    BY <1>1
  <2>2. next \in 1 .. Len(hull)
    BY <2>1
  <2>3. \A j \in 1 .. Len(hull) : hull[j] = Ring(j)
    BY DEF Fitting
  <2> HIDE DEF next
  <2> QED BY <2>2, <2>3
<1>3. \E a \in 1 .. n, b \in 1 .. n : a # b /\ hull[k] = points[a] /\ hull[next] = points[b]
  <2>1. CASE k < n
    <3>1. k \in 1 .. n /\ k + 1 \in 1 .. n /\ next = k + 1
      BY <1>1, <2>1
    <3> QED BY <1>2, <3>1 DEF Ring
  <2>2. CASE k >= n /\ k < 2 * n - 2
    <3>1. next = k + 1 /\ 2 * n - k \in 1 .. n /\ 2 * n - (k + 1) \in 1 .. n
          /\ 2 * n - k # 2 * n - (k + 1)
      BY <1>1, <2>2
    <3>2. Ring(k) = points[2 * n - k]
      <4>1. CASE k = n
        <5>1. 2 * n - k = k
          BY <1>1, <4>1
        <5> QED BY <4>1, <5>1 DEF Ring
      <4>2. CASE k > n
        BY <1>1, <4>2 DEF Ring
      <4> QED BY <1>1, <2>2, <4>1, <4>2
    <3>3. Ring(k + 1) = points[2 * n - (k + 1)]
      BY <1>1, <2>2 DEF Ring
    <3> HIDE DEF n, next
    <3> QED BY <1>2, <3>1, <3>2, <3>3
  <2>3. CASE k = 2 * n - 2
    <3>1. next = 1 /\ 2 * n - k = 2 /\ 1 \in 1 .. n /\ 2 \in 1 .. n /\ k > n
      BY <1>1, <2>3
    <3>2. Ring(k) = points[2] /\ Ring(1) = points[1]
      BY <1>1, <3>1 DEF Ring
    <3>3. hull[k] = points[2] /\ hull[next] = points[1]
      BY <1>2, <3>1, <3>2
    <3> HIDE DEF n, next
    <3>4. \A a \in 1 .. n : a # 1 /\ hull[k] = points[a] =>
            \E b \in 1 .. n : a # b /\ hull[k] = points[a] /\ hull[next] = points[b]
      BY <3>1, <3>3
    <3>5. 2 \in 1 .. n /\ 2 # 1
      BY <3>1
    <3> QED BY <3>3, <3>4, <3>5
  <2>4. k < n \/ (k >= n /\ k < 2 * n - 2) \/ k = 2 * n - 2
    <3> DEFINE l == Len(hull)
    <3>1. n \in Nat /\ n >= 5 /\ l = 2 * n - 2 /\ k \in 1 .. l
      BY <1>1
    <3> HIDE DEF n, l
    <3> QED BY <3>1
  <2> HIDE DEF n, next
  <2> QED BY <2>1, <2>2, <2>3, <2>4
<1>4. PICK a \in 1 .. n, b \in 1 .. n : a # b /\ hull[k] = points[a] /\ hull[next] = points[b]
  BY <1>3
<1>5. points[a] # points[b] /\ points[a] \in Int \X Int /\ points[b] \in Int \X Int
  <2>1. points[a] # points[b]
    <3>1. \A j \in 1 .. n, l \in 1 .. n : j # l => points[j] # points[l]
      BY DEF Fitting
    <3> HIDE DEF n
    <3> QED BY <1>4, <3>1
  <2>2. points \in [1 .. n -> Int \X Int]
    BY <1>1
  <2> HIDE DEF n
  <2> QED BY <2>1, <2>2
<1>6. Fit!Edge(k) = <<hull[next][1] - hull[k][1], hull[next][2] - hull[k][2]>>
  BY DEF Fit!Edge
<1> HIDE DEF next, n
<1>7. \A p \in Int \X Int, q \in Int \X Int : p # q =>
        /\ <<q[1] - p[1], q[2] - p[2]>> \in Int \X Int
        /\ <<q[1] - p[1], q[2] - p[2]>> # <<0, 0>>
  <2>1. SUFFICES ASSUME NEW p \in Int \X Int, NEW q \in Int \X Int, p # q
                 PROVE  q[1] - p[1] \in Int /\ q[2] - p[2] \in Int
                        /\ (q[1] - p[1] # 0 \/ q[2] - p[2] # 0)
    OBVIOUS
  <2>2. p[1] \in Int /\ p[2] \in Int /\ q[1] \in Int /\ q[2] \in Int
        /\ (p[1] # q[1] \/ p[2] # q[2])
    <3>1. p = <<p[1], p[2]>> /\ q = <<q[1], q[2]>>
      OBVIOUS
    <3> QED BY <2>1, <3>1
  <2> QED BY <2>2
<1> QED BY <1>4, <1>5, <1>6, <1>7

(* Calculate_Process finds the ring as the last cluster has left it.        *)
LEMMA FitInit ==
  Fit!Init => FitInv
<1> SUFFICES ASSUME Fit!Init PROVE FitInv
  OBVIOUS
<1>1. corners \in CornersType
  BY DEF Fit!Init, Fit!NoCorners, CornersType
<1>2. box \in BoxType /\ box.minX <= box.maxX /\ box.minY <= box.maxY
  BY DEF Fit!Init, Fit!NoBox, BoxType
<1> QED BY <1>1, <1>2 DEF Fit!Init, FitInv

(* It sorts the points; the ring is empty.                                  *)
LEMMA FitBegin ==
  ASSUME FitInv, NEW P \in Clusters, P \subseteq Int \X Int, IsFiniteSet(P),
         Cardinality(P) >= 5, Fit!Begin(P)
  PROVE  FitInv'
<1> DEFINE n == Cardinality(P)
           s == Fit!Sorted(P)
<1>1. n \in Nat /\ n >= 5
  BY FS_CardinalityType
<1>2. /\ s \in Seq(P) /\ Len(s) = n
      /\ \A p \in P : \E k \in 1 .. n : s[k] = p
      /\ \A j \in 1 .. n, k \in 1 .. n : j # k => s[j] # s[k]
  BY SortedEnumerates
<1> HIDE DEF n, s
<1>3. points' = s /\ fit_pc' = "lower" /\ i' = 1 /\ hull' = << >> /\ HullSize' = 0
      /\ lower_size' = 0 /\ edge' = <<0, 0>> /\ box' = Fit!NoBox /\ corners' = Fit!NoCorners
  BY DEF Fit!Begin, s
<1>4. Fit!ToSet(s) = P
  BY <1>1, <1>2 DEF Fit!ToSet
<1>5. s \in Seq(Int \X Int)
  BY <1>2
<1>6. corners' \in CornersType
  BY <1>3 DEF Fit!NoCorners, CornersType
<1>7. box' \in BoxType /\ box'.minX <= box'.maxX /\ box'.minY <= box'.maxY
  BY <1>3 DEF Fit!NoBox, BoxType
<1>8. Fitting'
  <2>1. Fit!ToSet(points)' \in Clusters
    BY <1>3, <1>4 DEF Fit!ToSet
  <2>2. i' \in 1 .. Len(points') + 1 /\ Len(hull') = i' - 1
    BY <1>1, <1>2, <1>3
  <2> QED BY <1>1, <1>2, <1>3, <2>1, <2>2 DEF Fitting
<1> QED BY <1>3, <1>5, <1>6, <1>7, <1>8 DEF FitInv

(* The ring grows to the right.                                             *)
LEMMA FitLower ==
  ASSUME FitInv, Fit!Lower
  PROVE  FitInv'
<1> DEFINE n == Len(points)
<1>1. hull' = Append(hull, points[i]) /\ i' = i + 1 /\ i <= n /\ fit_pc = "lower"
      /\ UNCHANGED <<fit_pc, points, HullSize, lower_size, edge, box, corners>>
  BY NothingDropped DEF Fit!Lower
<1>2. Fitting /\ n \in Nat /\ n >= 5 /\ points \in Seq(Int \X Int) /\ hull \in Seq(Int \X Int)
  BY <1>1 DEF FitInv, Fitting
<1>3. i \in 1 .. n /\ Len(hull) = i - 1
  BY <1>1, <1>2 DEF Fitting
<1>4. points[i] \in Int \X Int /\ Ring(i) = points[i]
  BY <1>2, <1>3 DEF Ring
<1>5. hull' \in Seq(Int \X Int) /\ Len(hull') = i /\ \A k \in 1 .. i : hull'[k] = Ring(k)
  <2>1. Len(hull') = i /\ hull' \in Seq(Int \X Int) /\ hull'[i] = points[i]
    BY <1>1, <1>2, <1>3, <1>4
  <2>2. \A k \in 1 .. i - 1 : hull'[k] = hull[k]
    BY <1>1, <1>2, <1>3, <1>4
  <2>3. \A k \in 1 .. i - 1 : hull[k] = Ring(k)
    BY <1>2, <1>3 DEF Fitting
  <2> QED BY <1>3, <1>4, <2>1, <2>2, <2>3
<1>6. Fitting'
  <2>1. Fit!ToSet(points)' \in Clusters
    BY <1>1, <1>2 DEF Fitting, Fit!ToSet
  <2>2. i' \in 1 .. Len(points') + 1 /\ Len(hull') = i' - 1 /\ fit_pc' = "lower"
    BY <1>1, <1>3, <1>5
  <2>3. \A k \in 1 .. Len(hull') : hull'[k] = Ring(k)'
    BY <1>1, <1>5 DEF Ring
  <2>4. Len(points') >= 5
        /\ \A j \in 1 .. Len(points'), k \in 1 .. Len(points') : j # k => points'[j] # points'[k]
    BY <1>1, <1>2 DEF Fitting
  <2> QED BY <2>1, <2>2, <2>3, <2>4 DEF Fitting
<1> QED BY <1>1, <1>2, <1>5, <1>6 DEF FitInv

(* It turns round at the last point.                                        *)
LEMMA FitLowerDone ==
  ASSUME FitInv, Fit!LowerDone
  PROVE  FitInv'
<1> DEFINE n == Len(points)
<1>1. fit_pc = "lower" /\ i > n /\ lower_size' = HullSize /\ i' = n - 1 /\ fit_pc' = "upper"
      /\ UNCHANGED <<points, hull, HullSize, edge, box, corners>>
  BY DEF Fit!LowerDone
<1>2. Fitting /\ n \in Nat /\ n >= 5 /\ points \in Seq(Int \X Int) /\ hull \in Seq(Int \X Int)
  BY <1>1 DEF FitInv, Fitting
<1>3. i = n + 1 /\ Len(hull) = n
  BY <1>1, <1>2 DEF Fitting
<1>4. Fitting'
  <2>1. Fit!ToSet(points)' \in Clusters
    BY <1>1, <1>2 DEF Fitting, Fit!ToSet
  <2>2. i' \in 0 .. Len(points') - 1 /\ Len(hull') = 2 * Len(points') - 1 - i'
    BY <1>1, <1>2, <1>3
  <2>3. \A k \in 1 .. Len(hull') : hull'[k] = Ring(k)'
    BY <1>1, <1>2 DEF Ring, Fitting
  <2>4. Len(points') >= 5
        /\ \A j \in 1 .. Len(points'), k \in 1 .. Len(points') : j # k => points'[j] # points'[k]
    BY <1>1, <1>2 DEF Fitting
  <2> QED BY <1>1, <2>1, <2>2, <2>3, <2>4 DEF Fitting
<1> QED BY <1>1, <1>2, <1>4 DEF FitInv

(* And comes back to the first.                                             *)
LEMMA FitUpper ==
  ASSUME FitInv, Fit!Upper
  PROVE  FitInv'
<1> DEFINE n == Len(points)
           m == Len(hull)
<1>1. hull' = Append(hull, points[i]) /\ i' = i - 1 /\ i >= 1 /\ fit_pc = "upper"
      /\ UNCHANGED <<fit_pc, points, HullSize, lower_size, edge, box, corners>>
  BY NothingDropped DEF Fit!Upper
<1>2. Fitting /\ n \in Nat /\ n >= 5 /\ points \in Seq(Int \X Int) /\ hull \in Seq(Int \X Int)
  BY <1>1 DEF FitInv, Fitting
<1>3. i \in 1 .. n - 1 /\ m = 2 * n - 1 - i /\ m \in Nat
  BY <1>1, <1>2 DEF Fitting
<1>4. points[i] \in Int \X Int /\ Ring(m + 1) = points[i]
  <2>1. m + 1 > n /\ 2 * n - (m + 1) = i /\ i \in 1 .. n
    BY <1>2, <1>3
  <2>2. Ring(m + 1) = points[2 * n - (m + 1)]
    <3> HIDE DEF m
    <3>1. ~(m + 1 <= n)
      BY <1>2, <1>3, <2>1
    <3> QED BY <3>1 DEF Ring
  <2>3. points[i] \in Int \X Int
    <3>1. points \in [1 .. n -> Int \X Int]
      BY <1>2
    <3> HIDE DEF n
    <3> QED BY <2>1, <3>1
  <2> HIDE DEF n, m
  <2> QED BY <2>1, <2>2, <2>3
<1>5. hull' \in Seq(Int \X Int) /\ Len(hull') = m + 1 /\ \A k \in 1 .. m + 1 : hull'[k] = Ring(k)
  <2>1. Len(hull') = m + 1 /\ hull' \in Seq(Int \X Int) /\ hull'[m + 1] = points[i]
    BY <1>1, <1>2, <1>4
  <2>2. \A k \in 1 .. m : hull'[k] = hull[k]
    BY <1>1, <1>2, <1>4
  <2>3. \A k \in 1 .. m : hull[k] = Ring(k)
    BY <1>2 DEF Fitting
  <2> HIDE DEF m
  <2>4. ASSUME NEW k \in 1 .. m + 1 PROVE hull'[k] = Ring(k)
    <3>1. CASE k = m + 1
      BY <1>4, <2>1, <3>1
    <3>2. CASE k # m + 1
      <4>1. k \in 1 .. m
        BY <1>3, <3>2
      <4> QED BY <2>2, <2>3, <4>1
    <3> QED BY <3>1, <3>2
  <2> QED BY <2>1, <2>4
<1>6. Fitting'
  <2>1. Fit!ToSet(points)' \in Clusters
    BY <1>1, <1>2 DEF Fitting, Fit!ToSet
  <2>2. i' \in 0 .. Len(points') - 1 /\ Len(hull') = 2 * Len(points') - 1 - i' /\ fit_pc' = "upper"
    BY <1>1, <1>2, <1>3, <1>5
  <2>3. \A k \in 1 .. Len(hull') : hull'[k] = Ring(k)'
    BY <1>1, <1>5 DEF Ring
  <2>4. Len(points') >= 5
        /\ \A j \in 1 .. Len(points'), k \in 1 .. Len(points') : j # k => points'[j] # points'[k]
    BY <1>1, <1>2 DEF Fitting
  <2> QED BY <2>1, <2>2, <2>3, <2>4 DEF Fitting
<1> QED BY <1>1, <1>2, <1>5, <1>6 DEF FitInv

(* The first point, which has come in twice, is taken off the end.          *)
LEMMA FitUpperDone ==
  ASSUME FitInv, Fit!UpperDone
  PROVE  FitInv'
<1> DEFINE n == Len(points)
<1>1. fit_pc = "upper" /\ i < 1 /\ hull' = Fit!Front(hull) /\ i' = 1 /\ fit_pc' = "fit"
      /\ UNCHANGED <<points, HullSize, lower_size, edge, box, corners>>
  BY DEF Fit!UpperDone
<1>2. Fitting /\ n \in Nat /\ n >= 5 /\ points \in Seq(Int \X Int) /\ hull \in Seq(Int \X Int)
  BY <1>1 DEF FitInv, Fitting
<1>3. i = 0 /\ Len(hull) = 2 * n - 1
  <2>1. i \in 0 .. n - 1 /\ Len(hull) = 2 * n - 1 - i
    BY <1>1, <1>2 DEF Fitting
  <2> QED BY <1>1, <1>2, <2>1
<1>4. hull' \in Seq(Int \X Int) /\ Len(hull') = 2 * n - 2
      /\ \A k \in 1 .. Len(hull') : hull'[k] = hull[k]
  <2> DEFINE m == Len(hull) - 1
  <2>1. hull' = SubSeq(hull, 1, m)
    BY <1>1 DEF Fit!Front
  <2>2. m \in 1 .. Len(hull) /\ m = 2 * n - 2
    <3> DEFINE l == Len(hull)
    <3>1. n \in Nat /\ n >= 5 /\ l = 2 * n - 1 /\ m = l - 1
      BY <1>2, <1>3
    <3> HIDE DEF n, m, l
    <3>2. m \in 1 .. l /\ m = 2 * n - 2
      BY <3>1
    <3> QED BY <3>2 DEF l
  <2> HIDE DEF m
  <2>3. hull' = [k \in 1 .. m |-> hull[k]]
    BY <2>1, <2>2
  <2>4. \A k \in 1 .. m : hull[k] \in Int \X Int
    <3> DEFINE l == Len(hull)
    <3>1. hull \in [1 .. l -> Int \X Int] /\ l \in Nat
      BY <1>2
    <3>2. m \in 1 .. l
      BY <2>2
    <3> HIDE DEF l
    <3> QED BY <3>1, <3>2
  <2>5. hull' \in Seq(Int \X Int) /\ Len(hull') = m
    BY <2>2, <2>3, <2>4
  <2> QED BY <2>2, <2>3, <2>5
<1>5. Fitting'
  <2>1. Fit!ToSet(points)' \in Clusters
    BY <1>1, <1>2 DEF Fitting, Fit!ToSet
  <2>2. i' \in 1 .. Len(hull') + 1 /\ Len(hull') = 2 * Len(points') - 2 /\ ~(i' > 1)
    BY <1>1, <1>2, <1>4
  <2>3. \A k \in 1 .. Len(hull') : hull'[k] = Ring(k)'
    <3>1. \A k \in 1 .. Len(hull') : k \in 1 .. Len(hull)
      BY <1>2, <1>3, <1>4
    <3> QED BY <1>1, <1>2, <1>4, <3>1 DEF Ring, Fitting
  <2>4. Len(points') >= 5
        /\ \A j \in 1 .. Len(points'), k \in 1 .. Len(points') : j # k => points'[j] # points'[k]
    BY <1>1, <1>2 DEF Fitting
  <2> QED BY <1>1, <2>1, <2>2, <2>3, <2>4 DEF Fitting
<1> QED BY <1>1, <1>2, <1>4, <1>5 DEF FitInv

(* An edge is scored; the box kept is that of the edge kept.                *)
LEMMA FitFit ==
  ASSUME FitInv, Fit!Fit
  PROVE  FitInv'
<1> DEFINE n == Len(points)
<1>1. fit_pc = "fit" /\ i <= Len(hull) /\ i' = i + 1 /\ fit_pc' = "fit"
      /\ UNCHANGED <<points, hull, HullSize, lower_size, corners>>
      /\ ((edge' = Fit!Edge(i) /\ box' = Fit!Extent(Fit!Edge(i))) \/ (i > 1 /\ UNCHANGED <<edge, box>>))
  BY DEF Fit!Fit
<1>2. Fitting /\ n \in Nat /\ n >= 5 /\ points \in Seq(Int \X Int) /\ hull \in Seq(Int \X Int)
  BY <1>1 DEF FitInv, Fitting
<1>3. i \in 1 .. Len(hull) /\ Len(hull) = 2 * n - 2
  BY <1>1, <1>2 DEF Fitting
<1>4. /\ edge' \in Int \X Int /\ edge' # <<0, 0>> /\ box' = Fit!Extent(edge')
      /\ box' \in BoxType /\ box'.minX <= box'.maxX /\ box'.minY <= box'.maxY
  <2>1. CASE edge' = Fit!Edge(i) /\ box' = Fit!Extent(Fit!Edge(i))
    <3>1. edge' \in Int \X Int /\ edge' # <<0, 0>>
      BY <1>1, <1>2, <1>3, <2>1, EdgeHasLength
    <3>2. n >= 1
      BY <1>2
    <3>3. edge' \in Int \X Int => /\ Fit!Extent(edge') \in BoxType
                                  /\ Fit!Extent(edge').minX <= Fit!Extent(edge').maxX
                                  /\ Fit!Extent(edge').minY <= Fit!Extent(edge').maxY
      BY <1>2, <3>2, ExtentCovers
    <3> QED BY <2>1, <3>1, <3>3
  <2>2. CASE i > 1 /\ UNCHANGED <<edge, box>>
    <3>1. edge # <<0, 0>> /\ box = Fit!Extent(edge)
      BY <1>1, <1>2, <2>2 DEF Fitting
    <3> QED BY <2>2, <3>1 DEF FitInv
  <2> QED BY <1>1, <2>1, <2>2
<1>5. Fit!Extent(edge)' = Fit!Extent(edge')
  BY <1>1 DEF Fit!Extent, Fit!ToSet
<1>6. Fitting'
  <2>1. Fit!ToSet(points)' \in Clusters
    BY <1>1, <1>2 DEF Fitting, Fit!ToSet
  <2>2. i' \in 1 .. Len(hull') + 1 /\ Len(hull') = 2 * Len(points') - 2
    BY <1>1, <1>2, <1>3
  <2>3. \A k \in 1 .. Len(hull') : hull'[k] = Ring(k)'
    BY <1>1, <1>2 DEF Ring, Fitting
  <2>4. Len(points') >= 5
        /\ \A j \in 1 .. Len(points'), k \in 1 .. Len(points') : j # k => points'[j] # points'[k]
    BY <1>1, <1>2 DEF Fitting
  <2> QED BY <1>1, <1>4, <1>5, <2>1, <2>2, <2>3, <2>4 DEF Fitting
<1> QED BY <1>1, <1>2, <1>4, <1>6 DEF FitInv

(* The corners are those of the box, or stay at the origin.                 *)
LEMMA FitDone ==
  ASSUME FitInv, Fit!Done
  PROVE  FitInv' /\ edge \in Int \X Int /\ box \in BoxType /\ corners' \in CornersType
<1> DEFINE n == Len(points)
<1>1. fit_pc = "fit" /\ i > Len(hull) /\ fit_pc' = "idle"
      /\ UNCHANGED <<points, i, hull, HullSize, lower_size, edge, box>>
      /\ corners' = IF Fit!LongAndThin THEN Fit!NoCorners ELSE Fit!Turned
  BY DEF Fit!Done
<1>2. Fitting /\ n \in Nat /\ n >= 5 /\ points \in Seq(Int \X Int) /\ hull \in Seq(Int \X Int)
      /\ edge \in Int \X Int /\ box \in BoxType
  BY <1>1 DEF FitInv, Fitting
<1>3. i = Len(hull) + 1 /\ Len(hull) = 2 * n - 2 /\ i > 1
  <2> DEFINE l == Len(hull)
  <2>1. i \in 1 .. l + 1 /\ l = 2 * n - 2
    BY <1>1, <1>2 DEF Fitting
  <2>2. n \in Nat /\ n >= 5 /\ i > l
    BY <1>1, <1>2
  <2> HIDE DEF n, l
  <2>3. i = l + 1 /\ l = 2 * n - 2 /\ i > 1
    BY <2>1, <2>2
  <2> QED BY <2>3 DEF l
<1>4. edge # <<0, 0>> /\ box = Fit!Extent(edge)
  BY <1>1, <1>2, <1>3 DEF Fitting
<1>5. corners' \in CornersType
  <2>1. Fit!NoCorners \in CornersType
    BY DEF Fit!NoCorners, CornersType
  <2> QED BY <1>1, <1>2, <1>4, <2>1, TurnedType
<1>6. Fit!Extent(edge)' = Fit!Extent(edge)
  BY <1>1 DEF Fit!Extent, Fit!ToSet
<1>7. Fitting'
  <2>1. Fit!ToSet(points)' \in Clusters
    BY <1>1, <1>2 DEF Fitting, Fit!ToSet
  <2>2. i' = Len(hull') + 1 /\ Len(hull') = 2 * Len(points') - 2
    BY <1>1, <1>3
  <2>3. \A k \in 1 .. Len(hull') : hull'[k] = Ring(k)'
    BY <1>1, <1>2 DEF Ring, Fitting
  <2>4. Len(points') >= 5
        /\ \A j \in 1 .. Len(points'), k \in 1 .. Len(points') : j # k => points'[j] # points'[k]
    BY <1>1, <1>2 DEF Fitting
  <2> QED BY <1>1, <1>4, <1>6, <2>1, <2>2, <2>3, <2>4 DEF Fitting
<1> QED BY <1>1, <1>2, <1>5, <1>7 DEF FitInv

(* Nothing but the fit touches its state.                                   *)
LEMMA FitStutter ==
  ASSUME FitInv, UNCHANGED fit_vars
  PROVE  FitInv'
<1>1. fit_pc' = fit_pc /\ points' = points /\ i' = i /\ hull' = hull /\ HullSize' = HullSize
      /\ lower_size' = lower_size /\ edge' = edge /\ box' = box /\ corners' = corners
  BY DEF fit_vars
<1>2. \A k : Ring(k)' = Ring(k)
  BY <1>1 DEF Ring
<1>3. Fit!Extent(edge)' = Fit!Extent(edge) /\ Fit!ToSet(points)' = Fit!ToSet(points)
  BY <1>1 DEF Fit!Extent, Fit!ToSet
<1>4. Fitting => Fitting'
  BY <1>1, <1>2, <1>3 DEF Fitting
<1> QED BY <1>1, <1>4 DEF FitInv

(* All but the points that are looked for is in the invariant: every point  *)
(* is on the ring, so no corner is missing.                                 *)
LEMMA FitRingServes ==
  ASSUME FitInv
  PROVE  RingServes
<1> DEFINE n == Len(points)
<1> SUFFICES ASSUME fit_pc = "fit" PROVE RingServes
  BY DEF RingServes, Fit!RingServes, Fit!CornersKept, Fit!EveryEdgeHasAnAngle
<1>1. Fitting /\ n \in Nat /\ n >= 5 /\ Len(hull) = 2 * n - 2 /\ hull \in Seq(Int \X Int)
  BY DEF FitInv, Fitting
<1>2. ASSUME NEW p \in Fit!ToSet(points) PROVE p \in Fit!ToSet(hull)
  <2>1. PICK k \in 1 .. n : p = points[k]
    <3>1. points \in [1 .. n -> Int \X Int]
      BY DEF FitInv
    <3> HIDE DEF n
    <3> QED BY <3>1 DEF Fit!ToSet
  <2>2. k \in 1 .. Len(hull) /\ k <= Len(points)
    <3> DEFINE l == Len(hull)
    <3>1. l = 2 * n - 2
      BY <1>1
    <3> HIDE DEF l
    <3>2. k \in 1 .. l
      BY <1>1, <3>1
    <3> QED BY <3>2 DEF l
  <2>3. hull[k] = points[k]
    BY <1>1, <2>2 DEF Fitting, Ring
  <2>4. p = hull[k] /\ k \in DOMAIN hull
    BY <1>1, <2>1, <2>2, <2>3
  <2> QED BY <2>4 DEF Fit!ToSet
<1>3. Fit!CornersKept
  BY <1>2 DEF Fit!CornersKept
<1>4. Fit!EveryEdgeHasAnAngle
  <2>1. DOMAIN hull = 1 .. Len(hull)
    BY <1>1
  <2> QED BY <1>1, <2>1, EdgeHasLength, Zenon DEF Fit!EveryEdgeHasAnAngle
<1> QED BY <1>3, <1>4 DEF RingServes, Fit!RingServes

(* The box is the extent of all points at the angle kept with it.           *)
LEMMA FitBoxCovers ==
  ASSUME FitInv
  PROVE  BoxCovers
<1> SUFFICES ASSUME fit_pc = "idle" PROVE BoxCovers
  BY DEF BoxCovers, Fit!BoxCovers
<1>1. CASE Fitting
  <2>1. points \in Seq(Int \X Int) /\ Len(points) >= 1 /\ edge \in Int \X Int
        /\ box = Fit!Extent(edge)
    BY <1>1 DEF FitInv, Fitting
  <2> QED BY <2>1, ExtentCovers DEF BoxCovers, Fit!BoxCovers
<1>2. CASE points = << >>
  <2>1. Fit!ToSet(points) = {}
    BY <1>2 DEF Fit!ToSet
  <2> QED BY <2>1 DEF BoxCovers, Fit!BoxCovers
<1> QED BY <1>1, <1>2 DEF FitInv

(* Types follow from the invariant.                                         *)
LEMMA FitTypeOK ==
  ASSUME FitInv
  PROVE  Fit!TypeOK
<1> DEFINE n == Len(points)
<1>1. n \in Nat
  BY DEF FitInv
<1>2. CASE Fitting
  <2>1. n >= 5
    BY <1>2 DEF Fitting
  <2>2. i \in 0 .. 2 * n + 1
    <3>1. CASE fit_pc = "lower"
      BY <1>1, <1>2, <2>1, <3>1 DEF Fitting
    <3>2. CASE fit_pc = "upper"
      BY <1>1, <1>2, <2>1, <3>2 DEF Fitting
    <3>3. CASE fit_pc \in {"fit", "idle"}
      <4>1. Len(hull) = 2 * n - 2 /\ i \in 1 .. Len(hull) + 1
        BY <1>1, <1>2, <2>1, <3>3 DEF Fitting
      <4> QED BY <1>1, <4>1
    <3> QED BY <3>1, <3>2, <3>3 DEF FitInv
  <2> QED BY <1>1, <1>2, <2>2 DEF FitInv, Fitting, Fit!TypeOK, CornersType
<1>3. CASE points = << >> /\ i = 1
  BY <1>3 DEF FitInv, Fit!TypeOK, CornersType
<1> QED BY <1>2, <1>3 DEF FitInv

----------------------------------------------------------------------------
(* The costmap (Costmap.cpp).                                               *)

Cost == {Grid!unknown_cost, Grid!free_cost, Grid!obstacle_cost}

\* A costmap of some scan, or none yet.
IsMap(m) == DOMAIN m \in {{}, 0 .. Grid!Size - 1} /\ \A c \in DOMAIN m : m[c] \in Cost

(* The types of the grid, map by map.                                       *)
LEMMA GridTypes ==
  Grid!TypeOK <=> /\ map_pc \in {"scan", "draw"}
                  /\ done \in 0 .. Len(clusters)
                  /\ IsMap(data) /\ IsMap(msg)
BY DEF Grid!TypeOK, IsMap, Cost

(* A cell of an obstacle keeps the cost of an obstacle (fillCostAtIndex).   *)
LEMMA ObstacleStays ==
  ASSUME NEW x \in Cost
  PROVE  Grid!MaxOf({x, Grid!obstacle_cost}) = Grid!obstacle_cost
<1>1. x \in Int /\ x <= 100
  BY DEF Cost, Grid!unknown_cost, Grid!free_cost, Grid!obstacle_cost
<1>2. \A y \in {x, 100} : (\A z \in {x, 100} : z <= y) <=> y = 100
  BY <1>1
<1> QED BY <1>2 DEF Grid!MaxOf, Grid!obstacle_cost

(* Moving the corners to base_link keeps their denominator.                 *)
LEMMA ToBaselinkType ==
  ASSUME NEW c \in CornersType
  PROVE  ToBaselink(c) \in CornersType
<1> DEFINE moved == [k \in DOMAIN c.at |->
             <<c.at[k][1] + Mount[1] * c.den, c.at[k][2] + Mount[2] * c.den>>]
<1>1. c.at \in Seq(Int \X Int) /\ c.den \in Nat \ {0}
      /\ ToBaselink(c) = [at |-> moved, den |-> c.den]
  <2>1. c.at \in Seq(Int \X Int) /\ c.den \in Nat \ {0} /\ c = [at |-> c.at, den |-> c.den]
    BY DEF CornersType
  <2>2. ToBaselink(c) = [c EXCEPT !.at = moved]
    BY DEF ToBaselink
  <2> HIDE DEF moved
  <2>3. \A a, d, m : [[at |-> a, den |-> d] EXCEPT !.at = m] = [at |-> m, den |-> d]
    OBVIOUS
  <2> QED BY <2>1, <2>2, <2>3
<1>2. moved \in Seq(Int \X Int)
  <2> DEFINE n == Len(c.at)
             mx == Mount[1] * c.den
             my == Mount[2] * c.den
  <2>1. n \in Nat /\ c.at \in [1 .. n -> Int \X Int] /\ DOMAIN c.at = 1 .. n
    BY <1>1
  <2>2. Mount[1] \in Int /\ Mount[2] \in Int
    BY LengthsAssumption
  <2>3. mx \in Int /\ my \in Int
    BY <1>1, <2>2
  <2> DEFINE at(k) == <<c.at[k][1] + mx, c.at[k][2] + my>>
  <2>4. moved = [k \in 1 .. n |-> at(k)]
    BY <2>1
  <2> HIDE DEF n, mx, my, moved
  <2>5. ASSUME NEW k \in 1 .. n PROVE at(k) \in Int \X Int
    <3>1. c.at[k] \in Int \X Int
      BY <2>1
    <3>2. c.at[k][1] \in Int /\ c.at[k][2] \in Int
      BY <3>1
    <3> QED BY <2>3, <3>2
  <2> HIDE DEF at
  <2>6. moved \in [1 .. n -> Int \X Int]
    BY <2>4, <2>5
  <2> QED BY <2>1, <2>6
<1> HIDE DEF moved
<1> QED BY <1>1, <1>2 DEF CornersType

(* Costmap has drawn nothing yet.                                           *)
LEMMA GridInit ==
  Grid!Init => GridInv
<1> SUFFICES ASSUME Grid!Init PROVE GridInv
  OBVIOUS
<1>1. IsMap(data) /\ IsMap(msg) /\ clusters = << >> /\ done = 0 /\ map_pc = "scan"
  BY DEF Grid!Init, IsMap
<1> QED BY <1>1, GridTypes DEF GridInv

(* initializeCostmap makes a map of all cells.                              *)
LEMMA GridInitialize ==
  ASSUME GridInv, NEW cs \in Seq(CornersType), Grid!Initialize(cs)
  PROVE  GridInv'
<1>1. IsMap(Grid!Blank)
  BY DEF Grid!Blank, IsMap, Cost
<1>2. IsMap(msg)
  BY GridTypes DEF GridInv
<1>3. map_pc' = "draw" /\ clusters' = cs /\ done' = 0 /\ data' = Grid!Blank /\ msg' = msg
  BY DEF Grid!Initialize
<1>4. IsMap(data)' /\ IsMap(msg)'
  BY <1>1, <1>2, <1>3 DEF IsMap
<1>5. Grid!TypeOK'
  <2>1. done' \in 0 .. Len(clusters')
    BY <1>3
  <2> QED BY <1>3, <1>4, <2>1 DEF Grid!TypeOK, IsMap, Cost
<1> QED BY <1>3, <1>5 DEF GridInv

(* fillLShapePolygon writes costs of obstacles only.                        *)
LEMMA GridFill ==
  ASSUME GridInv, Grid!Fill
  PROVE  GridInv'
<1>1. PICK cells : data' = [c \in DOMAIN data |->
        IF c \in cells THEN Grid!MaxOf({data[c], Grid!obstacle_cost}) ELSE data[c]]
  BY DEF Grid!Fill
<1>2. map_pc = "draw" /\ done < Len(clusters) /\ done' = done + 1
      /\ UNCHANGED <<map_pc, clusters, msg>>
  BY DEF Grid!Fill
<1>3. IsMap(data) /\ IsMap(msg) /\ done \in 0 .. Len(clusters) /\ clusters \in Seq(CornersType)
  BY GridTypes DEF GridInv
<1>4. IsMap(data)' /\ IsMap(msg)'
  <2>1. DOMAIN data' = DOMAIN data
    BY <1>1
  <2>2. \A c \in DOMAIN data : data'[c] \in {data[c], Grid!MaxOf({data[c], Grid!obstacle_cost})}
    BY <1>1
  <2>3. \A c \in DOMAIN data : data'[c] \in Cost
    BY <1>3, <2>2, ObstacleStays DEF IsMap, Cost
  <2> QED BY <1>2, <1>3, <2>1, <2>3 DEF IsMap
<1>5. done' \in 0 .. Len(clusters')
  BY <1>2, <1>3
<1>6. Grid!TypeOK'
  BY <1>2, <1>4, <1>5 DEF Grid!TypeOK, IsMap, Cost
<1> QED BY <1>2, <1>3, <1>6 DEF GridInv

(* The map is published as it is.                                           *)
LEMMA GridPublish ==
  ASSUME GridInv, Grid!Publish
  PROVE  GridInv'
<1>1. msg' = data /\ map_pc' = "scan" /\ UNCHANGED <<clusters, done, data>>
  BY DEF Grid!Publish
<1>2. IsMap(data) /\ done \in 0 .. Len(clusters) /\ clusters \in Seq(CornersType)
  BY GridTypes DEF GridInv
<1>3. Grid!TypeOK'
  BY <1>1, <1>2 DEF Grid!TypeOK, IsMap, Cost
<1> QED BY <1>1, <1>2, <1>3 DEF GridInv

(* Nothing but these touches the costmap.                                   *)
LEMMA GridStutter ==
  ASSUME GridInv, UNCHANGED map_vars
  PROVE  GridInv'
BY DEF GridInv, Grid!TypeOK, map_vars

----------------------------------------------------------------------------
(* The two nodes.                                                           *)

(* What Euclidean returns are clusters of enough points.                    *)
LEMMA ClusterOfScan ==
  ASSUME NEW r \in Recordings, NEW s \in 1 .. Len(r), NEW c \in 1 .. Len(r[s])
  PROVE  /\ r[s][c] \in Clusters /\ r[s][c] \subseteq Int \X Int
         /\ IsFiniteSet(r[s][c]) /\ Cardinality(r[s][c]) >= 5
<1>1. r \in Seq(Seq(SUBSET (Int \X Int)))
  BY RecordingsAssumption
<1>2. s \in DOMAIN r /\ r[s] \in Seq(SUBSET (Int \X Int))
  BY <1>1
<1>3. c \in DOMAIN r[s] /\ r[s][c] \in SUBSET (Int \X Int)
  BY <1>2
<1>4. IsFiniteSet(r[s][c]) /\ Cardinality(r[s][c]) >= 5
  BY <1>2, <1>3, RecordingsAssumption
<1>5. r[s][c] \in Clusters
  BY <1>2, <1>3 DEF Clusters
<1> QED BY <1>3, <1>4, <1>5

(* The initial states satisfy the invariant.                                *)
LEMMA InitInv ==
  Init => IInv
<1> SUFFICES ASSUME Init PROVE IInv
  OBVIOUS
<1>1. FitInv /\ GridInv
  BY FitInit, GridInit DEF Init
<1>2. NodeInv
  <2>1. recording \in Seq(Seq(SUBSET (Int \X Int)))
    BY RecordingsAssumption DEF Init
  <2>2. 0 \in 0 .. Len(recording)
    BY <2>1
  <2> QED BY <2>1, <2>2 DEF Init, NodeInv
<1> QED BY <1>1, <1>2 DEF IInv

(* So does every step.                                                      *)
LEMMA StepInv ==
  IInv /\ [Next]_vars => IInv'
<1> SUFFICES ASSUME IInv, [Next]_vars PROVE IInv'
  OBVIOUS
<1>1. FitInv /\ GridInv /\ NodeInv
  BY DEF IInv
<1>2. recording \in Recordings /\ recording \in Seq(Seq(SUBSET (Int \X Int)))
      /\ Len(recording) \in Nat /\ scan \in 0 .. Len(recording) /\ plan.scan \in {scan, scan - 1}
  BY <1>1, RecordingsAssumption DEF NodeInv
<1>3. CASE NewScan
  <2>1. FitInv' /\ GridInv'
    BY <1>1, <1>3, FitStutter, GridStutter DEF NewScan
  <2>2. NodeInv'
    BY <1>1, <1>2, <1>3 DEF NewScan, NodeInv
  <2> QED BY <2>1, <2>2 DEF IInv
<1>4. CASE BeginCluster
  <2> DEFINE c == Len(boxes) + 1
  <2>1. scan \in 1 .. Len(recording) /\ c \in 1 .. Len(recording[scan])
    <3>1. scan >= 1 /\ Len(boxes) < Len(recording[scan]) /\ Len(boxes) \in Nat
      BY <1>1, <1>4 DEF BeginCluster, NodeInv
    <3>2. scan \in 1 .. Len(recording)
      BY <1>2, <3>1
    <3>3. recording[scan] \in Seq(SUBSET (Int \X Int))
      BY <1>2, <3>2
    <3> QED BY <3>1, <3>2, <3>3
  <2>2. Fit!Begin(recording[scan][c])
    BY <1>4 DEF BeginCluster
  <2> HIDE DEF c
  <2>3. FitInv'
    BY <1>1, <1>2, <2>1, <2>2, ClusterOfScan, FitBegin
  <2>4. GridInv'
    BY <1>1, <1>4, GridStutter DEF BeginCluster
  <2>5. NodeInv'
    BY <1>1, <1>4 DEF BeginCluster, NodeInv
  <2> QED BY <2>3, <2>4, <2>5 DEF IInv
<1>5. CASE FitCluster
  <2>1. FitInv'
    BY <1>1, <1>5, FitLower, FitLowerDone, FitUpper, FitUpperDone, FitFit DEF FitCluster, Fit!Step
  <2>2. GridInv'
    BY <1>1, <1>5, GridStutter DEF FitCluster
  <2>3. NodeInv'
    BY <1>1, <1>5 DEF FitCluster, NodeInv
  <2> QED BY <2>1, <2>2, <2>3 DEF IInv
<1>6. CASE EndCluster
  <2> DEFINE b == [edge |-> edge, box |-> box, corners |-> corners']
  <2>1. FitInv' /\ edge \in Int \X Int /\ box \in BoxType /\ corners' \in CornersType
    BY <1>1, <1>6, FitDone DEF EndCluster
  <2>2. GridInv'
    BY <1>1, <1>6, GridStutter DEF EndCluster
  <2>3. b \in [edge : Int \X Int, box : BoxType, corners : CornersType]
    BY <2>1
  <2>4. boxes' = Append(boxes, b) /\ UNCHANGED <<recording, scan, stage, plan>>
    BY <1>6 DEF EndCluster
  <2> HIDE DEF b
  <2>5. boxes' \in Seq([edge : Int \X Int, box : BoxType, corners : CornersType])
    BY <1>1, <2>3, <2>4 DEF NodeInv
  <2>6. NodeInv'
    BY <1>1, <2>4, <2>5 DEF NodeInv
  <2> QED BY <2>1, <2>2, <2>6 DEF IInv
<1>7. CASE DrawScan
  <2> DEFINE cs == [k \in DOMAIN boxes |-> ToBaselink(boxes[k].corners)]
             n == Len(boxes)
  <2>1. n \in Nat /\ DOMAIN boxes = 1 .. n
        /\ \A k \in 1 .. n : boxes[k].corners \in CornersType
    <3>1. boxes \in [1 .. n -> [edge : Int \X Int, box : BoxType, corners : CornersType]]
          /\ n \in Nat
      <4> DEFINE B == [edge : Int \X Int, box : BoxType, corners : CornersType]
      <4>1. boxes \in Seq(B)
        BY <1>1 DEF NodeInv
      <4> HIDE DEF B
      <4>2. boxes \in [1 .. n -> B] /\ n \in Nat
        BY <4>1
      <4> QED BY <4>2 DEF B
    <3> HIDE DEF n
    <3> QED BY <3>1
  <2>2. \A k \in 1 .. n : ToBaselink(boxes[k].corners) \in CornersType
    BY <2>1, ToBaselinkType
  <2>3. cs \in Seq(CornersType)
    <3> HIDE DEF n
    <3> QED BY <2>1, <2>2
  <2>4. Grid!Initialize(cs)
    BY <1>7 DEF DrawScan
  <2> HIDE DEF cs
  <2>5. GridInv'
    BY <1>1, <2>3, <2>4, GridInitialize
  <2>6. FitInv'
    BY <1>1, <1>7, FitStutter DEF DrawScan
  <2>7. NodeInv'
    BY <1>1, <1>7 DEF DrawScan, NodeInv
  <2> QED BY <2>5, <2>6, <2>7 DEF IInv
<1>8. CASE DrawCluster
  <2>1. FitInv' /\ GridInv'
    BY <1>1, <1>8, FitStutter, GridFill DEF DrawCluster
  <2>2. NodeInv'
    BY <1>1, <1>8 DEF DrawCluster, NodeInv
  <2> QED BY <2>1, <2>2 DEF IInv
<1>9. CASE PublishMap
  <2>1. FitInv' /\ GridInv'
    BY <1>1, <1>9, FitStutter, GridPublish DEF PublishMap
  <2>2. NodeInv'
    BY <1>1, <1>9 DEF PublishMap, NodeInv
  <2> QED BY <2>1, <2>2 DEF IInv
<1>10. CASE EvaluateAllCandidates
  <2>1. FitInv' /\ GridInv'
    BY <1>1, <1>10, FitStutter, GridStutter DEF EvaluateAllCandidates
  <2>2. PICK zone \in BOOLEAN, valid \in SUBSET Candidates :
          plan' = [scan |-> scan, zone |-> zone, valid |-> valid]
    BY <1>10 DEF EvaluateAllCandidates
  <2>3. plan' \in [scan : Nat, valid : SUBSET Candidates, zone : BOOLEAN] /\ plan'.scan = scan
    BY <1>2, <2>2
  <2>4. NodeInv'
    BY <1>1, <1>2, <1>10, <2>3 DEF EvaluateAllCandidates, NodeInv
  <2> QED BY <2>1, <2>4 DEF IInv
<1>11. CASE UNCHANGED vars
  <2>1. FitInv' /\ GridInv'
    BY <1>1, <1>11, FitStutter, GridStutter DEF vars
  <2>2. NodeInv'
    BY <1>1, <1>11 DEF vars, NodeInv
  <2> QED BY <2>1, <2>2 DEF IInv
<1> QED BY <1>3, <1>4, <1>5, <1>6, <1>7, <1>8, <1>9, <1>10, <1>11 DEF Next

----------------------------------------------------------------------------
(* The map and the scan.                                                    *)

\* b is about all of P, at the angle it has.
Covers(b, P) ==
  \A p \in P : /\ Fit!Along(p, b.edge) \in b.box.minX .. b.box.maxX
               /\ Fit!Across(p, b.edge) \in b.box.minY .. b.box.maxY

\* The first n boxes are drawn on m, and nothing else is.
Drawn(m, n) ==
  /\ DOMAIN m = 0 .. Grid!Size - 1
  /\ \A x \in DOMAIN m :
       m[x] = Grid!obstacle_cost <=>
         \E k \in 1 .. n : x \in Grid!Filled(ToBaselink(boxes[k].corners))

\* Once a scan is published, every cluster of it has a box that covers it.
ScanBoxed ==
  stage = "spin" /\ scan > 0 =>
    /\ Len(boxes) = Len(recording[scan])
    /\ \A k \in 1 .. Len(boxes) : Covers(boxes[k], recording[scan][k])

\* Cell g lies in the polygon with corners c, of base_link.
InPolygon(g, c) ==
  LET P == Grid!Polygon(c)
  IN  /\ \A a \in {1, 2} : \E j, k \in DOMAIN P : P[j][a] <= g[a] /\ g[a] <= P[k][a]
      /\ Grid!IsPointInPolygon(g[1], g[2], P)

(* A point of the map is lethal to the planner if and only if its cell is  *)
(* in the polygon of a box of this scan: however the boxes overlap, leave  *)
(* the map or lie about the vehicle, drawing, index and lookup, of two     *)
(* programs, lose none and add none, and none of the scan before is left   *)
(* (Costmap.cpp:190-331, 402-452, Util_Coordinates.cpp:76-151).            *)
BoxesShown ==
  stage = "spin" /\ plan.scan < scan =>
    \A p \in Looked :
      Grid!GetCostmapCost(p, 1) >= Grid!lethal_cost_threshold
        <=> \E k \in DOMAIN boxes :
              InPolygon(Grid!WorldToCostmap(p, 1), ToBaselink(boxes[k].corners))

\* On the way there, and to a map that shows the boxes.
ShownInv ==
  /\ \A k \in 1 .. Len(boxes) : Covers(boxes[k], recording[scan][k])
  /\ stage # "fit" => fit_pc = "idle"
  /\ map_pc = "draw" <=> stage = "draw"
  /\ stage = "fit" => Len(boxes) <= Len(recording[scan])
  /\ stage = "draw" \/ (stage = "spin" /\ scan > 0) => Len(boxes) = Len(recording[scan])
  /\ fit_pc # "idle" =>
       /\ Len(boxes) < Len(recording[scan])
       /\ Fit!ToSet(points) = recording[scan][Len(boxes) + 1]
  /\ stage = "draw" =>
       /\ clusters = [k \in DOMAIN boxes |-> ToBaselink(boxes[k].corners)]
       /\ Drawn(data, done)
  /\ stage = "spin" /\ scan > 0 => Drawn(msg, Len(boxes))

(* A blank map has no obstacle on it.                                       *)
LEMMA BlankDrawn ==
  ASSUME GridInv, NEW cs, Grid!Initialize(cs)
  PROVE  /\ DOMAIN data' = 0 .. Grid!Size - 1
         /\ \A x \in DOMAIN data' : data'[x] # Grid!obstacle_cost
  BY DEF Grid!Initialize, Grid!Blank, Grid!free_cost, Grid!unknown_cost, Grid!obstacle_cost

(* One cluster more is on the map after it is filled.                       *)
LEMMA FillDraws ==
  ASSUME GridInv, Grid!Fill
  PROVE  /\ DOMAIN data' = DOMAIN data /\ done + 1 \in 1 .. Len(clusters)
         /\ \A x \in DOMAIN data :
              data'[x] = Grid!obstacle_cost <=>
                data[x] = Grid!obstacle_cost \/ x \in Grid!Filled(clusters[done + 1])
<1> DEFINE cells == Grid!Filled(clusters[done + 1])
<1>1. data' = [x \in DOMAIN data |->
        IF x \in cells THEN Grid!MaxOf({data[x], Grid!obstacle_cost}) ELSE data[x]]
  BY DEF Grid!Fill
<1>2. done + 1 \in 1 .. Len(clusters)
  BY GridTypes DEF Grid!Fill, GridInv
<1> HIDE DEF cells
<1>3. \A x \in DOMAIN data : data[x] \in Cost
  BY GridTypes DEF GridInv, IsMap
<1>4. \A x \in DOMAIN data :
        data'[x] = IF x \in cells THEN Grid!obstacle_cost ELSE data[x]
  BY <1>1, <1>3, ObstacleStays
<1>5. DOMAIN data' = DOMAIN data
  BY <1>1
<1> QED
  BY <1>2, <1>4, <1>5 DEF cells

(* When a cluster is done its box is about all its points.                  *)
LEMMA DoneCovers ==
  ASSUME FitInv, Fit!Done
  PROVE  Covers([edge |-> edge, box |-> box, corners |-> corners'], Fit!ToSet(points))
<1> DEFINE b == [edge |-> edge, box |-> box, corners |-> corners']
<1>1. fit_pc = "fit" /\ i > Len(hull)
  BY DEF Fit!Done
<1>2. Fitting
  BY <1>1 DEF FitInv
<1>3. Len(points) >= 5 /\ Len(hull) = 2 * Len(points) - 2 /\ Len(points) \in Nat
  BY <1>1, <1>2 DEF Fitting, FitInv
<1>4. i > 1
  BY <1>1, <1>2, <1>3 DEF Fitting
<1>5. box = Fit!Extent(edge) /\ edge \in Int \X Int /\ points \in Seq(Int \X Int)
  BY <1>1, <1>2, <1>4 DEF Fitting, FitInv
<1>6. \A p \in Fit!ToSet(points) : /\ Fit!Along(p, edge) \in box.minX .. box.maxX
                                   /\ Fit!Across(p, edge) \in box.minY .. box.maxY
  <2>1. Len(points) >= 1
    BY <1>3
  <2> QED
    BY <1>5, <2>1, ExtentCovers
<1>7. b.edge = edge /\ b.box = box
  OBVIOUS
<1> HIDE DEF b
<1> QED
  BY <1>6, <1>7 DEF Covers, b

(* Nothing is drawn yet.                                                    *)
LEMMA ShownInit ==
  Init => ShownInv
<1> SUFFICES ASSUME Init PROVE ShownInv
  OBVIOUS
<1>1. fit_pc = "idle" /\ map_pc = "scan" /\ stage = "spin" /\ scan = 0 /\ boxes = << >>
  BY DEF Init, Fit!Init, Grid!Init
<1> QED
  BY <1>1 DEF ShownInv

(* Neither the map nor the boxes change while a cluster is fitted.          *)
LEMMA ShownStays ==
  ASSUME ShownInv, UNCHANGED <<recording, scan, stage, boxes, fit_vars, map_vars>>
  PROVE  ShownInv'
<1>1. UNCHANGED <<recording, scan, stage, boxes>>
  OBVIOUS
<1>2. UNCHANGED <<fit_pc, points>>
  BY DEF fit_vars
<1>3. UNCHANGED <<map_pc, clusters, done, data, msg>>
  BY DEF map_vars
<1>4. Fit!ToSet(points') = Fit!ToSet(points)
  BY <1>2
<1> QED
  BY <1>1, <1>2, <1>3, <1>4 DEF ShownInv, Drawn, Covers

(* So the map is that of the scan.                                          *)
LEMMA ShownStep ==
  IInv /\ ShownInv /\ [Next]_vars => ShownInv'
<1> SUFFICES ASSUME IInv, ShownInv, [Next]_vars PROVE ShownInv'
  OBVIOUS
<1>1. FitInv /\ GridInv /\ NodeInv
  BY DEF IInv
<1>2. Len(boxes) \in Nat /\ boxes \in Seq([edge : Int \X Int, box : BoxType, corners : CornersType])
  BY <1>1 DEF NodeInv
<1>3. CASE NewScan
  <2>1. stage = "spin" /\ stage' = "fit" /\ boxes' = << >> /\ UNCHANGED <<fit_vars, map_vars>>
    BY <1>3 DEF NewScan
  <2>2. scan' \in 1 .. Len(recording') /\ recording' = recording
        /\ recording \in Seq(Seq(SUBSET (Int \X Int)))
    BY <1>1, <1>3, RecordingsAssumption DEF NewScan, NodeInv
  <2>3. Len(recording'[scan']) \in Nat
    BY <2>2
  <2> QED
    BY <2>1, <2>3 DEF ShownInv, fit_vars, map_vars
<1>4. CASE BeginCluster
  <2> DEFINE P == recording[scan][Len(boxes) + 1]
  <2>1. stage = "fit" /\ Len(boxes) < Len(recording[scan]) /\ Fit!Begin(P)
        /\ UNCHANGED <<recording, scan, stage, boxes, map_vars, plan>>
    BY <1>4 DEF BeginCluster
  <2>2. Fit!ToSet(points') = P
    <3>1. scan \in 1 .. Len(recording) /\ Len(boxes) + 1 \in 1 .. Len(recording[scan])
          /\ recording \in Recordings
      <4>1. scan \in 1 .. Len(recording) /\ recording \in Seq(Seq(SUBSET (Int \X Int)))
            /\ recording \in Recordings
        BY <1>1, <2>1, RecordingsAssumption DEF NodeInv
      <4>2. Len(recording[scan]) \in Nat
        BY <4>1
      <4> QED
        BY <1>2, <2>1, <4>1, <4>2
    <3>2. P \subseteq Int \X Int /\ IsFiniteSet(P) /\ Cardinality(P) \in Nat
      <4>1. P \subseteq Int \X Int /\ IsFiniteSet(P)
        BY <3>1, ClusterOfScan
      <4> QED
        BY <4>1, FS_CardinalityType
    <3> HIDE DEF P
    <3> DEFINE n == Cardinality(P)
               s == Fit!Sorted(P)
    <3>3. points' = s
      BY <2>1 DEF Fit!Begin
    <3>4. /\ s \in Seq(P) /\ Len(s) = n /\ n \in Nat
          /\ \A p \in P : \E k \in 1 .. n : s[k] = p
      BY <3>2, SortedEnumerates
    <3> HIDE DEF n, s
    <3>5. Fit!ToSet(s) = P
      BY <3>4 DEF Fit!ToSet
    <3> QED
      BY <3>3, <3>5
  <2> HIDE DEF P
  <2>3. UNCHANGED map_vars
    BY <2>1
  <2> QED
    BY <2>1, <2>2, <2>3 DEF ShownInv, Covers, Drawn, map_vars, P
<1>5. CASE FitCluster
  <2>1. UNCHANGED <<recording, scan, stage, boxes, map_vars, plan>> /\ fit_pc # "idle"
        /\ points' = points /\ Fit!ToSet(points') = Fit!ToSet(points)
    BY <1>5 DEF FitCluster, Fit!Step, Fit!Lower, Fit!LowerDone, Fit!Upper, Fit!UpperDone, Fit!Fit
  <2>2. stage = "fit"
    BY <1>1, <2>1 DEF ShownInv, NodeInv
  <2> QED
    BY <2>1, <2>2 DEF ShownInv, Covers, map_vars
<1>6. CASE EndCluster
  <2> DEFINE b == [edge |-> edge, box |-> box, corners |-> corners']
             n == Len(boxes)
  <2>1. Fit!Done /\ boxes' = Append(boxes, b)
        /\ UNCHANGED <<recording, scan, stage, map_vars, plan>>
    BY <1>6 DEF EndCluster
  <2>2. fit_pc = "fit" /\ fit_pc' = "idle" /\ stage = "fit"
    BY <1>1, <2>1 DEF Fit!Done, ShownInv, NodeInv
  <2>3. n < Len(recording[scan]) /\ Fit!ToSet(points) = recording[scan][n + 1]
    BY <2>2 DEF ShownInv
  <2>4. Covers(b, recording[scan][n + 1])
    BY <1>1, <2>1, <2>3, DoneCovers
  <2> HIDE DEF b
  <2>5. Len(boxes') = n + 1 /\ boxes'[n + 1] = b /\ \A k \in 1 .. n : boxes'[k] = boxes[k]
    BY <1>2, <2>1
  <2>6. \A k \in 1 .. Len(boxes') : Covers(boxes'[k], recording[scan][k])
    <3>1. \A k \in 1 .. n : Covers(boxes[k], recording[scan][k])
      BY DEF ShownInv
    <3> HIDE DEF n
    <3>2. n \in Nat
      BY <1>2 DEF n
    <3>3. \A k \in 1 .. n + 1 : k \in 1 .. n \/ k = n + 1
      BY <3>2
    <3> QED
      BY <2>4, <2>5, <3>1, <3>2, <3>3
  <2>7. \A k \in 1 .. Len(boxes') : Covers(boxes'[k], recording'[scan'][k])
    BY <2>1, <2>6
  <2>8. Len(boxes') <= Len(recording'[scan'])
    <3>1. scan \in 1 .. Len(recording) /\ recording \in Seq(Seq(SUBSET (Int \X Int)))
      BY <1>1, <2>2, RecordingsAssumption DEF NodeInv
    <3>2. Len(recording[scan]) \in Nat
      BY <3>1
    <3> QED
      BY <1>2, <2>1, <2>3, <2>5, <3>2
  <2> QED
    BY <2>1, <2>2, <2>7, <2>8 DEF ShownInv, Covers, map_vars
<1>7. CASE DrawScan
  <2> DEFINE cs == [k \in DOMAIN boxes |-> ToBaselink(boxes[k].corners)]
  <2>1. stage = "fit" /\ fit_pc = "idle" /\ Len(boxes) = Len(recording[scan]) /\ stage' = "draw"
        /\ Grid!Initialize(cs) /\ UNCHANGED <<recording, scan, boxes, fit_vars, plan>>
    BY <1>7 DEF DrawScan
  <2>2. clusters' = cs /\ done' = 0 /\ map_pc' = "draw"
    BY <2>1 DEF Grid!Initialize
  <2>3. DOMAIN data' = 0 .. Grid!Size - 1
        /\ \A x \in DOMAIN data' : data'[x] # Grid!obstacle_cost
    BY <1>1, <2>1, BlankDrawn
  <2>4. Drawn(data, done)'
    <3>1. 1 .. 0 = {}
      OBVIOUS
    <3> QED
      BY <2>2, <2>3, <3>1 DEF Drawn
  <2> QED
    BY <2>1, <2>2, <2>4 DEF ShownInv, Covers, fit_vars
<1>8. CASE DrawCluster
  <2>1. Grid!Fill /\ UNCHANGED <<recording, scan, stage, boxes, fit_vars, plan>>
    BY <1>8 DEF DrawCluster
  <2>2. map_pc = "draw" /\ stage = "draw" /\ map_pc' = map_pc /\ clusters' = clusters
        /\ done' = done + 1
    BY <2>1 DEF Grid!Fill, ShownInv
  <2>3. /\ clusters = [k \in DOMAIN boxes |-> ToBaselink(boxes[k].corners)]
        /\ Drawn(data, done)
    BY <2>2 DEF ShownInv
  <2>4. /\ DOMAIN data' = DOMAIN data /\ done + 1 \in 1 .. Len(clusters)
        /\ \A x \in DOMAIN data :
             data'[x] = Grid!obstacle_cost <=>
               data[x] = Grid!obstacle_cost \/ x \in Grid!Filled(clusters[done + 1])
    BY <1>1, <2>1, FillDraws
  <2>5. done + 1 \in DOMAIN boxes /\ done \in Nat
    <3>1. Len(clusters) = Len(boxes) /\ DOMAIN boxes = 1 .. Len(boxes)
      BY <1>2, <2>3
    <3>2. done \in Nat
      BY <1>1, GridTypes DEF GridInv
    <3> QED
      BY <2>4, <3>1, <3>2
  <2>6. Drawn(data, done)'
    <3>1. clusters[done + 1] = ToBaselink(boxes[done + 1].corners)
      BY <2>3, <2>5
    <3>2. \A k : k \in 1 .. done + 1 <=> k \in 1 .. done \/ k = done + 1
      BY <2>5
    <3>3. \A x \in DOMAIN data :
            data'[x] = Grid!obstacle_cost <=>
              \E k \in 1 .. done + 1 : x \in Grid!Filled(ToBaselink(boxes[k].corners))
      BY <2>3, <2>4, <3>1, <3>2 DEF Drawn
    <3>4. boxes' = boxes
      BY <2>1
    <3> QED
      BY <2>2, <2>3, <2>4, <3>3, <3>4 DEF Drawn
  <2> QED
    BY <2>1, <2>2, <2>3, <2>6 DEF ShownInv, Covers, fit_vars
<1>9. CASE PublishMap
  <2>1. Grid!Publish /\ stage' = "spin" /\ UNCHANGED <<recording, scan, boxes, fit_vars, plan>>
    BY <1>9 DEF PublishMap
  <2>2. map_pc = "draw" /\ stage = "draw" /\ map_pc' = "scan" /\ msg' = data /\ done = Len(clusters)
    BY <2>1 DEF Grid!Publish, ShownInv
  <2>3. /\ clusters = [k \in DOMAIN boxes |-> ToBaselink(boxes[k].corners)]
        /\ Drawn(data, done)
    BY <2>2 DEF ShownInv
  <2>4. Len(clusters) = Len(boxes)
    BY <1>2, <2>3
  <2>5. Drawn(msg, Len(boxes))'
    BY <2>1, <2>2, <2>3, <2>4 DEF Drawn
  <2> QED
    BY <2>1, <2>2, <2>5 DEF ShownInv, Covers, fit_vars
<1>10. CASE EvaluateAllCandidates
  BY <1>10, ShownStays DEF EvaluateAllCandidates
<1>11. CASE UNCHANGED vars
  BY <1>11, ShownStays DEF vars
<1> QED BY <1>3, <1>4, <1>5, <1>6, <1>7, <1>8, <1>9, <1>10, <1>11 DEF Next

----------------------------------------------------------------------------
(* What the planner sees of the boxes.                                      *)

(* A cell of the map has one index (convertGridToIndex).                    *)
LEMMA IndexOnMap ==
  ASSUME NEW x \in 0 .. Width - 1, NEW y \in 0 .. Height - 1
  PROVE  Grid!Index(x, y) = y * Width + x /\ y * Width + x \in 0 .. Grid!Size - 1
<1>1. Width \in Nat \ {0} /\ Height \in Nat \ {0}
  BY LengthsAssumption
<1>2. y * Width \in Nat /\ y * Width <= (Height - 1) * Width
  BY <1>1
<1>3. (Height - 1) * Width = Width * Height - Width /\ Width * Height \in Int
  BY <1>1
<1> DEFINE n == y * Width
           m == Width * Height
<1> HIDE DEF n, m
<1>4. n + x \in 0 .. m - 1
  BY <1>1, <1>2, <1>3 DEF n, m
<1> QED
  BY <1>4 DEF n, m, Grid!Index, Grid!Size

(* And an index is that of one cell: no row runs over into the next.        *)
LEMMA IndexOnce ==
  ASSUME NEW x1 \in 0 .. Width - 1, NEW y1 \in Int, NEW x2 \in 0 .. Width - 1, NEW y2 \in Int,
         y1 * Width + x1 = y2 * Width + x2
  PROVE  x1 = x2 /\ y1 = y2
<1>1. Width \in Nat \ {0}
  BY LengthsAssumption
<1>2. ASSUME NEW a \in Int, NEW b \in Int, NEW u \in 0 .. Width - 1, NEW v \in 0 .. Width - 1,
             a * Width + u = b * Width + v
      PROVE  a <= b
  <2>1. (b + 1) * Width = b * Width + Width /\ a * Width \in Int /\ b * Width \in Int
    BY <1>1
  <2>2. a * Width < (b + 1) * Width
    BY <1>1, <1>2, <2>1
  <2>3. a < b + 1
    BY <1>1, <2>2, Multiples
  <2> QED
    BY <2>3
<1>3. y1 <= y2 /\ y2 <= y1
  BY <1>2
<1>4. y1 = y2
  BY <1>3
<1>5. y1 * Width \in Int
  BY <1>1
<1> QED
  BY <1>4, <1>5

(* The least and greatest cell of a polygon (fillLShapePolygon).            *)
LEMMA GridExtremes ==
  ASSUME NEW n \in Nat \ {0}, NEW f \in [1 .. n -> Int]
  PROVE  LET S == {f[k] : k \in 1 .. n}
         IN  /\ Grid!MinOf(S) \in S /\ \A x \in S : Grid!MinOf(S) <= x
             /\ Grid!MaxOf(S) \in S /\ \A x \in S : x <= Grid!MaxOf(S)
<1> DEFINE S == {f[k] : k \in 1 .. n}
<1>1. PICK low \in Int, high \in Int : \A k \in 1 .. n : low <= f[k] /\ f[k] <= high
  BY Bounded
<1>2. S \subseteq Int /\ f[1] \in S /\ \A x \in S : low <= x /\ x <= high
  BY <1>1
<1> HIDE DEF S
<1>3. \E m \in S : \A x \in S : m <= x
  BY <1>2, MinInt
<1>4. \E m \in S : \A x \in S : x <= m
  <2>1. Max(S) \in S /\ \A y \in S : Max(S) >= y
    BY <1>2, MaxInt
  <2>2. \A y \in S : y <= Max(S)
    BY <1>2, <2>1
  <2> QED
    BY <2>1, <2>2
<1>5. /\ Grid!MinOf(S) \in S /\ \A x \in S : Grid!MinOf(S) <= x
      /\ Grid!MaxOf(S) \in S /\ \A x \in S : x <= Grid!MaxOf(S)
  BY <1>3, <1>4 DEF Grid!MinOf, Grid!MaxOf
<1> QED
  BY <1>5 DEF S

(* Clamping to the map (Costmap.cpp:305-308).                               *)
LEMMA Clamped ==
  ASSUME NEW a \in Int, NEW b \in Int
  PROVE  /\ \A x \in Int : x >= Grid!MaxOf({a, b}) <=> x >= a /\ x >= b
         /\ \A x \in Int : x <= Grid!MinOf({a, b}) <=> x <= a /\ x <= b
         /\ Grid!MaxOf({a, b}) \in Int /\ Grid!MinOf({a, b}) \in Int
<1>1. \E m \in {a, b} : \A x \in {a, b} : m <= x
  BY a <= b \/ b <= a
<1>2. \E m \in {a, b} : \A x \in {a, b} : x <= m
  BY a <= b \/ b <= a
<1>3. /\ Grid!MinOf({a, b}) \in {a, b} /\ \A x \in {a, b} : Grid!MinOf({a, b}) <= x
  BY <1>1 DEF Grid!MinOf
<1>4. /\ Grid!MaxOf({a, b}) \in {a, b} /\ \A x \in {a, b} : x <= Grid!MaxOf({a, b})
  BY <1>2 DEF Grid!MaxOf
<1> DEFINE mn == Grid!MinOf({a, b})
           mx == Grid!MaxOf({a, b})
<1> HIDE DEF mn, mx
<1>5. mn \in {a, b} /\ mn <= a /\ mn <= b /\ mx \in {a, b} /\ a <= mx /\ b <= mx
  BY <1>3, <1>4 DEF mn, mx
<1>6. \A x \in Int : (x >= mx <=> x >= a /\ x >= b) /\ (x <= mn <=> x <= a /\ x <= b)
  BY <1>5
<1> QED
  BY <1>5, <1>6 DEF mn, mx

(* The cells of a row or column between the least and greatest of a         *)
(* polygon, as far as they are on the map.                                  *)
LEMMA SpanOfCells ==
  ASSUME NEW n \in Nat \ {0}, NEW f \in [1 .. n -> Int], NEW size \in Nat \ {0}
  PROVE  LET S == {f[k] : k \in 1 .. n}
         IN  \A u \in Int :
               u \in Grid!MaxOf({0, Grid!MinOf(S)}) .. Grid!MinOf({size - 1, Grid!MaxOf(S)})
                 <=> /\ u \in 0 .. size - 1
                     /\ \E j, k \in 1 .. n : f[j] <= u /\ u <= f[k]
<1> DEFINE S == {f[k] : k \in 1 .. n}
           low == Grid!MinOf(S)
           high == Grid!MaxOf(S)
<1>1. /\ low \in S /\ \A x \in S : low <= x
      /\ high \in S /\ \A x \in S : x <= high
  BY GridExtremes
<1>2. S \subseteq Int
  OBVIOUS
<1> HIDE DEF low, high
<1>3. PICK jl \in 1 .. n, kh \in 1 .. n : low = f[jl] /\ high = f[kh]
  BY <1>1
<1>4. \A k \in 1 .. n : low <= f[k] /\ f[k] <= high
  BY <1>1
<1>5. low \in Int /\ high \in Int
  BY <1>1, <1>2
<1>6. ASSUME NEW u \in Int
      PROVE  u \in Grid!MaxOf({0, low}) .. Grid!MinOf({size - 1, high})
               <=> u \in 0 .. size - 1 /\ \E j, k \in 1 .. n : f[j] <= u /\ u <= f[k]
  <2> DEFINE mx == Grid!MaxOf({0, low})
             mn == Grid!MinOf({size - 1, high})
  <2>1. u \in mx .. mn <=> u >= 0 /\ u >= low /\ u <= size - 1 /\ u <= high
    <3>1. 0 \in Int /\ size - 1 \in Int
      OBVIOUS
    <3>2. mx \in Int /\ \A v \in Int : v >= mx <=> v >= 0 /\ v >= low
      BY <1>5, <3>1, Clamped, Zenon
    <3>3. mn \in Int /\ \A v \in Int : v <= mn <=> v <= size - 1 /\ v <= high
      BY <1>5, <3>1, Clamped, Zenon
    <3> HIDE DEF mx, mn
    <3> QED
      BY <3>2, <3>3
  <2>2. u >= low /\ u <= high <=> \E j, k \in 1 .. n : f[j] <= u /\ u <= f[k]
    BY <1>3, <1>4, <1>5
  <2> QED
    BY <2>1, <2>2
<1> QED
  BY <1>6 DEF low, high

(* The corners of a polygon are cells.                                      *)
LEMMA PolygonType ==
  ASSUME NEW c \in CornersType
  PROVE  /\ Len(c.at) \in Nat /\ DOMAIN Grid!Polygon(c) = 1 .. Len(c.at)
         /\ Len(Grid!Polygon(c)) = Len(c.at)
         /\ \A k \in 1 .. Len(c.at) :
              Grid!Polygon(c)[k][1] \in Int /\ Grid!Polygon(c)[k][2] \in Int
<1>1. c.at \in Seq(Int \X Int) /\ c.den \in Nat \ {0} /\ Len(c.at) \in Nat
  BY DEF CornersType
<1>2. ASSUME NEW p \in Int \X Int
      PROVE  Grid!GridOf(p, c.den)[1] \in Int /\ Grid!GridOf(p, c.den)[2] \in Int
  <2>1. Sub * c.den \in Nat \ {0}
    <3>1. \A u \in Nat \ {0}, v \in Nat \ {0} : u * v \in Nat \ {0}
      OBVIOUS
    <3> QED
      BY <1>1, <3>1, LengthsAssumption
  <2>2. Grid!Origin[1] \in Int /\ Grid!Origin[2] \in Int
    BY LengthsAssumption DEF Grid!Origin
  <2> DEFINE b == Sub * c.den
             a1 == p[1] - Grid!Origin[1] * c.den
             a2 == p[2] - Grid!Origin[2] * c.den
  <2>3. a1 \in Int /\ a2 \in Int
    BY <1>1, <2>2
  <2> HIDE DEF a1, a2, b
  <2>4. a1 \div b \in Int /\ a2 \div b \in Int
    BY <2>1, <2>3, Quotient DEF b
  <2> QED
    BY <2>4 DEF a1, a2, b, Grid!GridOf
<1>3. Grid!Polygon(c) = [k \in 1 .. Len(c.at) |-> Grid!GridOf(c.at[k], c.den)]
  BY DEF Grid!Polygon
<1>4. \A k \in 1 .. Len(c.at) : c.at[k] \in Int \X Int
  BY <1>1
<1>5. Len(Grid!Polygon(c)) = Len(c.at)
  BY <1>1, <1>3
<1> QED
  BY <1>1, <1>2, <1>3, <1>4, <1>5

(* What is written of a box are the indices of the cells in its polygon     *)
(* that are on the map: none at another place.                              *)
LEMMA FilledCells ==
  ASSUME NEW c \in CornersType, NEW x \in 0 .. Width - 1, NEW y \in 0 .. Height - 1
  PROVE  y * Width + x \in Grid!Filled(c) <=> InPolygon(<<x, y>>, c)
<1> DEFINE P == Grid!Polygon(c)
           n == Len(c.at)
           Xs == {P[k][1] : k \in DOMAIN P}
           Ys == {P[k][2] : k \in DOMAIN P}
           X == Grid!MaxOf({0, Grid!MinOf(Xs)}) .. Grid!MinOf({Width - 1, Grid!MaxOf(Xs)})
           Y == Grid!MaxOf({0, Grid!MinOf(Ys)}) .. Grid!MinOf({Height - 1, Grid!MaxOf(Ys)})
           Between(u, a) == \E j, k \in DOMAIN P : P[j][a] <= u /\ u <= P[k][a]
<1>1. Grid!Filled(c) =
        {Grid!Index(g[1], g[2]) : g \in {g \in X \X Y : Grid!IsPointInPolygon(g[1], g[2], P)}}
  BY DEF Grid!Filled
<1>2. InPolygon(<<x, y>>, c) <=>
        Between(x, 1) /\ Between(y, 2) /\ Grid!IsPointInPolygon(x, y, P)
  BY DEF InPolygon
<1>3. n \in Nat /\ DOMAIN P = 1 .. n /\ Len(P) = n
      /\ \A k \in 1 .. n : P[k][1] \in Int /\ P[k][2] \in Int
  BY PolygonType
<1>4. Width \in Nat \ {0} /\ Height \in Nat \ {0}
  BY LengthsAssumption
<1> HIDE DEF P, n
<1>5. CASE n = 0
  <2>1. \A u, v : ~ Grid!IsPointInPolygon(u, v, P)
    <3>1. \A u, v : {k \in 1 .. Len(P) : Grid!Crosses(u, v, P, k)} = {}
      BY <1>3, <1>5
    <3>2. Grid!Cardinality({}) = 0
      BY FS_EmptySet DEF Grid!Cardinality, Cardinality
    <3>3. 0 % 2 # 1
      OBVIOUS
    <3> QED
      BY <3>1, <3>2, <3>3 DEF Grid!IsPointInPolygon
  <2>2. Grid!Filled(c) = {}
    BY <1>1, <2>1
  <2> QED
    BY <1>2, <2>1, <2>2
<1>6. CASE n # 0
  <2> DEFINE fx == [k \in 1 .. n |-> P[k][1]]
             fy == [k \in 1 .. n |-> P[k][2]]
  <2>1. fx \in [1 .. n -> Int] /\ fy \in [1 .. n -> Int] /\ n \in Nat \ {0}
    BY <1>3, <1>6
  <2>2. Xs = {fx[k] : k \in 1 .. n} /\ Ys = {fy[k] : k \in 1 .. n}
    BY <1>3
  <2>3. \A u \in Int : Between(u, 1) <=> \E j, k \in 1 .. n : fx[j] <= u /\ u <= fx[k]
    BY <1>3
  <2>4. \A u \in Int : Between(u, 2) <=> \E j, k \in 1 .. n : fy[j] <= u /\ u <= fy[k]
    BY <1>3
  <2> HIDE DEF fx, fy, Xs, Ys, Between
  <2>5. \A u \in Int : u \in X <=> u \in 0 .. Width - 1 /\ Between(u, 1)
    <3> DEFINE S == {fx[k] : k \in 1 .. n}
    <3>1. \A u \in Int :
            u \in Grid!MaxOf({0, Grid!MinOf(S)}) .. Grid!MinOf({Width - 1, Grid!MaxOf(S)})
              <=> u \in 0 .. Width - 1 /\ \E j, k \in 1 .. n : fx[j] <= u /\ u <= fx[k]
      BY <1>4, <2>1, SpanOfCells
    <3>2. Xs = S
      BY <2>2
    <3> HIDE DEF S
    <3> QED
      BY <2>3, <3>1, <3>2
  <2>6. \A u \in Int : u \in Y <=> u \in 0 .. Height - 1 /\ Between(u, 2)
    <3> DEFINE S == {fy[k] : k \in 1 .. n}
    <3>1. \A u \in Int :
            u \in Grid!MaxOf({0, Grid!MinOf(S)}) .. Grid!MinOf({Height - 1, Grid!MaxOf(S)})
              <=> u \in 0 .. Height - 1 /\ \E j, k \in 1 .. n : fy[j] <= u /\ u <= fy[k]
      BY <1>4, <2>1, SpanOfCells
    <3>2. Ys = S
      BY <2>2
    <3> HIDE DEF S
    <3> QED
      BY <2>4, <3>1, <3>2
  <2>7. X \subseteq Int /\ Y \subseteq Int
    <3>1. Grid!MinOf(Xs) \in Int /\ Grid!MaxOf(Xs) \in Int /\ Grid!MinOf(Ys) \in Int /\ Grid!MaxOf(Ys) \in Int
      <4>1. Xs \subseteq Int /\ Ys \subseteq Int
        BY <2>1, <2>2
      <4>2. Grid!MinOf(Xs) \in Xs /\ Grid!MaxOf(Xs) \in Xs
        BY <2>1, <2>2, GridExtremes
      <4>3. Grid!MinOf(Ys) \in Ys /\ Grid!MaxOf(Ys) \in Ys
        BY <2>1, <2>2, GridExtremes
      <4> QED
        BY <4>1, <4>2, <4>3
    <3> QED
      BY <1>4, <3>1, Clamped
  <2> HIDE DEF X, Y
  <2>8. ASSUME y * Width + x \in Grid!Filled(c) PROVE InPolygon(<<x, y>>, c)
    <3>1. PICK g \in X \X Y : Grid!IsPointInPolygon(g[1], g[2], P)
                              /\ y * Width + x = Grid!Index(g[1], g[2])
      BY <1>1, <2>8
    <3>2. g[1] \in 0 .. Width - 1 /\ g[2] \in 0 .. Height - 1 /\ Between(g[1], 1) /\ Between(g[2], 2)
      BY <2>5, <2>6, <2>7
    <3>3. y * Width + x = g[2] * Width + g[1]
      BY <3>1, <3>2, IndexOnMap
    <3>4. x = g[1] /\ y = g[2]
      BY <3>2, <3>3, IndexOnce
    <3> QED
      BY <1>2, <3>1, <3>2, <3>4 DEF Between
  <2>9. ASSUME InPolygon(<<x, y>>, c) PROVE y * Width + x \in Grid!Filled(c)
    <3>1. Between(x, 1) /\ Between(y, 2) /\ Grid!IsPointInPolygon(x, y, P)
      BY <1>2, <2>9 DEF Between
    <3>2. x \in X /\ y \in Y
      BY <2>5, <2>6, <3>1
    <3>3. Grid!Index(x, y) = y * Width + x
      BY IndexOnMap
    <3> DEFINE g == <<x, y>>
    <3>4. g \in X \X Y /\ g[1] = x /\ g[2] = y
      BY <3>2
    <3> QED
      BY <1>1, <3>1, <3>3, <3>4
  <2> QED
    BY <2>8, <2>9
<1> QED
  BY <1>5, <1>6

(* A point that is looked up lies in a cell of the map.                     *)
LEMMA CellInRow ==
  ASSUME NEW size \in Nat \ {0}, NEW u \in Int,
         u \in -(size \div 2) * Sub .. (size \div 2) * Sub - 1
  PROVE  (u - (-(size \div 2) * Sub) * 1) \div (Sub * 1) \in 0 .. size - 1
<1> DEFINE h == size \div 2
           a == u + h * Sub
<1>1. Sub \in Nat \ {0}
  BY LengthsAssumption
<1>2. h \in Nat /\ h * 2 <= size
  BY QuotientNat
<1> HIDE DEF h
<1>3. h * Sub \in Nat /\ (h * 2) * Sub = h * Sub + h * Sub
  BY <1>1, <1>2
<1>4. a \in Nat /\ a < (h * 2) * Sub
  BY <1>3 DEF h
<1>5. (u - (-(size \div 2) * Sub) * 1) = a /\ Sub * 1 = Sub
  BY <1>1, <1>2, <1>3 DEF h
<1> HIDE DEF a
<1>6. a \div Sub \in Nat /\ (a \div Sub) * Sub <= a
  BY <1>1, <1>4, QuotientNat
<1> DEFINE q == a \div Sub
<1>7. q \in Nat /\ q * Sub <= a
  BY <1>6
<1> HIDE DEF q
<1>8. q < h * 2
  <2>1. h * 2 \in Int /\ q * Sub \in Int /\ (h * 2) * Sub \in Int
    BY <1>1, <1>2, <1>7
  <2>2. q * Sub < (h * 2) * Sub
    BY <1>4, <1>7, <2>1
  <2> QED
    BY <1>1, <1>7, <2>1, <2>2, Multiples
<1>9. q \in 0 .. size - 1
  BY <1>2, <1>7, <1>8
<1> QED
  BY <1>5, <1>9 DEF q

(* Of the costs drawn only that of an obstacle is lethal.                   *)
LEMMA CostSeen ==
  ASSUME NEW raw \in Cost
  PROVE  (IF raw < 0 THEN 30 ELSE Grid!MinOf({raw, 100})) >= Grid!lethal_cost_threshold
           <=> raw = Grid!obstacle_cost
<1>1. raw \in {-1, 0, 100}
  BY DEF Cost, Grid!unknown_cost, Grid!free_cost, Grid!obstacle_cost
<1>2. ASSUME NEW a \in {0, 100} PROVE Grid!MinOf({a, 100}) = a
  <2>1. \A z \in {a, 100} : (\A y \in {a, 100} : z <= y) <=> z = a
    BY a = 0 \/ a = 100
  <2> QED
    BY <2>1 DEF Grid!MinOf
<1>3. CASE raw = -1
  BY <1>3 DEF Grid!lethal_cost_threshold, Grid!obstacle_cost
<1>4. CASE raw \in {0, 100}
  <2>1. Grid!MinOf({raw, 100}) = raw
    BY <1>2, <1>4
  <2> QED
    BY <1>4, <2>1 DEF Grid!lethal_cost_threshold, Grid!obstacle_cost
<1> QED
  BY <1>1, <1>3, <1>4

(* The lookup of a cell of the map: lethal if an obstacle is drawn there.   *)
LEMMA LethalCell ==
  ASSUME IsMap(msg), DOMAIN msg = 0 .. Grid!Size - 1, NEW p \in Looked
  PROVE  \E x \in 0 .. Width - 1, y \in 0 .. Height - 1 :
           /\ Grid!WorldToCostmap(p, 1) = <<x, y>>
           /\ y * Width + x \in DOMAIN msg
           /\ Grid!GetCostmapCost(p, 1) >= Grid!lethal_cost_threshold
                <=> msg[y * Width + x] = Grid!obstacle_cost
<1> DEFINE x == (p[1] - Grid!Origin[1] * 1) \div (Sub * 1)
           y == (p[2] - Grid!Origin[2] * 1) \div (Sub * 1)
<1>1. Width \in Nat \ {0} /\ Height \in Nat \ {0} /\ Sub \in Nat \ {0}
  BY LengthsAssumption
<1>2. x \in 0 .. Width - 1 /\ y \in 0 .. Height - 1
  <2>1. /\ p[1] \in -(Width \div 2) * Sub .. (Width \div 2) * Sub - 1
        /\ p[2] \in -(Height \div 2) * Sub .. (Height \div 2) * Sub - 1
    BY DEF Looked
  <2>2. p[1] \in Int /\ p[2] \in Int
    BY <2>1
  <2>3. (p[1] - (-(Width \div 2) * Sub) * 1) \div (Sub * 1) \in 0 .. Width - 1
    BY <1>1, <2>1, <2>2, CellInRow
  <2>4. (p[2] - (-(Height \div 2) * Sub) * 1) \div (Sub * 1) \in 0 .. Height - 1
    BY <1>1, <2>1, <2>2, CellInRow
  <2>5. Grid!Origin[1] = -(Width \div 2) * Sub /\ Grid!Origin[2] = -(Height \div 2) * Sub
    BY DEF Grid!Origin
  <2> QED
    BY <2>3, <2>4, <2>5
<1>3. Grid!WorldToCostmap(p, 1) = <<x, y>>
  BY DEF Grid!WorldToCostmap
<1> HIDE DEF x, y
<1> DEFINE n == y * Width + x
           raw == msg[n]
<1>4. n \in 0 .. Grid!Size - 1
  BY <1>2, IndexOnMap
<1>5. raw \in Cost
  BY <1>4 DEF IsMap
<1>6. Grid!GetCostmapCost(p, 1) = IF raw < 0 THEN 30 ELSE Grid!MinOf({raw, 100})
  <2>1. DOMAIN msg # {}
    BY <1>4
  <2>2. Grid!OnMap(<<x, y>>)
    BY <1>2 DEF Grid!OnMap
  <2> DEFINE g == Grid!WorldToCostmap(p, 1)
             r == msg[g[2] * Width + g[1]]
  <2>3. Grid!GetCostmapCost(p, 1) =
          IF DOMAIN msg = {} THEN 0
          ELSE IF ~Grid!OnMap(g) THEN Grid!lethal_cost_threshold
          ELSE IF r < 0 THEN 30 ELSE Grid!MinOf({r, 100})
    BY DEF Grid!GetCostmapCost
  <2>4. r = raw
    BY <1>3
  <2> HIDE DEF r
  <2> QED
    BY <1>3, <2>1, <2>2, <2>3, <2>4
<1> HIDE DEF n, raw
<1>7. Grid!GetCostmapCost(p, 1) >= Grid!lethal_cost_threshold <=> raw = Grid!obstacle_cost
  BY <1>5, <1>6, CostSeen
<1> QED
  BY <1>2, <1>3, <1>4, <1>7 DEF n, raw

(* What is drawn is what the planner sees.                                  *)
LEMMA ShownIsSeen ==
  IInv /\ ShownInv => BoxesShown
<1> SUFFICES ASSUME IInv, ShownInv, stage = "spin", plan.scan < scan, NEW p \in Looked
             PROVE  Grid!GetCostmapCost(p, 1) >= Grid!lethal_cost_threshold
                      <=> \E k \in DOMAIN boxes :
                            InPolygon(Grid!WorldToCostmap(p, 1), ToBaselink(boxes[k].corners))
  BY DEF BoxesShown
<1>1. GridInv /\ NodeInv
  BY DEF IInv
<1>2. scan > 0
  <2>1. plan.scan \in Nat /\ scan \in Int
    BY <1>1 DEF NodeInv
  <2> QED
    BY <2>1
<1>3. Drawn(msg, Len(boxes))
  BY <1>2 DEF ShownInv
<1>4. PICK x \in 0 .. Width - 1, y \in 0 .. Height - 1 :
         /\ Grid!WorldToCostmap(p, 1) = <<x, y>>
         /\ y * Width + x \in DOMAIN msg
         /\ Grid!GetCostmapCost(p, 1) >= Grid!lethal_cost_threshold
              <=> msg[y * Width + x] = Grid!obstacle_cost
  <2>1. IsMap(msg) /\ DOMAIN msg = 0 .. Grid!Size - 1
    BY <1>1, <1>3, GridTypes DEF GridInv, Drawn
  <2> QED
    BY <2>1, LethalCell
<1>5. msg[y * Width + x] = Grid!obstacle_cost <=>
        \E k \in 1 .. Len(boxes) : y * Width + x \in Grid!Filled(ToBaselink(boxes[k].corners))
  BY <1>3, <1>4 DEF Drawn
<1>6. DOMAIN boxes = 1 .. Len(boxes)
      /\ \A k \in 1 .. Len(boxes) : boxes[k].corners \in CornersType
  <2> DEFINE Box == [edge : Int \X Int, box : BoxType, corners : CornersType]
  <2>1. boxes \in Seq(Box)
    BY <1>1 DEF NodeInv
  <2>2. \A b \in Box : b.corners \in CornersType
    OBVIOUS
  <2> HIDE DEF Box
  <2> QED
    BY <2>1, <2>2
<1>7. \A k \in 1 .. Len(boxes) :
        y * Width + x \in Grid!Filled(ToBaselink(boxes[k].corners))
          <=> InPolygon(<<x, y>>, ToBaselink(boxes[k].corners))
  <2> TAKE k \in 1 .. Len(boxes)
  <2>1. ToBaselink(boxes[k].corners) \in CornersType
    BY <1>6, ToBaselinkType
  <2> QED
    BY <2>1, FilledCells
<1> QED
  BY <1>4, <1>5, <1>6, <1>7

----------------------------------------------------------------------------
(* Nothing else is drawn: where the edge between two rounded corners meets  *)
(* a row, how far rounding moves it, and what padding and margin allow.     *)

(* Division that rounds towards zero is off by less than one.               *)
LEMMA DivBound ==
  ASSUME NEW A \in Int, NEW D \in Int \ {0}
  PROVE  /\ Grid!Div(A, D) \in Int
         /\ D > 0 => A - D < Grid!Div(A, D) * D /\ Grid!Div(A, D) * D < A + D
         /\ D < 0 => A + D < Grid!Div(A, D) * D /\ Grid!Div(A, D) * D < A - D
<1> DEFINE a == Grid!Abs(A)
           d == Grid!Abs(D)
           m == a \div d
<1>1. a \in Nat /\ d \in Nat \ {0} /\ (A < 0 => a = -A) /\ (A >= 0 => a = A)
      /\ (D < 0 => d = -D) /\ (D >= 0 => d = D)
  BY DEF Grid!Abs
<1> HIDE DEF a, d
<1>2. m \in Nat /\ m * d <= a /\ a < m * d + d
  BY <1>1, QuotientNat
<1>3. Grid!Div(A, D) = IF (A < 0) # (D < 0) THEN -m ELSE m
  BY DEF Grid!Div, a, d
<1> HIDE DEF m
<1>4. m * D \in Int /\ m * (-D) = -(m * D) /\ (-m) * D = -(m * D)
  BY <1>2
<1>5. CASE D > 0
  BY <1>1, <1>2, <1>3, <1>4, <1>5
<1>6. CASE D < 0
  BY <1>1, <1>2, <1>3, <1>4, <1>6
<1> QED
  BY <1>5, <1>6

\* Where the edge from lo up to hi meets row y, times its height.
Meets(lo, hi, y) == lo[1] * (hi[2] - lo[2]) + (hi[1] - lo[1]) * (y - lo[2])

(* The lookup of crossings is exact to the cell (Costmap.cpp:264-266): an   *)
(* edge from p up to q that is crossed lies right of the cell, one that is  *)
(* not does not.                                                            *)
LEMMA CrossUp ==
  ASSUME NEW p \in Int \X Int, NEW q \in Int \X Int, NEW x \in Int, NEW y \in Int,
         p[2] <= y, y < q[2]
  PROVE  LET r == Grid!Div((q[1] - p[1]) * (y - p[2]), q[2] - p[2])
         IN  /\ x < r + p[1] => x * (q[2] - p[2]) < Meets(p, q, y)
             /\ ~(x < r + p[1]) => (x + 1) * (q[2] - p[2]) > Meets(p, q, y)
<1> DEFINE D == q[2] - p[2]
           A == (q[1] - p[1]) * (y - p[2])
           r == Grid!Div(A, D)
<1>1. p[1] \in Int /\ p[2] \in Int /\ q[1] \in Int /\ q[2] \in Int
  OBVIOUS
<1>2. D \in Int /\ D > 0 /\ A \in Int
  BY <1>1
<1>3. Meets(p, q, y) = p[1] * D + A
  BY DEF Meets
<1> HIDE DEF D, A
<1>4. r \in Int /\ A - D < r * D /\ r * D < A + D
  <2>1. D \in Int \ {0}
    BY <1>2
  <2> QED
    BY <1>2, <2>1, DivBound
<1> HIDE DEF r
<1> DEFINE z == p[1]
<1> HIDE DEF z
<1>5. z \in Int
  BY <1>1 DEF z
<1>6. ASSUME x < r + z PROVE x * D < z * D + A
  <2>1. x + 1 <= r + z
    BY <1>4, <1>5, <1>6
  <2>2. (r + z - x - 1) * D >= 0
    BY <1>2, <1>4, <1>5, <2>1
  <2>3. (r + z - x - 1) * D = r * D + z * D - x * D - D
    BY <1>2, <1>4, <1>5
  <2>4. r * D \in Int /\ z * D \in Int /\ x * D \in Int
    BY <1>2, <1>4, <1>5
  <2> QED
    BY <1>2, <1>4, <2>2, <2>3, <2>4
<1>7. ASSUME ~(x < r + z) PROVE (x + 1) * D > z * D + A
  <2>1. x - r - z >= 0
    BY <1>4, <1>5, <1>7
  <2>2. (x - r - z) * D >= 0
    BY <1>2, <1>4, <1>5, <2>1
  <2>3. (x - r - z) * D = x * D - r * D - z * D /\ (x + 1) * D = x * D + D
    BY <1>2, <1>4, <1>5
  <2>4. r * D \in Int /\ z * D \in Int /\ x * D \in Int
    BY <1>2, <1>4, <1>5
  <2> QED
    BY <1>2, <1>4, <2>2, <2>3, <2>4
<1> QED
  BY <1>3, <1>6, <1>7 DEF z, r, D, A

(* So it is for an edge from q up to p.                                     *)
LEMMA CrossDown ==
  ASSUME NEW p \in Int \X Int, NEW q \in Int \X Int, NEW x \in Int, NEW y \in Int,
         q[2] <= y, y < p[2]
  PROVE  LET r == Grid!Div((q[1] - p[1]) * (y - p[2]), q[2] - p[2])
         IN  /\ x < r + p[1] => x * (p[2] - q[2]) < Meets(q, p, y)
             /\ ~(x < r + p[1]) => (x + 1) * (p[2] - q[2]) > Meets(q, p, y)
<1> DEFINE D == q[2] - p[2]
           A == (q[1] - p[1]) * (y - p[2])
           r == Grid!Div(A, D)
<1>1. p[1] \in Int /\ p[2] \in Int /\ q[1] \in Int /\ q[2] \in Int
  OBVIOUS
<1>2. D \in Int /\ D < 0 /\ A \in Int /\ p[2] - q[2] = -D
  BY <1>1
<1>3. Meets(q, p, y) = -(p[1] * D) - A
  BY <1>1 DEF Meets
<1> HIDE DEF D, A
<1>4. r \in Int /\ A + D < r * D /\ r * D < A - D
  <2>1. D \in Int \ {0}
    BY <1>2
  <2> QED
    BY <1>2, <2>1, DivBound
<1> HIDE DEF r
<1> DEFINE z == p[1]
<1> HIDE DEF z
<1>5. z \in Int
  BY <1>1 DEF z
<1>6. ASSUME x < r + z PROVE x * (-D) < -(z * D) - A
  <2>1. r + z - x - 1 >= 0
    BY <1>4, <1>5, <1>6
  <2>2. (r + z - x - 1) * D <= 0
    BY <1>2, <1>4, <1>5, <2>1
  <2>3. (r + z - x - 1) * D = r * D + z * D - x * D - D /\ x * (-D) = -(x * D)
    BY <1>2, <1>4, <1>5
  <2>4. r * D \in Int /\ z * D \in Int /\ x * D \in Int
    BY <1>2, <1>4, <1>5
  <2> QED
    BY <1>2, <1>4, <2>2, <2>3, <2>4
<1>7. ASSUME ~(x < r + z) PROVE (x + 1) * (-D) > -(z * D) - A
  <2>1. x - r - z >= 0
    BY <1>4, <1>5, <1>7
  <2>2. (x - r - z) * D <= 0
    BY <1>2, <1>4, <1>5, <2>1
  <2>3. (x - r - z) * D = x * D - r * D - z * D /\ (x + 1) * (-D) = -(x * D) - D
    BY <1>2, <1>4, <1>5
  <2>4. r * D \in Int /\ z * D \in Int /\ x * D \in Int
    BY <1>2, <1>4, <1>5
  <2> QED
    BY <1>2, <1>4, <2>2, <2>3, <2>4
<1> QED
  BY <1>2, <1>3, <1>6, <1>7 DEF z, r, D, A

(* Between its ends an edge has no value of a linear form that it does not  *)
(* have at one of them.                                                     *)
LEMMA Mix ==
  ASSUME NEW lo \in Int \X Int, NEW hi \in Int \X Int, NEW y \in Int, NEW u \in Int, NEW v \in Int
  PROVE  (hi[2] - y) * (u * lo[1] + v * lo[2]) + (y - lo[2]) * (u * hi[1] + v * hi[2])
           = u * Meets(lo, hi, y) + (v * y) * (hi[2] - lo[2])
<1>1. lo[1] \in Int /\ lo[2] \in Int /\ hi[1] \in Int /\ hi[2] \in Int
  OBVIOUS
<1> QED
  BY <1>1 DEF Meets

(* A product by a factor keeps the order.                                   *)
LEMMA Scale ==
  ASSUME NEW a \in Int, NEW b \in Int, NEW n \in Nat
  PROVE  /\ a <= b => n * a <= n * b
         /\ n > 0 /\ a < b => n * a < n * b
         /\ n > 0 /\ n * a <= n * b => a <= b
         /\ n > 0 /\ n * a < n * b => a < b
<1>1. n * (b - a) = n * b - n * a /\ n * (a - b) = n * a - n * b /\ n * a \in Int /\ n * b \in Int
  OBVIOUS
<1>2. /\ a <= b => n * (b - a) >= 0
      /\ n > 0 /\ a < b => n * (b - a) > 0
      /\ n > 0 /\ a > b => n * (a - b) > 0
      /\ n > 0 /\ a >= b => n * (a - b) >= 0
  OBVIOUS
<1> QED
  BY <1>1, <1>2

(* A cell left of an edge, or right of it by less than one, is no farther   *)
(* out than the ends, up to one.                                            *)
LEMMA RowOut ==
  ASSUME NEW lo \in Int \X Int, NEW hi \in Int \X Int, NEW x \in Int, NEW y \in Int,
         NEW u \in Int, NEW v \in Int, NEW B \in Int,
         lo[2] <= y, y < hi[2], u * lo[1] + v * lo[2] <= B, u * hi[1] + v * hi[2] <= B
  PROVE  /\ u >= 0 /\ x * (hi[2] - lo[2]) < Meets(lo, hi, y) => u * x + v * y <= B
         /\ u < 0 /\ (x + 1) * (hi[2] - lo[2]) > Meets(lo, hi, y) => u * x + v * y <= B - u
<1> DEFINE H == hi[2] - lo[2]
           T == Meets(lo, hi, y)
           a == hi[2] - y
           b == y - lo[2]
           f == u * lo[1] + v * lo[2]
           g == u * hi[1] + v * hi[2]
<1>1. lo[1] \in Int /\ lo[2] \in Int /\ hi[1] \in Int /\ hi[2] \in Int
  OBVIOUS
<1>2. H \in Nat /\ H > 0 /\ a \in Nat /\ b \in Nat /\ H = a + b /\ f \in Int /\ g \in Int /\ f <= B /\ g <= B
  BY <1>1
<1>3. T \in Int
  BY <1>1 DEF Meets
<1>4. a * f + b * g = u * T + (v * y) * H
  BY Mix
<1> HIDE DEF H, T, a, b, f, g
<1>5. u * T + (v * y) * H <= H * B
  <2>1. a * f <= a * B /\ b * g <= b * B
    BY <1>2, Scale
  <2>2. a * B + b * B = H * B
    BY <1>2
  <2>3. a * f \in Int /\ b * g \in Int /\ a * B \in Int /\ b * B \in Int
    BY <1>2
  <2> QED
    BY <1>4, <2>1, <2>2, <2>3
<1> DEFINE w == v * y
<1>6. w \in Int
  OBVIOUS
<1> HIDE DEF w
<1>7. ASSUME u >= 0, x * H < T PROVE u * x + w <= B
  <2>1. u * (x * H) <= u * T
    BY <1>2, <1>3, <1>7, Scale
  <2>2. u * (x * H) + w * H = H * (u * x + w)
    BY <1>2, <1>6
  <2>3. H * (u * x + w) <= H * B
    <3>1. u * (x * H) \in Int /\ w * H \in Int /\ u * T \in Int /\ H * B \in Int
      BY <1>2, <1>3, <1>6
    <3> QED
      BY <1>5, <2>1, <2>2, <3>1 DEF w
  <2>4. u * x + w \in Int
    BY <1>6
  <2> QED
    BY <1>2, <2>3, <2>4, Scale
<1>8. ASSUME u < 0, (x + 1) * H > T PROVE u * x + w <= B - u
  <2>1. (-u) * T <= (-u) * ((x + 1) * H)
    BY <1>2, <1>3, <1>8, Scale
  <2>2. (-u) * T = -(u * T) /\ (-u) * ((x + 1) * H) = -(u * ((x + 1) * H))
    BY <1>2, <1>3
  <2>3. u * ((x + 1) * H) + w * H = H * (u * x + w + u)
    BY <1>2, <1>6
  <2>4. H * (u * x + w + u) <= H * B
    <3>1. u * ((x + 1) * H) \in Int /\ w * H \in Int /\ u * T \in Int /\ H * B \in Int
      BY <1>2, <1>3, <1>6
    <3> QED
      BY <1>5, <2>1, <2>2, <2>3, <3>1 DEF w
  <2>5. u * x + w + u \in Int
    BY <1>6
  <2>6. u * x + w + u <= B
    BY <1>2, <2>4, <2>5, Scale
  <2> QED
    BY <1>6, <2>6
<1> QED
  BY <1>7, <1>8 DEF w, H, T

----------------------------------------------------------------------------
(* Linear forms of points and of their cells.                               *)

Pos(u) == IF u > 0 THEN u ELSE 0
Neg(u) == IF u < 0 THEN -u ELSE 0
Form(u, v, p) == u * p[1] + v * p[2]

\* c lies in the cell g of a grid with cells of length K.
InCell(g, c, K) ==
  /\ g[1] * K <= c[1] /\ c[1] < g[1] * K + K
  /\ g[2] * K <= c[2] /\ c[2] < g[2] * K + K

(* One coordinate, rounded down to a multiple.                              *)
LEMMA Rounded ==
  ASSUME NEW u \in Int, NEW c \in Int, NEW K \in Nat \ {0}, NEW n \in Int,
         n * K <= c, c < n * K + K
  PROVE  /\ u * (n * K) <= u * c + Neg(u) * K /\ (u < 0 => u * (n * K) < u * c + Neg(u) * K)
         /\ u * c <= u * (n * K) + Pos(u) * K /\ (u > 0 => u * c < u * (n * K) + Pos(u) * K)
<1> DEFINE r == c - n * K
<1>1. n * K \in Int /\ r \in Int /\ 0 <= r /\ r < K /\ c = n * K + r
  OBVIOUS
<1>2. u * c = u * (n * K) + u * r
  BY <1>1
<1>3. u * (n * K) \in Int /\ u * r \in Int /\ u * K \in Int
  BY <1>1
<1>4. CASE u > 0
  <2>1. 0 <= u * r /\ u * r < u * K
    <3>1. u \in Nat /\ u > 0 /\ u * 0 = 0
      BY <1>4
    <3> QED
      BY <1>1, <3>1, Scale
  <2>2. Pos(u) * K = u * K /\ Neg(u) * K = 0
    BY <1>4 DEF Pos, Neg
  <2> QED
    BY <1>2, <1>3, <1>4, <2>1, <2>2
<1>5. CASE u < 0
  <2>1. 0 <= (-u) * r /\ (-u) * r < (-u) * K
    <3>1. -u \in Nat /\ -u > 0 /\ (-u) * 0 = 0
      BY <1>5
    <3> QED
      BY <1>1, <3>1, Scale
  <2>2. (-u) * r = -(u * r) /\ (-u) * K = -(u * K)
    BY <1>1
  <2>3. Pos(u) * K = 0 /\ Neg(u) * K = (-u) * K
    BY <1>5 DEF Pos, Neg
  <2> QED
    BY <1>2, <1>3, <1>5, <2>1, <2>2, <2>3
<1>6. CASE u = 0
  BY <1>1, <1>6 DEF Pos, Neg
<1> QED
  BY <1>4, <1>5, <1>6

(* A form at a cell and at a point in it.                                   *)
LEMMA CellForm ==
  ASSUME NEW u \in Int, NEW v \in Int, NEW c \in Int \X Int, NEW g \in Int \X Int,
         NEW K \in Nat \ {0}, InCell(g, c, K)
  PROVE  /\ K * Form(u, v, g) <= Form(u, v, c) + (Neg(u) + Neg(v)) * K
         /\ u < 0 \/ v < 0 => K * Form(u, v, g) < Form(u, v, c) + (Neg(u) + Neg(v)) * K
         /\ Form(u, v, c) <= K * Form(u, v, g) + (Pos(u) + Pos(v)) * K
         /\ u > 0 \/ v > 0 => Form(u, v, c) < K * Form(u, v, g) + (Pos(u) + Pos(v)) * K
<1> DEFINE A == u * (g[1] * K)    B == v * (g[2] * K)
           C == u * c[1]          D == v * c[2]
           Nu == Neg(u) * K       Nv == Neg(v) * K
           Pu == Pos(u) * K       Pv == Pos(v) * K
<1>1. c[1] \in Int /\ c[2] \in Int /\ g[1] \in Int /\ g[2] \in Int
  OBVIOUS
<1>2. /\ A <= C + Nu /\ (u < 0 => A < C + Nu)
      /\ C <= A + Pu /\ (u > 0 => C < A + Pu)
  BY <1>1, Rounded DEF InCell
<1>3. /\ B <= D + Nv /\ (v < 0 => B < D + Nv)
      /\ D <= B + Pv /\ (v > 0 => D < B + Pv)
  BY <1>1, Rounded DEF InCell
<1>4. K * Form(u, v, g) = A + B
  BY <1>1 DEF Form
<1>5. Neg(u) \in Int /\ Neg(v) \in Int /\ Pos(u) \in Int /\ Pos(v) \in Int
  BY DEF Neg, Pos
<1>6. (Neg(u) + Neg(v)) * K = Nu + Nv /\ (Pos(u) + Pos(v)) * K = Pu + Pv
  BY <1>5
<1>7. /\ A \in Int /\ B \in Int /\ C \in Int /\ D \in Int
      /\ Nu \in Int /\ Nv \in Int /\ Pu \in Int /\ Pv \in Int
  BY <1>1, <1>5
<1>8. Form(u, v, c) = C + D
  BY DEF Form
<1> HIDE DEF A, B, C, D, Nu, Nv, Pu, Pv
<1>9. /\ A + B <= C + D + (Nu + Nv) /\ (u < 0 \/ v < 0 => A + B < C + D + (Nu + Nv))
      /\ C + D <= A + B + (Pu + Pv) /\ (u > 0 \/ v > 0 => C + D < A + B + (Pu + Pv))
  BY <1>2, <1>3, <1>7
<1> QED
  BY <1>4, <1>6, <1>8, <1>9

----------------------------------------------------------------------------
(* The polygon of a turned box.                                             *)

\* The point c over the denominator d, counted from off.
From(off, c, d) == <<c[1] + off[1] * d, c[2] + off[2] * d>>

(* A form at a point counted from another.                                  *)
LEMMA FromForm ==
  ASSUME NEW u \in Int, NEW v \in Int, NEW off \in Int \X Int, NEW c \in Int \X Int, NEW d \in Int
  PROVE  /\ From(off, c, d) \in Int \X Int
         /\ Form(u, v, From(off, c, d)) = Form(u, v, c) + Form(u, v, off) * d
         /\ Form(u, v, c) \in Int /\ Form(u, v, off) \in Int
<1>1. off[1] \in Int /\ off[2] \in Int /\ c[1] \in Int /\ c[2] \in Int
  OBVIOUS
<1> QED
  BY <1>1 DEF From, Form

\* P is the cell of the corner c of a box with an edge of length N squared.
CornerCell(P, c, off, N) == InCell(P, From(off, c, Fine * N), Sub * (Fine * N))

(* The cell of a corner is inside the side of the box, but for rounding.    *)
LEMMA CornerOut ==
  ASSUME NEW u \in Int, NEW v \in Int, NEW m \in Int, NEW pad \in Int, NEW N \in Nat \ {0},
         NEW off \in Int \X Int, NEW c \in Int \X Int, NEW P \in Int \X Int,
         CornerCell(P, c, off, N), Form(u, v, c) <= N * (Fine * m + pad)
  PROVE  LET R == Fine * m + pad + Fine * Form(u, v, off) + (Neg(u) + Neg(v)) * (Sub * Fine)
         IN  /\ (Sub * Fine) * Form(u, v, P) <= R
             /\ u < 0 \/ v < 0 => (Sub * Fine) * Form(u, v, P) < R
<1> DEFINE F0 == Form(u, v, off)
           FP == Form(u, v, P)
           FC == Form(u, v, c)
           n == Neg(u) + Neg(v)
           M == Fine * m + pad
           K == Sub * (Fine * N)
<1>1. Sub \in Nat \ {0} /\ Fine \in Nat \ {0}
  BY LengthsAssumption
<1>2. F0 \in Int /\ FC \in Int /\ FP \in Int /\ n \in Int /\ M \in Int
  <2>1. Neg(u) \in Int /\ Neg(v) \in Int
    BY DEF Neg
  <2>2. F0 \in Int /\ FC \in Int /\ FP \in Int
    BY DEF Form
  <2> HIDE DEF F0, FC, FP
  <2> QED
    BY <1>1, <2>1, <2>2
<1>3. Fine * N \in Nat \ {0} /\ K \in Nat \ {0}
  <2>1. \A a \in Nat \ {0}, b \in Nat \ {0} : a * b \in Nat \ {0}
    OBVIOUS
  <2> QED
    BY <1>1, <2>1
<1>4. /\ From(off, c, Fine * N) \in Int \X Int
      /\ Form(u, v, From(off, c, Fine * N)) = FC + F0 * (Fine * N)
  <2> DEFINE d == Fine * N
  <2>1. d \in Int
    BY <1>3
  <2> HIDE DEF d
  <2> HIDE DEF F0, FC
  <2>2. From(off, c, d) \in Int \X Int
    BY <2>1, FromForm
  <2>3. Form(u, v, From(off, c, d)) = Form(u, v, c) + Form(u, v, off) * d
    BY <2>1, FromForm
  <2> QED
    BY <2>2, <2>3 DEF d, F0, FC
<1>5. /\ K * FP <= FC + F0 * (Fine * N) + n * K
      /\ u < 0 \/ v < 0 => K * FP < FC + F0 * (Fine * N) + n * K
  <2>1. InCell(P, From(off, c, Fine * N), K)
    BY DEF CornerCell
  <2> HIDE DEF K, F0, FC
  <2>2. /\ K * FP <= Form(u, v, From(off, c, Fine * N)) + n * K
        /\ u < 0 \/ v < 0 => K * FP < Form(u, v, From(off, c, Fine * N)) + n * K
    BY <1>3, <1>4, <2>1, CellForm
  <2> QED
    BY <1>4, <2>2
<1> HIDE DEF F0, FP, FC, n, M
<1> DEFINE R == M + Fine * F0 + n * (Sub * Fine)
           X == (Sub * Fine) * FP
<1>6. N * M + F0 * (Fine * N) + n * K = N * R /\ K * FP = N * X
  BY <1>1, <1>2
<1>7. FC <= N * M
  BY DEF M, FC
<1>8. R \in Int /\ X \in Int /\ N * R \in Int /\ N * X \in Int /\ N * M \in Int
      /\ F0 * (Fine * N) \in Int /\ n * K \in Int
  BY <1>1, <1>2
<1> HIDE DEF R, X, K
<1>9. N * X <= N * R /\ (u < 0 \/ v < 0 => N * X < N * R)
  <2> DEFINE a == F0 * (Fine * N)
             b == n * K
             y == N * M
             z == N * R
             w == N * X
             t == K * FP
  <2>1. /\ t <= FC + a + b /\ (u < 0 \/ v < 0 => t < FC + a + b)
        /\ y + a + b = z /\ t = w /\ FC <= y
    BY <1>5, <1>6, <1>7
  <2>2. a \in Int /\ b \in Int /\ y \in Int /\ z \in Int /\ w \in Int
    BY <1>8
  <2> HIDE DEF a, b, y, z, w, t
  <2>3. w <= z /\ (u < 0 \/ v < 0 => w < z)
    BY <1>2, <2>1, <2>2
  <2> QED
    BY <2>3 DEF z, w
<1>10. X <= R /\ (u < 0 \/ v < 0 => X < R)
  BY <1>8, <1>9, Scale
<1> QED
  BY <1>10 DEF X, R, F0, FP, n, M

(* A cell that is left of where its row meets an edge is no farther out     *)
(* than the corners there, but for rounding, and with a form that grows to  *)
(* the left the same holds of a cell not left of it.                        *)
LEMMA EdgeNear ==
  ASSUME NEW u \in Int, NEW v \in Int, u # 0 \/ v # 0,
         NEW m \in Int, NEW pad \in Int, NEW N \in Nat \ {0}, NEW off \in Int \X Int,
         NEW c1 \in Int \X Int, NEW c2 \in Int \X Int,
         NEW p1 \in Int \X Int, NEW p2 \in Int \X Int,
         CornerCell(p1, c1, off, N), Form(u, v, c1) <= N * (Fine * m + pad),
         CornerCell(p2, c2, off, N), Form(u, v, c2) <= N * (Fine * m + pad),
         NEW x \in Int, NEW y \in Int, p1[2] <= y, y < p2[2],
         \/ u >= 0 /\ x * (p2[2] - p1[2]) < Meets(p1, p2, y)
         \/ u < 0 /\ (x + 1) * (p2[2] - p1[2]) > Meets(p1, p2, y),
         NEW q \in Int \X Int, NEW d \in Nat \ {0}, InCell(<<x, y>>, From(off, q, d), Sub * d)
  PROVE  Fine * Form(u, v, q)
           < d * (Fine * m + pad)
               + d * ((Sub * Fine) * (Neg(u) + Neg(v) + Pos(u) + Pos(v) + Neg(u)))
<1> DEFINE L == Sub * Fine
           M == Fine * m + pad
           F0 == Form(u, v, off)
           Fq == Form(u, v, q)
           n == Neg(u) + Neg(v)
           o == Pos(u) + Pos(v)
           e == Neg(u)
           R == M + Fine * F0 + n * L
           R1 == IF u < 0 \/ v < 0 THEN R - 1 ELSE R
           G == u * x + v * y
<1>1. Sub \in Nat \ {0} /\ Fine \in Nat \ {0} /\ L \in Nat \ {0}
  <2>1. \A a \in Nat \ {0}, b \in Nat \ {0} : a * b \in Nat \ {0}
    OBVIOUS
  <2> QED
    BY <2>1, LengthsAssumption
<1>2. F0 \in Int /\ Fq \in Int /\ n \in Int /\ o \in Int /\ e \in Nat /\ M \in Int
  <2>1. F0 \in Int /\ Fq \in Int
    BY DEF Form
  <2>2. n \in Int /\ o \in Int /\ e \in Nat
    BY DEF Neg, Pos
  <2> QED
    BY <1>1, <2>1, <2>2
<1>3. R \in Int /\ R1 \in Int /\ G \in Int
  <2> HIDE DEF F0, Fq, n, o, e, M, L
  <2> QED
    BY <1>1, <1>2
<1>4. ASSUME NEW c \in {c1, c2}, NEW g \in {p1, p2},
             CornerCell(g, c, off, N), Form(u, v, c) <= N * (Fine * m + pad)
      PROVE  (L * u) * g[1] + (L * v) * g[2] <= R1
  <2>1. g \in Int \X Int /\ c \in Int \X Int /\ g[1] \in Int /\ g[2] \in Int
    OBVIOUS
  <2>2. L * Form(u, v, g) <= R /\ (u < 0 \/ v < 0 => L * Form(u, v, g) < R)
    BY <1>4, <2>1, CornerOut
  <2>3. (L * u) * g[1] + (L * v) * g[2] = L * Form(u, v, g) /\ Form(u, v, g) \in Int
    <3> HIDE DEF L
    <3> QED
      BY <1>1, <2>1 DEF Form
  <2> DEFINE z == L * Form(u, v, g)
  <2>4. z \in Int
    BY <1>1, <2>3
  <2> HIDE DEF z, R
  <2>5. z <= R1
    BY <1>3, <2>2, <2>4 DEF z
  <2> QED
    BY <2>3, <2>5 DEF z
<1>5. L * u \in Int /\ L * v \in Int /\ (u >= 0 => L * u >= 0) /\ (u < 0 => L * u < 0)
  <2> HIDE DEF L
  <2> QED
    BY <1>1
<1>6. (L * u) * x + (L * v) * y = L * G
  <2> HIDE DEF L
  <2> QED
    BY <1>1
<1>7. L * G <= R1 + L * e
  <2>1. (L * u) * p1[1] + (L * v) * p1[2] <= R1 /\ (L * u) * p2[1] + (L * v) * p2[2] <= R1
    <3> HIDE DEF L, R1
    <3> QED
      BY <1>4
  <2>2. CASE u >= 0
    <3>1. x * (p2[2] - p1[2]) < Meets(p1, p2, y)
      BY <2>2
    <3> HIDE DEF L, R1
    <3>2. (L * u) * x + (L * v) * y <= R1
      BY <1>3, <1>5, <2>1, <2>2, <3>1, RowOut
    <3>3. L * e = 0
      BY <1>1, <2>2 DEF Neg
    <3> QED
      BY <1>3, <1>6, <3>2, <3>3
  <2>3. CASE u < 0
    <3>1. (x + 1) * (p2[2] - p1[2]) > Meets(p1, p2, y)
      BY <2>3
    <3> HIDE DEF L, R1
    <3>2. (L * u) * x + (L * v) * y <= R1 - L * u
      BY <1>3, <1>5, <2>1, <2>3, <3>1, RowOut
    <3>3. L * e = -(L * u)
      BY <1>1, <2>3 DEF Neg
    <3> QED
      BY <1>3, <1>5, <1>6, <3>2, <3>3
  <2> QED
    BY <2>2, <2>3
<1>8. /\ Fq + F0 * d <= (Sub * d) * G + o * (Sub * d)
      /\ u > 0 \/ v > 0 => Fq + F0 * d < (Sub * d) * G + o * (Sub * d)
  <2> DEFINE c == From(off, q, d)
             g == <<x, y>>
             K == Sub * d
  <2>1. c \in Int \X Int /\ g \in Int \X Int
    <3>1. off[1] \in Int /\ off[2] \in Int /\ q[1] \in Int /\ q[2] \in Int /\ d \in Int
      OBVIOUS
    <3>2. q[1] + off[1] * d \in Int /\ q[2] + off[2] * d \in Int
      BY <3>1
    <3> QED
      BY <3>2 DEF From
  <2>2. Form(u, v, c) = Form(u, v, q) + Form(u, v, off) * d
    BY FromForm
  <2>3. K \in Nat \ {0}
    <3>1. \A a \in Nat \ {0}, b \in Nat \ {0} : a * b \in Nat \ {0}
      OBVIOUS
    <3> QED
      BY <1>1, <3>1
  <2>4. Form(u, v, g) = G
    BY DEF Form
  <2>5. InCell(g, c, K)
    OBVIOUS
  <2> HIDE DEF c, g, K, G
  <2>6. /\ Form(u, v, c) <= K * Form(u, v, g) + (Pos(u) + Pos(v)) * K
        /\ u > 0 \/ v > 0 => Form(u, v, c) < K * Form(u, v, g) + (Pos(u) + Pos(v)) * K
    BY <2>1, <2>3, <2>5, CellForm
  <2> QED
    BY <2>2, <2>4, <2>6 DEF K
<1>9. R = M + Fine * F0 + n * L /\ (u < 0 \/ v < 0 => R1 = R - 1) /\ R1 <= R
  BY <1>3
<1>10. (Neg(u) + Neg(v) + Pos(u) + Pos(v) + Neg(u)) = n + o + e
  BY DEF Neg, Pos
<1>11. Fine * M + 0 \in Int /\ d \in Nat /\ d > 0
  BY <1>1, <1>2
<1> HIDE DEF F0, Fq, n, o, e, M, R, R1, G
<1>12. d * (L * G) <= d * R1 + d * (L * e)
  <2>1. L * G \in Int /\ L * e \in Int
    BY <1>1, <1>2, <1>3
  <2>2. d * (L * G) <= d * (R1 + L * e)
    BY <1>3, <1>7, <1>11, <2>1, Scale
  <2>3. d * (R1 + L * e) = d * R1 + d * (L * e)
    BY <1>3, <2>1
  <2> QED
    BY <2>2, <2>3
<1>13. /\ Fine * Fq + d * (Fine * F0) <= d * (L * G) + d * (L * o)
       /\ u > 0 \/ v > 0 => Fine * Fq + d * (Fine * F0) < d * (L * G) + d * (L * o)
  <2> DEFINE A == Fq + F0 * d
             B == (Sub * d) * G + o * (Sub * d)
  <2>1. A \in Int /\ B \in Int
    BY <1>1, <1>2, <1>3
  <2>2. Fine * A = Fine * Fq + d * (Fine * F0) /\ Fine * B = d * (L * G) + d * (L * o)
    BY <1>1, <1>2, <1>3
  <2>3. A <= B /\ (u > 0 \/ v > 0 => A < B)
    BY <1>8
  <2> HIDE DEF A, B
  <2> QED
    BY <1>1, <2>1, <2>2, <2>3, Scale
<1>14. /\ d * R = d * M + d * (Fine * F0) + d * (L * n)
       /\ u < 0 \/ v < 0 => d * R1 = d * R - d
       /\ d * R1 <= d * R
  <2>1. d * R = d * M + d * (Fine * F0) + d * (L * n)
    BY <1>1, <1>2, <1>9
  <2>2. u < 0 \/ v < 0 => d * R1 = d * R - d
    <3>1. d * (R - 1) = d * R - d
      BY <1>3
    <3> QED
      BY <1>9, <3>1
  <2>3. d * R1 <= d * R
    BY <1>3, <1>9, <1>11, Scale
  <2> QED
    BY <2>1, <2>2, <2>3
<1>15. d * (L * (n + o + e)) = d * (L * n) + d * (L * o) + d * (L * e)
  BY <1>1, <1>2
<1> DEFINE a1 == Fine * Fq
           a2 == d * (Fine * F0)
           a3 == d * (L * G)
           a4 == d * (L * o)
           a5 == d * R1
           a6 == d * R
           a7 == d * M
           a8 == d * (L * n)
           a9 == d * (L * e)
<1>16. a1 \in Int /\ a2 \in Int /\ a3 \in Int /\ a4 \in Int /\ a5 \in Int
       /\ a6 \in Int /\ a7 \in Int /\ a8 \in Int /\ a9 \in Int
  BY <1>1, <1>2, <1>3
<1>17. /\ a3 <= a5 + a9 /\ a1 + a2 <= a3 + a4 /\ (u > 0 \/ v > 0 => a1 + a2 < a3 + a4)
       /\ a6 = a7 + a2 + a8 /\ (u < 0 \/ v < 0 => a5 = a6 - d) /\ a5 <= a6
  BY <1>12, <1>13, <1>14
<1> HIDE DEF a1, a2, a3, a4, a5, a6, a7, a8, a9
<1>18. a1 < a7 + (a8 + a4 + a9)
  <2>1. (u < 0 \/ v < 0) \/ (u > 0 \/ v > 0)
    OBVIOUS
  <2> QED
    BY <1>11, <1>16, <1>17, <2>1
<1>19. Fine * Fq < d * M + d * (L * (n + o + e))
  BY <1>15, <1>18 DEF a1, a7, a8, a4, a9
<1> QED
  BY <1>10, <1>19 DEF Fq, M, L

(* Going round a quadrilateral one passes the height of a row an even       *)
(* number of times.                                                         *)
LEMMA EvenChanges ==
  ASSUME NEW b1 \in BOOLEAN, NEW b2 \in BOOLEAN, NEW b3 \in BOOLEAN, NEW b4 \in BOOLEAN,
         NEW S \in SUBSET (1 .. 4),
         1 \in S <=> b1 # b4, 2 \in S <=> b2 # b1, 3 \in S <=> b3 # b2, 4 \in S <=> b4 # b3
  PROVE  Cardinality(S) \in {0, 2, 4}
<1>1. \/ S = {}
      \/ S = 1 .. 4
      \/ \E j, k \in 1 .. 4 : j # k /\ S = {j, k}
  <2>1. \A k \in S : k = 1 \/ k = 2 \/ k = 3 \/ k = 4
    OBVIOUS
  <2>2. CASE 1 \in S /\ 2 \in S /\ 3 \in S /\ 4 \in S
    <3>1. \A k \in 1 .. 4 : k = 1 \/ k = 2 \/ k = 3 \/ k = 4
      OBVIOUS
    <3>2. \A k \in 1 .. 4 : k \in S
      BY <2>2, <3>1
    <3> QED
      BY <3>2
  <2>3. CASE 1 \in S /\ 2 \in S /\ 3 \notin S
    <3>1. S = {1, 2}
      BY <2>1, <2>3
    <3> QED
      BY <3>1
  <2>4. CASE 1 \in S /\ 2 \notin S /\ 3 \in S
    <3>1. S = {1, 3}
      BY <2>1, <2>4
    <3> QED
      BY <3>1
  <2>5. CASE 1 \in S /\ 2 \notin S /\ 3 \notin S
    <3>1. S = {1, 4}
      BY <2>1, <2>5
    <3> QED
      BY <3>1
  <2>6. CASE 1 \notin S /\ 2 \in S /\ 3 \in S
    <3>1. S = {2, 3}
      BY <2>1, <2>6
    <3> QED
      BY <3>1
  <2>7. CASE 1 \notin S /\ 2 \in S /\ 3 \notin S
    <3>1. S = {2, 4}
      BY <2>1, <2>7
    <3> QED
      BY <3>1
  <2>8. CASE 1 \notin S /\ 2 \notin S /\ 3 \in S
    <3>1. S = {3, 4}
      BY <2>1, <2>8
    <3> QED
      BY <3>1
  <2>9. CASE 1 \notin S /\ 2 \notin S /\ 3 \notin S
    <3>1. S = {}
      BY <2>1, <2>9
    <3> QED
      BY <3>1
  <2>10. 1 \in S /\ 2 \in S /\ 3 \in S => 4 \in S
    OBVIOUS
  <2> QED
    BY <2>2, <2>3, <2>4, <2>5, <2>6, <2>7, <2>8, <2>9, <2>10
<1>2. Cardinality({}) = 0 /\ Cardinality(1 .. 4) = 4
  <2>1. Cardinality(1 .. 4) = 4
    <3> DEFINE a == 1
               b == 4
    <3>1. a \in Int /\ b \in Int
      OBVIOUS
    <3> HIDE DEF a, b
    <3>2. Cardinality(a .. b) = IF a > b THEN 0 ELSE b - a + 1
      BY <3>1, FS_Interval
    <3> QED
      BY <3>2 DEF a, b
  <2> QED
    BY <2>1, FS_EmptySet
<1>3. ASSUME NEW j \in 1 .. 4, NEW k \in 1 .. 4, j # k PROVE Cardinality({j, k}) = 2
  <2>1. IsFiniteSet({j}) /\ Cardinality({j}) = 1
    BY FS_Singleton
  <2>2. Cardinality({j} \union {k}) = Cardinality({j}) + 1
    BY <1>3, <2>1, FS_AddElement
  <2>3. {j} \union {k} = {j, k}
    OBVIOUS
  <2> QED
    BY <2>1, <2>2, <2>3
<1>4. ASSUME NEW j \in 1 .. 4, NEW k \in 1 .. 4, j # k, S = {j, k} PROVE Cardinality(S) = 2
  BY <1>3, <1>4
<1>5. Cardinality(S) = 0 \/ Cardinality(S) = 4 \/ Cardinality(S) = 2
  BY <1>1, <1>2, <1>4, Zenon
<1> QED
  BY <1>5

(* The grid counts as the library does.                                     *)
LEMMA GridCount == ASSUME NEW S PROVE Grid!Cardinality(S) = Cardinality(S)
BY DEF Grid!Cardinality, Cardinality

\* The edge between corners j and k meets row y; right of cell x, or not.
EdgeRight(P, x, y, j, k) ==
  P[j][2] <= y /\ y < P[k][2] /\ x * (P[k][2] - P[j][2]) < Meets(P[j], P[k], y)
EdgeLeft(P, x, y, j, k) ==
  P[j][2] <= y /\ y < P[k][2] /\ (x + 1) * (P[k][2] - P[j][2]) > Meets(P[j], P[k], y)
Before4(k) == IF k = 1 THEN 4 ELSE k - 1
Ends(k) == {k, Before4(k)}
Spans(P, y, k) == (P[k][2] > y) # (P[Before4(k)][2] > y)

(* What an edge crossed, or not, says of the place where it meets the row.  *)
LEMMA CrossedEdge ==
  ASSUME NEW P \in [1 .. 4 -> Int \X Int], Len(P) = 4, NEW x \in Int, NEW y \in Int,
         NEW k \in 1 .. 4, Spans(P, y, k)
  PROVE  /\ Ends(k) \subseteq 1 .. 4
         /\ Grid!Crosses(x, y, P, k) => \E s, t \in Ends(k) : EdgeRight(P, x, y, s, t)
         /\ ~Grid!Crosses(x, y, P, k) => \E s, t \in Ends(k) : EdgeLeft(P, x, y, s, t)
<1> DEFINE l == Before4(k)
           p == P[k]
           q == P[l]
           r == Grid!Div((q[1] - p[1]) * (y - p[2]), q[2] - p[2])
<1>1. l \in 1 .. 4 /\ l = IF k = 1 THEN Len(P) ELSE k - 1
  BY DEF Before4
<1>2. p \in Int \X Int /\ q \in Int \X Int /\ p[2] \in Int /\ q[2] \in Int
  BY <1>1
<1>3. Grid!Crosses(x, y, P, k) <=> (p[2] > y) # (q[2] > y) /\ x < r + p[1]
  BY <1>1 DEF Grid!Crosses
<1>4. (p[2] > y) # (q[2] > y)
  BY DEF Spans
<1>5. Grid!Crosses(x, y, P, k) <=> x < r + p[1]
  BY <1>3, <1>4
<1>8. Ends(k) = {k, l} /\ {k, l} \subseteq 1 .. 4
  BY <1>1 DEF Ends
<1> DEFINE ends == Ends(k)
<1>9. k \in ends /\ l \in ends /\ ends \subseteq 1 .. 4
  BY <1>8
<1> HIDE DEF l, ends
<1> SUFFICES /\ ends \subseteq 1 .. 4
             /\ Grid!Crosses(x, y, P, k) => \E s, t \in ends : EdgeRight(P, x, y, s, t)
             /\ ~Grid!Crosses(x, y, P, k) => \E s, t \in ends : EdgeLeft(P, x, y, s, t)
  BY DEF ends
<1>6. CASE p[2] <= y /\ y < q[2]
  <2>1. /\ x < r + p[1] => x * (q[2] - p[2]) < Meets(p, q, y)
        /\ ~(x < r + p[1]) => (x + 1) * (q[2] - p[2]) > Meets(p, q, y)
    <3> HIDE DEF p, q
    <3> QED
      BY <1>2, <1>6, CrossUp
  <2>2. /\ x < r + p[1] => EdgeRight(P, x, y, k, l)
        /\ ~(x < r + p[1]) => EdgeLeft(P, x, y, k, l)
    <3> HIDE DEF r
    <3> QED
      BY <1>6, <2>1 DEF EdgeRight, EdgeLeft
  <2> QED
    BY <1>5, <1>9, <2>2
<1>7. CASE q[2] <= y /\ y < p[2]
  <2>1. /\ x < r + p[1] => x * (p[2] - q[2]) < Meets(q, p, y)
        /\ ~(x < r + p[1]) => (x + 1) * (p[2] - q[2]) > Meets(q, p, y)
    <3> HIDE DEF p, q
    <3> QED
      BY <1>2, <1>7, CrossDown
  <2>2. /\ x < r + p[1] => EdgeRight(P, x, y, l, k)
        /\ ~(x < r + p[1]) => EdgeLeft(P, x, y, l, k)
    <3> HIDE DEF r
    <3> QED
      BY <1>7, <2>1 DEF EdgeRight, EdgeLeft
  <2> QED
    BY <1>5, <1>9, <2>2
<1> QED
  BY <1>2, <1>4, <1>6, <1>7

(* A cell with an odd number of crossings lies between two edges of its row.*)
LEMMA BetweenEdges ==
  ASSUME NEW P \in [1 .. 4 -> Int \X Int], Len(P) = 4, NEW x \in Int, NEW y \in Int,
         Grid!IsPointInPolygon(x, y, P)
  PROVE  /\ \E j, k \in 1 .. 4 : EdgeRight(P, x, y, j, k)
         /\ \E j, k \in 1 .. 4 : EdgeLeft(P, x, y, j, k)
<1> DEFINE S == {k \in 1 .. 4 : Spans(P, y, k)}
           T == {k \in 1 .. 4 : Grid!Crosses(x, y, P, k)}
<1>1. T \subseteq S
  BY DEF Grid!Crosses, Spans, Before4
<1>2. Cardinality(T) % 2 = 1
  BY GridCount DEF Grid!IsPointInPolygon
<1>3. Cardinality(S) \in {0, 2, 4}
  <2> DEFINE b(k) == P[k][2] > y
  <2>1. \A k \in 1 .. 4 : k \in S <=> b(k) # b(Before4(k))
    BY DEF Spans
  <2>2. Before4(1) = 4 /\ Before4(2) = 1 /\ Before4(3) = 2 /\ Before4(4) = 3
    BY DEF Before4
  <2>3. b(1) \in BOOLEAN /\ b(2) \in BOOLEAN /\ b(3) \in BOOLEAN /\ b(4) \in BOOLEAN
    OBVIOUS
  <2>4. S \in SUBSET (1 .. 4)
    OBVIOUS
  <2> HIDE DEF S, b
  <2>5. (1 \in S <=> b(1) # b(4)) /\ (2 \in S <=> b(2) # b(1))
        /\ (3 \in S <=> b(3) # b(2)) /\ (4 \in S <=> b(4) # b(3))
    BY <2>1, <2>2
  <2> QED
    BY <2>3, <2>4, <2>5, EvenChanges
<1>4. T # {} /\ T # S
  <2>1. Cardinality({}) = 0
    BY FS_EmptySet
  <2> HIDE DEF S, T
  <2> QED
    BY <1>2, <1>3, <2>1
<1>5. PICK k \in S : Grid!Crosses(x, y, P, k)
  BY <1>1, <1>4
<1>6. PICK l \in S : ~Grid!Crosses(x, y, P, l)
  BY <1>1, <1>4
<1> QED
  BY <1>5, <1>6, CrossedEdge

\* The corners of the box b, padded by pad, in the order of local_corners.
Turn(e, x, y) == <<x * e[1] - y * e[2], x * e[2] + y * e[1]>>
PaddedCorners(b, pad) ==
  LET x0 == Fine * b.box.minX - pad    x1 == Fine * b.box.maxX + pad
      y0 == Fine * b.box.minY - pad    y1 == Fine * b.box.maxY + pad
  IN  [at |-> <<Turn(b.edge, x0, y0), Turn(b.edge, x0, y1),
                Turn(b.edge, x1, y1), Turn(b.edge, x1, y0)>>,
       den |-> Fine * Fit!Norm2(b.edge)]
IsPad(pad, e) ==
  LET n == Fine * Fine * Padding * Padding * Fit!Norm2(e)
  IN  pad * pad <= n /\ (pad + 1) * (pad + 1) > n

\* A box passed on has an angle and its padded corners, but for one that is left out.
Shaped(b) ==
  /\ b.edge # <<0, 0>>
  /\ b.box.minX <= b.box.maxX /\ b.box.minY <= b.box.maxY
  /\ \/ b.corners = Fit!NoCorners /\ 2 * Padding < Thin
     \/ \E pad \in Nat : IsPad(pad, b.edge) /\ b.corners = PaddedCorners(b, pad)
ShapeInv == \A k \in 1 .. Len(boxes) : Shaped(boxes[k])

(* The box of a cluster has its shape when its fit is done.                 *)
LEMMA DoneShaped ==
  ASSUME FitInv, Fit!Done
  PROVE  Shaped([edge |-> edge, box |-> box, corners |-> corners'])
<1> DEFINE b == [edge |-> edge, box |-> box, corners |-> corners']
<1>1. fit_pc = "fit" /\ i > Len(hull) /\ corners' = IF Fit!LongAndThin THEN Fit!NoCorners ELSE Fit!Turned
  BY DEF Fit!Done
<1>2. Fitting
  BY <1>1 DEF FitInv
<1>3. edge # <<0, 0>>
  <2>1. Len(hull) = 2 * Len(points) - 2 /\ Len(points) >= 5 /\ i \in Int /\ Len(points) \in Nat
    BY <1>1, <1>2 DEF Fitting, FitInv
  <2>2. i > 1
    BY <1>1, <2>1
  <2> QED
    BY <1>1, <1>2, <2>2 DEF Fitting
<1>4. edge \in Int \X Int /\ box.minX <= box.maxX /\ box.minY <= box.maxY
  BY DEF FitInv
<1>5. CASE Fit!LongAndThin
  <2>1. \E side : Fit!Shorter(side, Thin)
    BY <1>5 DEF Fit!LongAndThin
  <2>2. Thin - 2 * Padding > 0
    BY <2>1 DEF Fit!Shorter
  <2>3. 2 * Padding < Thin
    BY <2>2, LengthsAssumption
  <2> QED
    BY <1>1, <1>3, <1>4, <1>5, <2>3 DEF Shaped
<1>6. CASE ~Fit!LongAndThin
  <2>1. Fit!Pad \in Nat /\ IsPad(Fit!Pad, edge)
    BY <1>4, PadType DEF IsPad
  <2>2. Fit!Turned = PaddedCorners(b, Fit!Pad)
    BY DEF Fit!Turned, PaddedCorners, Fit!Back, Turn
  <2>3. corners' = PaddedCorners(b, Fit!Pad)
    BY <1>1, <1>6, <2>2
  <2> QED
    BY <1>3, <1>4, <2>1, <2>3 DEF Shaped
<1> QED
  BY <1>5, <1>6

(* There is no box before the first scan.                                   *)
LEMMA ShapeInit == Init => ShapeInv
<1> SUFFICES ASSUME Init PROVE ShapeInv
  OBVIOUS
<1>1. boxes = << >>
  BY DEF Init
<1> QED
  BY <1>1 DEF ShapeInv

(* Every box of the scan has its shape.                                     *)
LEMMA ShapeStep ==
  IInv /\ ShapeInv /\ [Next]_vars => ShapeInv'
<1> SUFFICES ASSUME IInv, ShapeInv, [Next]_vars PROVE ShapeInv'
  OBVIOUS
<1>1. FitInv /\ boxes \in Seq([edge : Int \X Int, box : BoxType, corners : CornersType])
  BY DEF IInv, NodeInv
<1>2. CASE NewScan
  <2>1. boxes' = << >>
    BY <1>2 DEF NewScan
  <2> QED
    BY <2>1 DEF ShapeInv
<1>3. CASE EndCluster
  <2> DEFINE b == [edge |-> edge, box |-> box, corners |-> corners']
             n == Len(boxes)
  <2>1. Fit!Done /\ boxes' = Append(boxes, b)
    BY <1>3 DEF EndCluster
  <2>2. Shaped(b)
    BY <1>1, <2>1, DoneShaped
  <2> HIDE DEF b
  <2>3. n \in Nat /\ Len(boxes') = n + 1 /\ boxes'[n + 1] = b /\ \A k \in 1 .. n : boxes'[k] = boxes[k]
    BY <1>1, <2>1
  <2>4. \A k \in 1 .. n + 1 : k \in 1 .. n \/ k = n + 1
    BY <2>3
  <2>5. \A k \in 1 .. n : Shaped(boxes[k])
    BY DEF ShapeInv
  <2>6. \A k \in 1 .. n + 1 : Shaped(boxes'[k])
    BY <2>2, <2>3, <2>4, <2>5
  <2>7. \A k \in 1 .. Len(boxes') : Shaped(boxes'[k])
    BY <2>3, <2>6
  <2> QED
    BY <2>7 DEF ShapeInv, Shaped, PaddedCorners, IsPad
<1>4. CASE boxes' = boxes
  BY <1>4 DEF ShapeInv, Shaped
<1>5. NewScan \/ EndCluster \/ boxes' = boxes
  BY DEF Next, vars, BeginCluster, FitCluster, DrawScan, DrawCluster, PublishMap, EvaluateAllCandidates
<1> QED
  BY <1>2, <1>3, <1>4, <1>5

(* Squares are ordered as their roots.                                      *)
LEMMA Squares ==
  ASSUME NEW x \in Nat, NEW y \in Nat
  PROVE  /\ x * x <= y * y => x <= y
         /\ x * x < y * y => x < y
         /\ x <= y => x * x <= y * y
         /\ x < y => x * x < y * y
<1>1. ASSUME NEW a \in Nat, NEW b \in Nat, a <= b PROVE a * a <= b * b
  <2>1. a * a <= a * b /\ a * b <= b * b /\ a * b = b * a
    BY <1>1, Scale
  <2>2. a * a \in Int /\ a * b \in Int /\ b * b \in Int
    OBVIOUS
  <2> QED
    BY <2>1, <2>2
<1>2. ASSUME NEW a \in Nat, NEW b \in Nat, a < b PROVE a * a < b * b
  <2>1. a * a <= a * b /\ b * a < b * b /\ a * b = b * a
    BY <1>2, Scale
  <2>2. a * a \in Int /\ a * b \in Int /\ b * b \in Int
    OBVIOUS
  <2> QED
    BY <2>1, <2>2
<1>3. x * x \in Int /\ y * y \in Int
  OBVIOUS
<1> DEFINE xx == x * x
           yy == y * y
<1>4. /\ x <= y => xx <= yy
      /\ x < y => xx < yy
      /\ y <= x => yy <= xx
      /\ y < x => yy < xx
  BY <1>1, <1>2
<1> HIDE DEF xx, yy
<1>5. xx \in Int /\ yy \in Int
  BY <1>3 DEF xx, yy
<1>6. /\ xx <= yy => x <= y
      /\ xx < yy => x < y
  BY <1>4, <1>5
<1> QED
  BY <1>4, <1>6 DEF xx, yy

(* Products of bounded factors.                                             *)
LEMMA Products ==
  ASSUME NEW a \in Nat, NEW b \in Nat, NEW c \in Nat, NEW d \in Nat, a <= c, b <= d
  PROVE  a * b <= c * d
<1>1. a * b <= a * d /\ d * a <= d * c
  BY Scale
<1>2. a * d = d * a /\ d * c = c * d /\ a * b \in Int /\ a * d \in Int /\ c * d \in Int
  OBVIOUS
<1> QED
  BY <1>1, <1>2

(* A sum of two lengths against a sum of multiples of a root.               *)
LEMMA RootSum ==
  ASSUME NEW A \in Nat, NEW B \in Nat, NEW p \in Nat, NEW m \in Nat, NEW N \in Nat,
         A * A <= p * p * N, B * B <= m * m * N
  PROVE  (A + B) * (A + B) <= (p + m) * (p + m) * N
<1> DEFINE AA == A * A
           BB == B * B
           AB == A * B
           pp == p * p * N
           mm == m * m * N
           pm == p * m * N
<1>1. AA \in Nat /\ BB \in Nat /\ AB \in Nat /\ pp \in Nat /\ mm \in Nat /\ pm \in Nat
  <2>1. p * p \in Nat /\ m * m \in Nat /\ p * m \in Nat
    OBVIOUS
  <2> QED
    BY <2>1
<1>2. AA * BB = AB * AB /\ pp * mm = pm * pm
  OBVIOUS
<1>3. (A + B) * (A + B) = AA + 2 * AB + BB
  OBVIOUS
<1>4. (p + m) * (p + m) * N = pp + 2 * pm + mm
  OBVIOUS
<1>5. AA <= pp /\ BB <= mm
  OBVIOUS
<1> HIDE DEF AA, BB, AB, pp, mm, pm
<1>6. AB * AB <= pm * pm
  BY <1>1, <1>2, <1>5, Products
<1>7. AB <= pm
  BY <1>1, <1>6, Squares
<1> QED
  BY <1>1, <1>3, <1>4, <1>5, <1>7

\* What rounding adds to a form, in cells: corner, crossing and point.
Rounding(u, v) == Neg(u) + Neg(v) + Pos(u) + Pos(v) + Neg(u)

(* It is at most the root of five cells along the form.                     *)
LEMMA RoundingBound ==
  ASSUME NEW u \in Int, NEW v \in Int
  PROVE  /\ Rounding(u, v) \in Nat
         /\ Rounding(u, v) * Rounding(u, v) <= 5 * (u * u + v * v)
<1>1. PICK a \in Nat : a * a = u * u /\ Neg(u) + Pos(u) = a /\ Neg(u) \in 0 .. a
  <2>1. CASE u < 0
    <3>1. -u \in Nat /\ (-u) * (-u) = u * u /\ Neg(u) = -u /\ Pos(u) = 0
      BY <2>1 DEF Neg, Pos
    <3> QED
      BY <3>1
  <2>2. CASE ~(u < 0)
    <3>1. u \in Nat /\ Neg(u) = 0 /\ Pos(u) = u
      BY <2>2 DEF Neg, Pos
    <3> QED
      BY <3>1
  <2> QED
    BY <2>1, <2>2
<1>2. PICK c \in Nat : c * c = v * v /\ Neg(v) + Pos(v) = c
  <2>1. CASE v < 0
    <3>1. -v \in Nat /\ (-v) * (-v) = v * v /\ Neg(v) = -v /\ Pos(v) = 0
      BY <2>1 DEF Neg, Pos
    <3> QED
      BY <3>1
  <2>2. CASE ~(v < 0)
    <3>1. v \in Nat /\ Neg(v) = 0 /\ Pos(v) = v
      BY <2>2 DEF Neg, Pos
    <3> QED
      BY <3>1
  <2> QED
    BY <2>1, <2>2
<1>3. Neg(u) \in Int /\ Pos(u) \in Int /\ Neg(v) \in Int /\ Pos(v) \in Int
  BY DEF Neg, Pos
<1>4. Rounding(u, v) \in Nat /\ Rounding(u, v) <= 2 * a + c
  BY <1>1, <1>2, <1>3 DEF Rounding
<1>5. Rounding(u, v) * Rounding(u, v) <= (2 * a + c) * (2 * a + c)
  <2>1. 2 * a + c \in Nat
    OBVIOUS
  <2> QED
    BY <1>4, <2>1, Products
<1>6. (2 * a + c) * (2 * a + c) + (a - 2 * c) * (a - 2 * c) = 5 * (a * a + c * c)
  OBVIOUS
<1>7. (a - 2 * c) * (a - 2 * c) \in Nat /\ (2 * a + c) * (2 * a + c) \in Nat /\ a * a + c * c \in Nat
  <2>1. \A z \in Int : z * z \in Nat
    OBVIOUS
  <2>2. a - 2 * c \in Int /\ 2 * a + c \in Int
    OBVIOUS
  <2> QED
    BY <2>1, <2>2
<1> DEFINE R == Rounding(u, v) * Rounding(u, v)
           X == (2 * a + c) * (2 * a + c)
           Y == (a - 2 * c) * (a - 2 * c)
           Z == a * a + c * c
<1>8. R \in Int
  <2> DEFINE r == Rounding(u, v)
  <2>1. r \in Int
    BY <1>4
  <2> HIDE DEF r
  <2>2. r * r \in Int
    BY <2>1
  <2> QED
    BY <2>2 DEF r
<1>9. R <= X /\ X + Y = 5 * Z /\ Y \in Nat /\ X \in Nat /\ Z \in Nat
  BY <1>5, <1>6, <1>7
<1> HIDE DEF R, X, Y, Z
<1>10. R <= 5 * Z
  BY <1>8, <1>9
<1> QED
  BY <1>1, <1>2, <1>4, <1>10 DEF R, Z

(* Rounding stays within Margin.                                            *)
LEMMA MarginServes ==
  ASSUME NEW u \in Int, NEW v \in Int
  PROVE  LET B == (Sub * Fine) * Rounding(u, v)
         IN  B \in Nat /\ B * B <= (Fine * Margin) * (Fine * Margin) * (u * u + v * v)
<1> DEFINE R == Rounding(u, v)
           N == u * u + v * v
           B == (Sub * Fine) * R
           FM == Fine * Margin
<1>1. Sub \in Nat /\ Fine \in Nat /\ Margin \in Nat
  BY LengthsAssumption
<1>2. R \in Nat /\ R * R <= 5 * N /\ N \in Nat
  <2>1. u * u \in Nat /\ v * v \in Nat
    OBVIOUS
  <2> QED
    BY <2>1, RoundingBound
<1> HIDE DEF R, N
<1> DEFINE s == Sub * Fine
           ss == s * s
           RR == R * R
<1>3. s \in Nat /\ ss \in Nat /\ RR \in Nat /\ FM \in Nat /\ B \in Nat
  BY <1>1, <1>2
<1>4. B * B = ss * RR
  BY <1>1, <1>2
<1>5. ss * RR <= ss * (5 * N)
  <2> HIDE DEF ss, RR
  <2>1. 5 * N \in Int /\ RR <= 5 * N
    BY <1>2 DEF RR
  <2> QED
    BY <1>3, <2>1, Scale
<1>6. ss * (5 * N) = (Fine * Fine * N) * (5 * Sub * Sub)
  BY <1>1, <1>2
<1>7. (Fine * Fine * N) * (5 * Sub * Sub) <= (Fine * Fine * N) * (Margin * Margin)
  <2> DEFINE k == Fine * Fine * N
             l == 5 * Sub * Sub
             m == Margin * Margin
  <2>1. k \in Nat /\ l \in Int /\ m \in Int /\ l <= m
    <3>1. Fine * Fine \in Nat /\ Sub * Sub \in Nat
      BY <1>1
    <3> QED
      BY <1>1, <1>2, <3>1, MarginAssumption
  <2> HIDE DEF k, l, m
  <2>2. k * l <= k * m
    BY <2>1, Scale
  <2> QED
    BY <2>2 DEF k, l, m
<1>8. (Fine * Fine * N) * (Margin * Margin) = FM * FM * N
  BY <1>1, <1>2
<1> DEFINE w == (Fine * Fine * N) * (5 * Sub * Sub)
           z == FM * FM * N
           t == ss * RR
<1>9. w \in Int /\ z \in Int /\ t \in Int
  <2>1. Fine * Fine \in Nat /\ Sub * Sub \in Nat /\ FM * FM \in Nat
    BY <1>1, <1>3
  <2>2. Fine * Fine * N \in Nat /\ 5 * Sub * Sub \in Nat
    BY <1>1, <1>2, <2>1
  <2> QED
    BY <1>2, <1>3, <2>1, <2>2
<1>10. t <= w /\ w <= z /\ B * B = t
  BY <1>4, <1>5, <1>6, <1>7, <1>8
<1> HIDE DEF w, z, t
<1>11. B * B <= z
  BY <1>9, <1>10
<1> QED
  BY <1>3, <1>11 DEF z, R, N

(* Nothing farther from a side than padding and margin is reached.          *)
LEMMA NotReached ==
  ASSUME NEW u \in Int, NEW v \in Int, NEW pad \in Nat, NEW x \in Int,
         pad * pad <= Fine * Fine * Padding * Padding * (u * u + v * v),
         Fine * x < pad + (Sub * Fine) * Rounding(u, v)
  PROVE  ~(x > 0 /\ x * x >= (Padding + Margin) * (Padding + Margin) * (u * u + v * v))
<1> DEFINE N == u * u + v * v
           B == (Sub * Fine) * Rounding(u, v)
           FP == Fine * Padding
           FM == Fine * Margin
<1>1. Fine \in Nat \ {0} /\ Padding \in Nat /\ Margin \in Nat /\ FP \in Nat /\ FM \in Nat
  BY LengthsAssumption
<1>2. B \in Nat /\ B * B <= FM * FM * N
  BY MarginServes
<1>3. N \in Nat
  <2>1. u * u \in Nat /\ v * v \in Nat
    OBVIOUS
  <2> QED
    BY <2>1
<1> HIDE DEF B, N
<1>4. pad * pad <= FP * FP * N
  <2>1. Fine * Fine * Padding * Padding * N = FP * FP * N
    BY <1>1, <1>3
  <2> QED
    BY <2>1 DEF N
<1>5. (pad + B) * (pad + B) <= (FP + FM) * (FP + FM) * N
  <2> HIDE DEF FP, FM
  <2> QED
    BY <1>1, <1>2, <1>3, <1>4, RootSum
<1> SUFFICES ASSUME x > 0, x * x >= (Padding + Margin) * (Padding + Margin) * N PROVE FALSE
  BY DEF N
<1> DEFINE c == Fine * x
           d == pad + B
           PM == (Padding + Margin) * (Padding + Margin) * N
           FF == Fine * Fine
<1>6. c \in Nat /\ d \in Nat /\ c < d
  BY <1>1, <1>2 DEF B
<1>7. c * c < d * d
  <2> HIDE DEF c, d
  <2> QED
    BY <1>6, Squares
<1>8. c * c = FF * (x * x) /\ (FP + FM) * (FP + FM) * N = FF * PM
  BY <1>1, <1>3
<1>9. FF * (x * x) >= FF * PM
  <2> DEFINE xx == x * x
  <2>1. FF \in Nat /\ xx \in Int /\ PM \in Int /\ PM <= xx
    <3>1. (Padding + Margin) * (Padding + Margin) \in Nat
      BY <1>1
    <3> QED
      BY <1>1, <1>3, <3>1
  <2> HIDE DEF FF, xx, PM
  <2>2. FF * PM <= FF * xx
    BY <2>1, Scale
  <2>3. FF * PM \in Int /\ FF * xx \in Int
    BY <2>1
  <2> QED
    BY <2>2, <2>3 DEF xx
<1> DEFINE cc == c * c
           dd == d * d
           e == FF * PM
<1>10. cc \in Int /\ dd \in Int /\ e \in Int
  <2>1. (Padding + Margin) * (Padding + Margin) \in Nat
    BY <1>1
  <2>2. FF \in Nat /\ PM \in Nat
    BY <1>1, <1>3, <2>1
  <2> HIDE DEF c, d, FF, PM
  <2> QED
    BY <1>6, <2>2
<1>11. cc < dd /\ dd <= e /\ cc >= e
  BY <1>5, <1>7, <1>8, <1>9
<1> HIDE DEF cc, dd, e
<1> QED
  BY <1>10, <1>11

(* A corner turned back, along the edge and across it.                      *)
LEMMA TurnForms ==
  ASSUME NEW e \in Int \X Int, NEW x \in Int, NEW y \in Int
  PROVE  LET t == Turn(e, x, y)
             N == Fit!Norm2(e)
         IN  /\ t \in Int \X Int /\ N \in Int
             /\ Form(e[1], e[2], t) = N * x /\ Form(-e[1], -e[2], t) = N * (-x)
             /\ Form(-e[2], e[1], t) = N * y /\ Form(e[2], -e[1], t) = N * (-y)
<1> DEFINE a == e[1]
           b == e[2]
<1>1. a \in Int /\ b \in Int
  OBVIOUS
<1>2. Turn(e, x, y) = <<x * a - y * b, x * b + y * a>> /\ Fit!Norm2(e) = a * a + b * b
  BY DEF Turn, Fit!Norm2
<1> HIDE DEF a, b
<1> DEFINE t == <<x * a - y * b, x * b + y * a>>
           N == a * a + b * b
<1>3. t \in Int \X Int /\ N \in Int
  BY <1>1
<1>4. Form(a, b, t) = N * x
  <2>1. a * (x * a - y * b) + b * (x * b + y * a) = N * x
    BY <1>1
  <2> QED
    BY <2>1 DEF Form
<1>5. Form(-a, -b, t) = N * (-x)
  <2>1. (-a) * (x * a - y * b) + (-b) * (x * b + y * a) = N * (-x)
    BY <1>1
  <2> QED
    BY <2>1 DEF Form
<1>6. Form(-b, a, t) = N * y
  <2>1. (-b) * (x * a - y * b) + a * (x * b + y * a) = N * y
    BY <1>1
  <2> QED
    BY <2>1 DEF Form
<1>7. Form(b, -a, t) = N * (-y)
  <2>1. b * (x * a - y * b) + (-a) * (x * b + y * a) = N * (-y)
    BY <1>1
  <2> QED
    BY <2>1 DEF Form
<1> QED
  BY <1>2, <1>3, <1>4, <1>5, <1>6, <1>7 DEF a, b

(* A point rounded down to cells (convertBaselinkToGrid).                   *)
LEMMA GridOfCell ==
  ASSUME NEW c \in Int \X Int, NEW d \in Nat \ {0}
  PROVE  /\ Grid!GridOf(c, d) \in Int \X Int
         /\ InCell(Grid!GridOf(c, d),
                   <<c[1] - Grid!Origin[1] * d, c[2] - Grid!Origin[2] * d>>, Sub * d)
<1>1. Sub * d \in Nat \ {0}
  <2>1. \A k \in Nat \ {0}, l \in Nat \ {0} : k * l \in Nat \ {0}
    OBVIOUS
  <2> QED
    BY <2>1, LengthsAssumption
<1>2. Grid!Origin[1] \in Int /\ Grid!Origin[2] \in Int
  BY LengthsAssumption DEF Grid!Origin
<1> DEFINE K == Sub * d
           a1 == c[1] - Grid!Origin[1] * d
           a2 == c[2] - Grid!Origin[2] * d
<1>3. a1 \in Int /\ a2 \in Int
  BY <1>2
<1>4. Grid!GridOf(c, d) = <<a1 \div K, a2 \div K>>
  BY DEF Grid!GridOf
<1> HIDE DEF K, a1, a2
<1>5. /\ a1 \div K \in Int /\ (a1 \div K) * K <= a1 /\ a1 < (a1 \div K) * K + K
      /\ a2 \div K \in Int /\ (a2 \div K) * K <= a2 /\ a2 < (a2 \div K) * K + K
  BY <1>1, <1>3, Quotient DEF K
<1>6. InCell(<<a1 \div K, a2 \div K>>, <<a1, a2>>, K)
  BY <1>5 DEF InCell
<1> QED
  BY <1>4, <1>5, <1>6 DEF K, a1, a2

\* Where the lidar is, from the corner of the map.
Off == <<Mount[1] - Grid!Origin[1], Mount[2] - Grid!Origin[2]>>

(* The corners of a polygon are the cells of the corners of the box.        *)
LEMMA PolygonCells ==
  ASSUME NEW N \in Nat \ {0}, NEW c \in CornersType, Len(c.at) = 4, c.den = Fine * N
  PROVE  LET P == Grid!Polygon(ToBaselink(c))
         IN  /\ P \in [1 .. 4 -> Int \X Int] /\ Len(P) = 4 /\ Off \in Int \X Int
             /\ \A k \in 1 .. 4 : c.at[k] \in Int \X Int /\ CornerCell(P[k], c.at[k], Off, N)
<1> DEFINE d == Fine * N
           P == Grid!Polygon(ToBaselink(c))
           moved == [k \in DOMAIN c.at |-> <<c.at[k][1] + Mount[1] * d, c.at[k][2] + Mount[2] * d>>]
<1>1. c.at \in Seq(Int \X Int) /\ DOMAIN c.at = 1 .. 4 /\ d \in Nat \ {0}
  <2>1. c.at \in Seq(Int \X Int) /\ c.den \in Nat \ {0}
    BY DEF CornersType
  <2> QED
    BY <2>1
<1>2. Mount[1] \in Int /\ Mount[2] \in Int /\ Grid!Origin[1] \in Int /\ Grid!Origin[2] \in Int
  BY LengthsAssumption DEF Grid!Origin
<1>3. ToBaselink(c).at = moved /\ ToBaselink(c).den = d
  BY DEF ToBaselink, CornersType
<1>4. P = [k \in 1 .. 4 |-> Grid!GridOf(moved[k], d)] /\ Len(moved) = 4
  <2>1. DOMAIN moved = 1 .. 4
    BY <1>1
  <2>2. Len(moved) = 4
    BY <2>1
  <2> HIDE DEF moved, d
  <2> QED
    BY <1>3, <2>2 DEF Grid!Polygon
<1>5. ASSUME NEW k \in 1 .. 4
      PROVE  /\ Grid!GridOf(moved[k], d) \in Int \X Int /\ c.at[k] \in Int \X Int
             /\ CornerCell(Grid!GridOf(moved[k], d), c.at[k], Off, N)
  <2> DEFINE a == c.at[k]
             z == moved[k]
  <2>1. a \in Int \X Int /\ a[1] \in Int /\ a[2] \in Int
    BY <1>1
  <2>2. z = <<a[1] + Mount[1] * d, a[2] + Mount[2] * d>>
    BY <1>1
  <2>3. z \in Int \X Int
    <3> HIDE DEF a, z, d
    <3> QED
      BY <1>1, <1>2, <2>1, <2>2
  <2>4. <<z[1] - Grid!Origin[1] * d, z[2] - Grid!Origin[2] * d>> = From(Off, a, d)
    <3> HIDE DEF a, z, d
    <3>1. z[1] - Grid!Origin[1] * d = a[1] + (Mount[1] - Grid!Origin[1]) * d
      <4> DEFINE s == a[1]
                 m == Mount[1]
                 o == Grid!Origin[1]
                 w == z[1]
      <4>1. s \in Int /\ m \in Int /\ o \in Int /\ d \in Int /\ w = s + m * d
        BY <1>1, <1>2, <2>1, <2>2
      <4> HIDE DEF s, m, o, w
      <4>2. w - o * d = s + (m - o) * d
        BY <4>1
      <4> QED
        BY <4>2 DEF s, m, o, w
    <3>2. z[2] - Grid!Origin[2] * d = a[2] + (Mount[2] - Grid!Origin[2]) * d
      <4> DEFINE s == a[2]
                 m == Mount[2]
                 o == Grid!Origin[2]
                 w == z[2]
      <4>1. s \in Int /\ m \in Int /\ o \in Int /\ d \in Int /\ w = s + m * d
        BY <1>1, <1>2, <2>1, <2>2
      <4> HIDE DEF s, m, o, w
      <4>2. w - o * d = s + (m - o) * d
        BY <4>1
      <4> QED
        BY <4>2 DEF s, m, o, w
    <3> QED
      BY <3>1, <3>2 DEF From, Off
  <2> HIDE DEF a, z, d
  <2>5. /\ Grid!GridOf(z, d) \in Int \X Int
        /\ InCell(Grid!GridOf(z, d), <<z[1] - Grid!Origin[1] * d, z[2] - Grid!Origin[2] * d>>, Sub * d)
    BY <1>1, <2>3, GridOfCell
  <2> QED
    BY <2>1, <2>4, <2>5 DEF CornerCell, a, z, d
<1>6. P \in [1 .. 4 -> Int \X Int] /\ \A k \in 1 .. 4 : P[k] = Grid!GridOf(moved[k], d)
  <2> HIDE DEF P, moved, d
  <2> QED
    BY <1>4, <1>5
<1>7. Len(P) = 4
  <2> HIDE DEF P
  <2> QED
    BY <1>6
<1>8. Off \in Int \X Int
  BY <1>2 DEF Off
<1> HIDE DEF P, moved, d
<1> QED
  BY <1>5, <1>6, <1>7, <1>8 DEF P

(* The cell of a point that is looked up.                                   *)
LEMMA LookedCell ==
  ASSUME NEW p \in Int \X Int, NEW d \in Nat \ {0}
  PROVE  LET g == Grid!WorldToCostmap(p, d)
             q == <<p[1] - Mount[1] * d, p[2] - Mount[2] * d>>
         IN  /\ g \in Int \X Int /\ q \in Int \X Int
             /\ InCell(<<g[1], g[2]>>, From(Off, q, d), Sub * d)
<1>1. Mount[1] \in Int /\ Mount[2] \in Int /\ Grid!Origin[1] \in Int /\ Grid!Origin[2] \in Int
  BY LengthsAssumption DEF Grid!Origin
<1> DEFINE q == <<p[1] - Mount[1] * d, p[2] - Mount[2] * d>>
<1>2. Grid!WorldToCostmap(p, d) = Grid!GridOf(p, d)
  BY DEF Grid!WorldToCostmap, Grid!GridOf
<1>3. <<p[1] - Grid!Origin[1] * d, p[2] - Grid!Origin[2] * d>> = From(Off, q, d)
  <2>1. p[1] - Grid!Origin[1] * d = (p[1] - Mount[1] * d) + (Mount[1] - Grid!Origin[1]) * d
        /\ p[2] - Grid!Origin[2] * d = (p[2] - Mount[2] * d) + (Mount[2] - Grid!Origin[2]) * d
    BY <1>1
  <2> QED
    BY <2>1 DEF From, Off
<1>4. q \in Int \X Int
  BY <1>1
<1>5. /\ Grid!GridOf(p, d) \in Int \X Int
      /\ InCell(Grid!GridOf(p, d), From(Off, q, d), Sub * d)
  BY <1>3, GridOfCell
<1>6. \A g \in Int \X Int : <<g[1], g[2]>> = g
  OBVIOUS
<1> QED
  BY <1>2, <1>4, <1>5, <1>6

BoxRecord == [edge : Int \X Int, box : BoxType, corners : CornersType]

(* The corners of a padded box are beyond none of its sides.                *)
LEMMA CornersWithin ==
  ASSUME NEW b \in BoxRecord, NEW pad \in Nat,
         b.box.minX <= b.box.maxX, b.box.minY <= b.box.maxY
  PROVE  LET at == PaddedCorners(b, pad).at
             N == Fit!Norm2(b.edge)
             e == b.edge
         IN  \A k \in 1 .. 4 :
               /\ at[k] \in Int \X Int
               /\ Form(e[1], e[2], at[k]) <= N * (Fine * b.box.maxX + pad)
               /\ Form(-e[1], -e[2], at[k]) <= N * (Fine * (-b.box.minX) + pad)
               /\ Form(-e[2], e[1], at[k]) <= N * (Fine * b.box.maxY + pad)
               /\ Form(e[2], -e[1], at[k]) <= N * (Fine * (-b.box.minY) + pad)
<1> DEFINE e == b.edge
           N == Fit!Norm2(e)
           x0 == Fine * b.box.minX - pad
           x1 == Fine * b.box.maxX + pad
           y0 == Fine * b.box.minY - pad
           y1 == Fine * b.box.maxY + pad
           at == PaddedCorners(b, pad).at
<1>1. e \in Int \X Int /\ b.box \in BoxType
  BY DEF BoxRecord
<1>2. x0 \in Int /\ x1 \in Int /\ y0 \in Int /\ y1 \in Int
      /\ -x0 = Fine * (-b.box.minX) + pad /\ -y0 = Fine * (-b.box.minY) + pad
      /\ x0 <= x1 /\ y0 <= y1
  <2> DEFINE a == b.box.minX
             c == b.box.maxX
             f == b.box.minY
             g == b.box.maxY
  <2>1. a \in Int /\ c \in Int /\ f \in Int /\ g \in Int /\ a <= c /\ f <= g /\ Fine \in Nat
    BY <1>1, LengthsAssumption DEF BoxType
  <2> HIDE DEF a, c, f, g
  <2>2. Fine * a <= Fine * c /\ Fine * f <= Fine * g
    BY <2>1, Scale
  <2>3. Fine * a \in Int /\ Fine * c \in Int /\ Fine * f \in Int /\ Fine * g \in Int
        /\ Fine * (-a) = -(Fine * a) /\ Fine * (-f) = -(Fine * f)
    BY <2>1
  <2>4. /\ Fine * a - pad \in Int /\ Fine * c + pad \in Int
        /\ Fine * f - pad \in Int /\ Fine * g + pad \in Int
        /\ -(Fine * a - pad) = Fine * (-a) + pad /\ -(Fine * f - pad) = Fine * (-f) + pad
        /\ Fine * a - pad <= Fine * c + pad /\ Fine * f - pad <= Fine * g + pad
    <3> DEFINE s == Fine * a
               t == Fine * c
               u == Fine * f
               v == Fine * g
    <3>1. s \in Int /\ t \in Int /\ u \in Int /\ v \in Int /\ s <= t /\ u <= v
          /\ Fine * (-a) = -s /\ Fine * (-f) = -u
      BY <2>2, <2>3
    <3> HIDE DEF s, t, u, v
    <3>2. /\ s - pad \in Int /\ t + pad \in Int /\ u - pad \in Int /\ v + pad \in Int
          /\ -(s - pad) = Fine * (-a) + pad /\ -(u - pad) = Fine * (-f) + pad
          /\ s - pad <= t + pad /\ u - pad <= v + pad
      BY <3>1
    <3> QED
      BY <3>2 DEF s, t, u, v
  <2> QED
    BY <2>4 DEF a, c, f, g
<1>3. at = <<Turn(e, x0, y0), Turn(e, x0, y1), Turn(e, x1, y1), Turn(e, x1, y0)>>
  BY DEF PaddedCorners
<1> HIDE DEF x0, x1, y0, y1, at, e
<1>4. ASSUME NEW x \in {x0, x1}, NEW y \in {y0, y1}
      PROVE  /\ Turn(e, x, y) \in Int \X Int
             /\ Form(e[1], e[2], Turn(e, x, y)) <= N * x1
             /\ Form(-e[1], -e[2], Turn(e, x, y)) <= N * (-x0)
             /\ Form(-e[2], e[1], Turn(e, x, y)) <= N * y1
             /\ Form(e[2], -e[1], Turn(e, x, y)) <= N * (-y0)
  <2>1. x \in Int /\ y \in Int
    BY <1>2
  <2>2. /\ Turn(e, x, y) \in Int \X Int /\ N \in Int
        /\ Form(e[1], e[2], Turn(e, x, y)) = N * x /\ Form(-e[1], -e[2], Turn(e, x, y)) = N * (-x)
        /\ Form(-e[2], e[1], Turn(e, x, y)) = N * y /\ Form(e[2], -e[1], Turn(e, x, y)) = N * (-y)
    BY <1>1, <2>1, TurnForms
  <2>3. N \in Nat
    <3>1. e[1] \in Int /\ e[2] \in Int
      BY <1>1
    <3>2. e[1] * e[1] \in Nat /\ e[2] * e[2] \in Nat
      <4>1. \A z \in Int : z * z \in Nat
        OBVIOUS
      <4> QED
        BY <3>1, <4>1
    <3> QED
      BY <3>2 DEF Fit!Norm2
  <2> HIDE DEF N
  <2>4. x <= x1 /\ -x <= -x0 /\ y <= y1 /\ -y <= -y0 /\ -x \in Int /\ -y \in Int
        /\ -x0 \in Int /\ -y0 \in Int
    BY <1>2, <2>1
  <2>5. N * x <= N * x1 /\ N * (-x) <= N * (-x0) /\ N * y <= N * y1 /\ N * (-y) <= N * (-y0)
    BY <1>2, <2>1, <2>3, <2>4, Scale
  <2> QED
    BY <2>2, <2>5
<1>5. ASSUME NEW k \in 1 .. 4
      PROVE  \E x \in {x0, x1}, y \in {y0, y1} : at[k] = Turn(e, x, y)
  <2>1. k = 1 \/ k = 2 \/ k = 3 \/ k = 4
    OBVIOUS
  <2> QED
    BY <1>3, <2>1
<1>6. ASSUME NEW k \in 1 .. 4
      PROVE  /\ at[k] \in Int \X Int
             /\ Form(e[1], e[2], at[k]) <= N * x1
             /\ Form(-e[1], -e[2], at[k]) <= N * (-x0)
             /\ Form(-e[2], e[1], at[k]) <= N * y1
             /\ Form(e[2], -e[1], at[k]) <= N * (-y0)
  BY <1>4, <1>5
<1> QED
  BY <1>2, <1>6 DEF x0, x1, y0, y1, at, e

\* The point p / d of base_link, over the same denominator, as the lidar has it.
FromLidar(p, d) == <<p[1] - Mount[1] * d, p[2] - Mount[2] * d>>

\* In the row of cell g the edge between cells j and k of P is on the outer side of g
\* for a form with the factor u of x.
EdgeBeyond(u, P, g, j, k) ==
  \/ u >= 0 /\ EdgeRight(P, g[1], g[2], j, k)
  \/ u < 0 /\ EdgeLeft(P, g[1], g[2], j, k)

(* A point looked up inside of an edge is no farther out than the corners   *)
(* of it, but for rounding.                                                 *)
LEMMA EdgeReach ==
  ASSUME NEW u \in Int, NEW v \in Int, u # 0 \/ v # 0, NEW m \in Int, NEW pad \in Int,
         NEW N \in Nat \ {0}, NEW c \in CornersType, Len(c.at) = 4, c.den = Fine * N,
         NEW j \in 1 .. 4, NEW k \in 1 .. 4,
         Form(u, v, c.at[j]) <= N * (Fine * m + pad), Form(u, v, c.at[k]) <= N * (Fine * m + pad),
         NEW p \in Int \X Int, NEW d \in Nat \ {0},
         EdgeBeyond(u, Grid!Polygon(ToBaselink(c)), Grid!WorldToCostmap(p, d), j, k)
  PROVE  Fine * Form(u, v, FromLidar(p, d))
           < d * (Fine * m + pad) + d * ((Sub * Fine) * Rounding(u, v))
<1> DEFINE g == Grid!WorldToCostmap(p, d)
           P == Grid!Polygon(ToBaselink(c))
           c1 == c.at[j]
           c2 == c.at[k]
           p1 == P[j]
           p2 == P[k]
           x == g[1]
           y == g[2]
           q == FromLidar(p, d)
<1>1. /\ P \in [1 .. 4 -> Int \X Int] /\ Off \in Int \X Int
      /\ \A l \in 1 .. 4 : c.at[l] \in Int \X Int /\ CornerCell(P[l], c.at[l], Off, N)
  BY PolygonCells
<1>2. g \in Int \X Int /\ q \in Int \X Int /\ InCell(<<x, y>>, From(Off, q, d), Sub * d)
  BY LookedCell DEF FromLidar
<1>3. p1[2] <= y /\ y < p2[2]
  BY DEF EdgeBeyond, EdgeRight, EdgeLeft
<1>4. \/ u >= 0 /\ x * (p2[2] - p1[2]) < Meets(p1, p2, y)
      \/ u < 0 /\ (x + 1) * (p2[2] - p1[2]) > Meets(p1, p2, y)
  BY DEF EdgeBeyond, EdgeRight, EdgeLeft
<1>5. /\ CornerCell(p1, c1, Off, N) /\ Form(u, v, c1) <= N * (Fine * m + pad)
      /\ CornerCell(p2, c2, Off, N) /\ Form(u, v, c2) <= N * (Fine * m + pad)
  <2> HIDE DEF P
  <2> QED
    BY <1>1
<1>6. c1 \in Int \X Int /\ c2 \in Int \X Int /\ p1 \in Int \X Int /\ p2 \in Int \X Int
  <2> HIDE DEF P
  <2> QED
    BY <1>1
<1>7. x \in Int /\ y \in Int
  <2> HIDE DEF g
  <2> QED
    BY <1>2
<1> HIDE DEF g, P, c1, c2, p1, p2, x, y, q
<1>8. Fine * Form(u, v, q)
        < d * (Fine * m + pad)
            + d * ((Sub * Fine) * (Neg(u) + Neg(v) + Pos(u) + Pos(v) + Neg(u)))
  BY <1>1, <1>2, <1>3, <1>4, <1>5, <1>6, <1>7, EdgeNear, ZenonT(60)
<1> QED
  BY <1>8 DEF Rounding, q

(* A cell drawn for a box is not far beyond a side of it.                   *)
LEMMA SideNear ==
  ASSUME NEW u \in Int, NEW v \in Int, u # 0 \/ v # 0, NEW m \in Int, NEW pad \in Nat,
         NEW N \in Nat \ {0}, N = u * u + v * v,
         pad * pad <= Fine * Fine * Padding * Padding * N,
         NEW c \in CornersType, Len(c.at) = 4, c.den = Fine * N,
         \A k \in 1 .. 4 : Form(u, v, c.at[k]) <= N * (Fine * m + pad),
         NEW p \in Int \X Int,
         LET g == Grid!WorldToCostmap(p, 1)
         IN  Grid!IsPointInPolygon(g[1], g[2], Grid!Polygon(ToBaselink(c)))
  PROVE  LET x == Form(u, v, <<p[1] - Mount[1], p[2] - Mount[2]>>) - m
         IN  ~(x > 0 /\ x * x >= (Padding + Margin) * (Padding + Margin) * N)
<1> DEFINE d == 1
           g == Grid!WorldToCostmap(p, 1)
           P == Grid!Polygon(ToBaselink(c))
           q == <<p[1] - Mount[1], p[2] - Mount[2]>>
           B == (Sub * Fine) * Rounding(u, v)
           F == Form(u, v, q)
<1>1. P \in [1 .. 4 -> Int \X Int] /\ Len(P) = 4
  BY PolygonCells
<1>2. d \in Nat \ {0} /\ FromLidar(p, d) = q /\ q \in Int \X Int /\ g = Grid!WorldToCostmap(p, d)
  <2>1. Mount[1] \in Int /\ Mount[2] \in Int
    BY LengthsAssumption
  <2> QED
    BY <2>1 DEF FromLidar
<1> HIDE DEF d
<1>3. g[1] \in Int /\ g[2] \in Int
  <2>1. g \in Int \X Int
    <3> HIDE DEF g
    <3> QED
      BY <1>2, LookedCell
  <2> QED
    BY <2>1
<1>4. Grid!IsPointInPolygon(g[1], g[2], P)
  OBVIOUS
<1> HIDE DEF P, g
<1>5. PICK j \in 1 .. 4, k \in 1 .. 4 : EdgeBeyond(u, P, g, j, k)
  <2>1. /\ \E j, k \in 1 .. 4 : EdgeRight(P, g[1], g[2], j, k)
        /\ \E j, k \in 1 .. 4 : EdgeLeft(P, g[1], g[2], j, k)
    BY <1>1, <1>3, <1>4, BetweenEdges
  <2> QED
    BY <2>1 DEF EdgeBeyond
<1>6. Fine * Form(u, v, q) < d * (Fine * m + pad) + d * B
  <2>1. EdgeBeyond(u, Grid!Polygon(ToBaselink(c)), Grid!WorldToCostmap(p, d), j, k)
    BY <1>2, <1>5 DEF P
  <2>2. Form(u, v, c.at[j]) <= N * (Fine * m + pad) /\ Form(u, v, c.at[k]) <= N * (Fine * m + pad)
    OBVIOUS
  <2>3. pad \in Int
    OBVIOUS
  <2>4. Fine * Form(u, v, FromLidar(p, d)) < d * (Fine * m + pad) + d * ((Sub * Fine) * Rounding(u, v))
    BY <1>2, <2>1, <2>2, <2>3, EdgeReach
  <2> QED
    BY <1>2, <2>4
<1>7. B \in Int /\ F \in Int
  <2>1. B \in Int
    BY MarginServes
  <2>2. q[1] \in Int /\ q[2] \in Int
    BY <1>2
  <2>3. F \in Int
    BY <2>2 DEF Form
  <2> QED
    BY <2>1, <2>3
<1> HIDE DEF q
<1>8. Fine * F < Fine * m + pad + B
  <2> DEFINE z == Fine * m + pad
  <2>1. z \in Int
    BY LengthsAssumption
  <2>2. Fine * F < d * z + d * B
    BY <1>6
  <2> HIDE DEF B, F, z
  <2>3. d * z = z /\ d * B = B
    BY <1>7, <2>1 DEF d
  <2>4. Fine * F < z + B
    BY <2>2, <2>3
  <2> QED
    BY <2>4 DEF z
<1> HIDE DEF F
<1>9. Fine * (F - m) < pad + B /\ F - m \in Int
  <2> HIDE DEF B
  <2>1. Fine * (F - m) = Fine * F - Fine * m /\ Fine * F \in Int /\ Fine * m \in Int
    BY <1>7, LengthsAssumption
  <2> QED
    BY <1>7, <1>8, <2>1
<1>10. ~(F - m > 0 /\ (F - m) * (F - m) >= (Padding + Margin) * (Padding + Margin) * (u * u + v * v))
  BY <1>9, NotReached DEF B
<1> QED
  BY <1>10 DEF F, q

(* A cell drawn for a box is near it.                                       *)
LEMMA DrawnIsNear ==
  ASSUME NEW b \in BoxRecord, Shaped(b), NEW p \in Int \X Int,
         InPolygon(Grid!WorldToCostmap(p, 1), ToBaselink(b.corners))
  PROVE  ~FarFrom(p, b)
<1> DEFINE g == Grid!WorldToCostmap(p, 1)
           P == Grid!Polygon(ToBaselink(b.corners))
<1>1. Grid!IsPointInPolygon(g[1], g[2], P)
  BY DEF InPolygon
<1>2. CASE b.corners = Fit!NoCorners
  <2> DEFINE c == Fit!NoCorners
  <2>1. c \in CornersType /\ Len(c.at) = 4 /\ c.den = 1 /\ \A k \in 1 .. 4 : c.at[k] = <<0, 0>>
    <3>1. \A k \in 1 .. 4 : k = 1 \/ k = 2 \/ k = 3 \/ k = 4
      OBVIOUS
    <3> QED
      BY <3>1 DEF Fit!NoCorners, CornersType
  <2> HIDE DEF c
  <2> DEFINE moved == [k \in DOMAIN c.at |-> <<c.at[k][1] + Mount[1] * c.den, c.at[k][2] + Mount[2] * c.den>>]
             z == <<0 + Mount[1] * 1, 0 + Mount[2] * 1>>
  <2>2. DOMAIN c.at = 1 .. 4
    BY <2>1 DEF CornersType
  <2>3. moved = [k \in 1 .. 4 |-> z] /\ Len(moved) = 4
    BY <2>1, <2>2
  <2>4. ToBaselink(c).at = moved /\ ToBaselink(c).den = 1
    BY <2>1 DEF ToBaselink, CornersType
  <2>5. P = [k \in 1 .. 4 |-> Grid!GridOf(z, 1)]
    <3> HIDE DEF z, moved
    <3>1. P = Grid!Polygon(ToBaselink(c))
      BY <1>2 DEF c
    <3>2. Grid!Polygon(ToBaselink(c)) = [k \in 1 .. Len(moved) |-> Grid!GridOf(moved[k], 1)]
      BY <2>4 DEF Grid!Polygon
    <3> HIDE DEF P
    <3>3. \A k \in 1 .. 4 : moved[k] = z
      BY <2>3
    <3> QED
      BY <2>3, <3>1, <3>2, <3>3
  <2>6. z \in Int \X Int /\ Grid!GridOf(z, 1) \in Int \X Int
    <3>1. z \in Int \X Int
      BY LengthsAssumption
    <3> HIDE DEF z
    <3>2. 1 \in Nat \ {0}
      OBVIOUS
    <3>3. Grid!GridOf(z, 1) \in Int \X Int
      BY <3>1, <3>2, GridOfCell, Zenon
    <3> QED
      BY <3>1, <3>3
  <2>7. g[1] \in Int /\ g[2] \in Int
    <3>1. 1 \in Nat \ {0}
      OBVIOUS
    <3>2. g \in Int \X Int
      BY <3>1, LookedCell, Zenon
    <3> QED
      BY <3>2
  <2> HIDE DEF z, P, g
  <2>8. P \in [1 .. 4 -> Int \X Int] /\ Len(P) = 4 /\ \A j, k \in 1 .. 4 : P[j] = P[k]
    BY <2>5, <2>6
  <2>9. PICK j \in 1 .. 4, k \in 1 .. 4 : EdgeRight(P, g[1], g[2], j, k)
    BY <1>1, <2>7, <2>8, BetweenEdges
  <2>10. P[j] = P[k] /\ P[j][2] \in Int
    BY <2>8
  <2> QED
    BY <2>7, <2>9, <2>10 DEF EdgeRight
<1>3. ASSUME NEW pad \in Nat, IsPad(pad, b.edge), b.corners = PaddedCorners(b, pad) PROVE ~FarFrom(p, b)
  <2> DEFINE e == b.edge
             N == Fit!Norm2(e)
             c == b.corners
             q == <<p[1] - Mount[1], p[2] - Mount[2]>>
  <2>1. e \in Int \X Int /\ e # <<0, 0>> /\ e[1] \in Int /\ e[2] \in Int /\ (e[1] # 0 \/ e[2] # 0)
    BY DEF BoxRecord, Shaped
  <2>2. /\ N \in Nat \ {0} /\ N = e[1] * e[1] + e[2] * e[2]
        /\ N = (-e[1]) * (-e[1]) + (-e[2]) * (-e[2])
        /\ N = (-e[2]) * (-e[2]) + e[1] * e[1]
        /\ N = e[2] * e[2] + (-e[1]) * (-e[1])
    <3> DEFINE a == e[1]
               f == e[2]
    <3>1. a \in Int /\ f \in Int /\ (a # 0 \/ f # 0)
      BY <2>1
    <3>2. N = a * a + f * f
      BY DEF Fit!Norm2
    <3> HIDE DEF a, f
    <3>3. \A z \in Int : z * z \in Nat /\ (z # 0 => z * z > 0) /\ (-z) * (-z) = z * z
      OBVIOUS
    <3>4. a * a + f * f \in Nat \ {0}
      BY <3>1, <3>3
    <3>5. (-a) * (-a) = a * a /\ (-f) * (-f) = f * f
      BY <3>1, <3>3
    <3>6. a * a \in Int /\ f * f \in Int
      BY <3>1
    <3>7. f * f + a * a = a * a + f * f
      BY <3>6
    <3> QED
      BY <3>2, <3>4, <3>5, <3>7 DEF a, f
  <2>3. c \in CornersType /\ Len(c.at) = 4 /\ c.den = Fine * N
    BY <1>3 DEF BoxRecord, PaddedCorners
  <2>4. pad * pad <= Fine * Fine * Padding * Padding * N
    BY <1>3 DEF IsPad
  <2>5. /\ b.box.minX \in Int /\ b.box.maxX \in Int /\ b.box.minY \in Int /\ b.box.maxY \in Int
        /\ b.box.minX <= b.box.maxX /\ b.box.minY <= b.box.maxY
    BY DEF BoxRecord, BoxType, Shaped
  <2>6. \A k \in 1 .. 4 :
          /\ Form(e[1], e[2], c.at[k]) <= N * (Fine * b.box.maxX + pad)
          /\ Form(-e[1], -e[2], c.at[k]) <= N * (Fine * (-b.box.minX) + pad)
          /\ Form(-e[2], e[1], c.at[k]) <= N * (Fine * b.box.maxY + pad)
          /\ Form(e[2], -e[1], c.at[k]) <= N * (Fine * (-b.box.minY) + pad)
    BY <1>3, <2>5, CornersWithin
  <2>7. Grid!IsPointInPolygon(g[1], g[2], Grid!Polygon(ToBaselink(c)))
    BY <1>1
  <2>8. /\ -e[1] \in Int /\ -e[2] \in Int /\ (-e[1] # 0 \/ -e[2] # 0) /\ (-e[2] # 0 \/ e[1] # 0)
        /\ (e[2] # 0 \/ -e[1] # 0) /\ -b.box.minX \in Int /\ -b.box.minY \in Int
    BY <2>1, <2>5
  <2> HIDE DEF e, N, c
  <2> DEFINE Far(x) == x > 0 /\ x * x >= (Padding + Margin) * (Padding + Margin) * N
  <2>9. ~Far(Form(e[1], e[2], q) - b.box.maxX)
    BY <2>1, <2>2, <2>3, <2>4, <2>5, <2>6, <2>7, SideNear
  <2>10. ~Far(Form(-e[1], -e[2], q) - (-b.box.minX))
    BY <2>1, <2>2, <2>3, <2>4, <2>5, <2>6, <2>7, <2>8, SideNear
  <2>11. ~Far(Form(-e[2], e[1], q) - b.box.maxY)
    BY <2>1, <2>2, <2>3, <2>4, <2>5, <2>6, <2>7, <2>8, SideNear
  <2>12. ~Far(Form(e[2], -e[1], q) - (-b.box.minY))
    BY <2>1, <2>2, <2>3, <2>4, <2>5, <2>6, <2>7, <2>8, SideNear
  <2> HIDE DEF Far
  <2>13. /\ Form(e[1], e[2], q) - b.box.maxX = Fit!Along(q, e) - b.box.maxX
         /\ Form(-e[1], -e[2], q) - (-b.box.minX) = b.box.minX - Fit!Along(q, e)
         /\ Form(-e[2], e[1], q) - b.box.maxY = Fit!Across(q, e) - b.box.maxY
         /\ Form(e[2], -e[1], q) - (-b.box.minY) = b.box.minY - Fit!Across(q, e)
    <3> DEFINE r == q[1]
               s == q[2]
               a == e[1]
               f == e[2]
    <3>1. r \in Int /\ s \in Int /\ a \in Int /\ f \in Int
      BY <2>1, LengthsAssumption
    <3>2. /\ Fit!Along(q, e) = r * a + s * f /\ Fit!Across(q, e) = s * a - r * f
          /\ Form(e[1], e[2], q) = a * r + f * s /\ Form(-e[1], -e[2], q) = (-a) * r + (-f) * s
          /\ Form(-e[2], e[1], q) = (-f) * r + a * s /\ Form(e[2], -e[1], q) = f * r + (-a) * s
      BY DEF Fit!Along, Fit!Across, Form
    <3> HIDE DEF r, s, a, f
    <3>3. /\ r * a = a * r /\ s * f = f * s /\ s * a = a * s /\ r * f = f * r
          /\ (-a) * r = -(a * r) /\ (-f) * s = -(f * s) /\ (-f) * r = -(f * r) /\ (-a) * s = -(a * s)
          /\ a * r \in Int /\ f * s \in Int /\ a * s \in Int /\ f * r \in Int
      BY <3>1
    <3> DEFINE aa == a * r
               fs == f * s
               ra == a * s
               fr == f * r
    <3>4. /\ Fit!Along(q, e) = aa + fs /\ Fit!Across(q, e) = ra - fr
          /\ Form(e[1], e[2], q) = aa + fs /\ Form(-e[1], -e[2], q) = -aa + -fs
          /\ Form(-e[2], e[1], q) = -fr + ra /\ Form(e[2], -e[1], q) = fr + -ra
          /\ aa \in Int /\ fs \in Int /\ ra \in Int /\ fr \in Int
      BY <3>2, <3>3
    <3> HIDE DEF aa, fs, ra, fr, q
    <3>5. Form(-e[1], -e[2], q) - (-b.box.minX) = b.box.minX - Fit!Along(q, e)
      BY <2>5, <3>4
    <3>7. Form(e[1], e[2], q) = Fit!Along(q, e)
      BY <3>4
    <3>8. Form(-e[2], e[1], q) = -fr + ra /\ fr \in Int /\ ra \in Int
      BY <3>4
    <3>9. Fit!Across(q, e) = ra - fr
      BY <3>4
    <3>10. Form(-e[2], e[1], q) = Fit!Across(q, e)
      BY <3>8, <3>9
    <3>11. Form(e[2], -e[1], q) = fr + -ra
      BY <3>4
    <3>12. b.box.minY \in Int
      BY <2>5
    <3>13. Form(e[2], -e[1], q) - (-b.box.minY) = b.box.minY - Fit!Across(q, e)
      BY <3>8, <3>9, <3>11, <3>12
    <3> QED
      BY <3>5, <3>7, <3>10, <3>13
  <2>14. /\ ~Far(Fit!Along(q, e) - b.box.maxX) /\ ~Far(b.box.minX - Fit!Along(q, e))
         /\ ~Far(Fit!Across(q, e) - b.box.maxY) /\ ~Far(b.box.minY - Fit!Across(q, e))
    BY <2>9, <2>10, <2>11, <2>12, <2>13
  <2> QED
    BY <2>14, Zenon DEF FarFrom, Far, e, N
<1> QED
  BY <1>2, <1>3 DEF Shaped

(* A lookup has a cost.                                                     *)
LEMMA CostType ==
  ASSUME GridInv, NEW p, NEW d
  PROVE  Grid!GetCostmapCost(p, d) \in Int
<1> DEFINE g == Grid!WorldToCostmap(p, d)
           raw == msg[g[2] * Width + g[1]]
<1>1. Grid!GetCostmapCost(p, d) =
        IF DOMAIN msg = {} THEN 0
        ELSE IF ~Grid!OnMap(g) THEN Grid!lethal_cost_threshold
        ELSE IF raw < 0 THEN 30 ELSE Grid!MinOf({raw, 100})
  BY DEF Grid!GetCostmapCost
<1>2. IsMap(msg)
  BY GridTypes DEF GridInv
<1>3. CASE DOMAIN msg # {} /\ Grid!OnMap(g)
  <2>1. g[1] \in 0 .. Width - 1 /\ g[2] \in 0 .. Height - 1
    BY <1>3 DEF Grid!OnMap
  <2>2. g[2] * Width + g[1] \in DOMAIN msg
    <3>1. g[2] * Width + g[1] \in 0 .. Grid!Size - 1
      BY <2>1, IndexOnMap
    <3> QED
      BY <1>2, <1>3, <3>1 DEF IsMap
  <2>3. raw \in Cost
    BY <1>2, <2>2 DEF IsMap
  <2> HIDE DEF raw, g
  <2>4. raw \in Int
    BY <2>3 DEF Cost, Grid!unknown_cost, Grid!free_cost, Grid!obstacle_cost
  <2>5. 100 \in Int
    OBVIOUS
  <2> DEFINE top == 100
  <2>6. top \in Int
    BY <2>5
  <2> HIDE DEF top
  <2>7. Grid!MinOf({raw, top}) \in Int
    BY <2>4, <2>6, Clamped
  <2> QED
    BY <1>1, <1>3, <2>7 DEF raw, g, top
<1>4. CASE DOMAIN msg = {}
  <2>1. Grid!GetCostmapCost(p, d) = 0
    BY <1>1, <1>4
  <2> QED
    BY <2>1
<1>5. CASE DOMAIN msg # {} /\ ~Grid!OnMap(g)
  <2>1. Grid!GetCostmapCost(p, d) = Grid!lethal_cost_threshold
    BY <1>1, <1>5
  <2> QED
    BY <2>1 DEF Grid!lethal_cost_threshold
<1> QED
  BY <1>3, <1>4, <1>5

(* What is far from all boxes is not lethal.                                *)
LEMMA NothingElse ==
  IInv /\ ShapeInv /\ BoxesShown => NothingElseSeen
<1> SUFFICES ASSUME IInv, ShapeInv, BoxesShown, stage = "spin", plan.scan < scan, NEW p \in Looked,
                    \A k \in DOMAIN boxes : FarFrom(p, boxes[k])
             PROVE  Grid!GetCostmapCost(p, 1) < Grid!lethal_cost_threshold
  BY DEF NothingElseSeen
<1>1. ASSUME NEW k \in DOMAIN boxes
      PROVE  ~InPolygon(Grid!WorldToCostmap(p, 1), ToBaselink(boxes[k].corners))
  <2>1. boxes[k] \in BoxRecord /\ Shaped(boxes[k])
    <3>1. boxes \in Seq(BoxRecord)
      BY DEF IInv, NodeInv, BoxRecord
    <3>2. k \in 1 .. Len(boxes)
      BY <3>1
    <3> QED
      BY <3>1, <3>2 DEF ShapeInv
  <2>2. p \in Int \X Int
    BY LengthsAssumption DEF Looked
  <2> QED
    BY <2>1, <2>2, DrawnIsNear
<1>2. ~(Grid!GetCostmapCost(p, 1) >= Grid!lethal_cost_threshold)
  BY <1>1 DEF BoxesShown
<1>3. Grid!GetCostmapCost(p, 1) \in Int
  BY CostType DEF IInv
<1> QED
  BY <1>2, <1>3 DEF Grid!lethal_cost_threshold

----------------------------------------------------------------------------
(* What is near a cluster is drawn: of the edges of a padded box only those *)
(* on the right are crossed, in every row of the box exactly one, and what  *)
(* rounding takes is less than the padding.                                 *)

(* The padding is more than rounding can take away.                         *)
LEMMA PadServes ==
  ASSUME NEW u \in Int, NEW v \in Int, NEW pad \in Nat,
         (pad + 1) * (pad + 1) > Fine * Fine * Padding * Padding * (u * u + v * v)
  PROVE  (Sub * Fine) * Rounding(u, v) \in Nat /\ (Sub * Fine) * Rounding(u, v) <= pad
<1> DEFINE N == u * u + v * v
           B == (Sub * Fine) * Rounding(u, v)
           FM == Fine * Margin
           FP == Fine * Padding
<1>1. Fine \in Nat /\ Padding \in Nat /\ Margin \in Nat /\ Margin <= Padding
  BY LengthsAssumption, PaddingAssumption
<1>2. N \in Nat
  <2>1. u * u \in Nat /\ v * v \in Nat
    OBVIOUS
  <2> QED
    BY <2>1
<1>3. B \in Nat /\ B * B <= FM * FM * N
  BY MarginServes
<1> HIDE DEF B, N
<1>4. FM \in Nat /\ FP \in Nat /\ FM <= FP
  BY <1>1, Scale
<1>5. Fine * Fine * Padding * Padding * N = FP * FP * N
  BY <1>1, <1>2
<1> HIDE DEF FM, FP
<1>6. FM * FM * N <= FP * FP * N
  <2>1. FM * FM <= FP * FP /\ FM * FM \in Nat /\ FP * FP \in Nat
    BY <1>4, Products
  <2> DEFINE s == FM * FM
             t == FP * FP
  <2> HIDE DEF s, t
  <2>2. s * N <= t * N
    BY <1>2, <2>1, Products DEF s, t
  <2> QED
    BY <2>2 DEF s, t
<1> DEFINE n == pad + 1
           nn == n * n
           BB == B * B
           s == FM * FM * N
           t == FP * FP * N
<1>7. BB <= s /\ s <= t /\ t < nn
  BY <1>3, <1>5, <1>6 DEF N
<1>8. BB \in Int /\ s \in Int /\ t \in Int /\ nn \in Int
  <2>1. FM * FM \in Nat /\ FP * FP \in Nat
    BY <1>4
  <2> QED
    BY <1>2, <1>3, <2>1
<1> HIDE DEF s, t
<1>9. B * B < n * n
  BY <1>7, <1>8
<1>10. B < n
  <2>1. n \in Nat
    OBVIOUS
  <2> HIDE DEF n
  <2> QED
    BY <1>3, <1>9, <2>1, Squares
<1> QED
  BY <1>3, <1>10 DEF B

\* q / d, seen from the lidar, is on the inner side of a padded side, by more than rounding
\* may take away.
InsideSide(u, v, m, pad, q, d) ==
  Fine * Form(u, v, q) + d * ((Sub * Fine) * Rounding(-u, -v)) <= d * (Fine * m + pad)

(* Seen from inside of a side of the box, the edge there is not on the      *)
(* inner side of the cell.                                                  *)
LEMMA EdgeOuter ==
  ASSUME NEW u \in Int, NEW v \in Int, u # 0 \/ v # 0, NEW m \in Int, NEW pad \in Nat,
         NEW N \in Nat \ {0}, NEW c \in CornersType, Len(c.at) = 4, c.den = Fine * N,
         NEW j \in 1 .. 4, NEW k \in 1 .. 4,
         Form(u, v, c.at[j]) = N * (Fine * m + pad), Form(u, v, c.at[k]) = N * (Fine * m + pad),
         NEW p \in Int \X Int, NEW d \in Nat \ {0}, InsideSide(u, v, m, pad, FromLidar(p, d), d)
  PROVE  ~EdgeBeyond(-u, Grid!Polygon(ToBaselink(c)), Grid!WorldToCostmap(p, d), j, k)
<1> DEFINE B == (Sub * Fine) * Rounding(-u, -v)
           q == FromLidar(p, d)
           F == Form(u, v, q)
<1> SUFFICES ASSUME EdgeBeyond(-u, Grid!Polygon(ToBaselink(c)), Grid!WorldToCostmap(p, d), j, k)
             PROVE  FALSE
  OBVIOUS
<1>1. Fine \in Nat \ {0} /\ Mount[1] \in Int /\ Mount[2] \in Int
  BY LengthsAssumption
<1>2. \A z \in Int \X Int : Form(u, v, z) \in Int /\ Form(-u, -v, z) = -Form(u, v, z)
  <2> TAKE z \in Int \X Int
  <2>1. z[1] \in Int /\ z[2] \in Int
    OBVIOUS
  <2> QED
    BY <2>1 DEF Form
<1>3. q \in Int \X Int /\ c.at[j] \in Int \X Int /\ c.at[k] \in Int \X Int
  <2>1. q \in Int \X Int
    BY <1>1 DEF FromLidar
  <2>2. \A k1 \in 1 .. 4 : c.at[k1] \in Int \X Int
    BY PolygonCells
  <2> QED
    BY <2>1, <2>2
<1> DEFINE z == Fine * m + pad
           y == Fine * (-m) + (-pad)
<1>4. z \in Int /\ y = -z /\ N * y = -(N * z) /\ N * z \in Int
  <2>1. z \in Int /\ y = -z
    BY <1>1
  <2> HIDE DEF z, y
  <2> QED
    BY <2>1
<1>5. Form(-u, -v, c.at[j]) <= N * y /\ Form(-u, -v, c.at[k]) <= N * y
  <2>1. Form(-u, -v, c.at[j]) = -(N * z) /\ Form(-u, -v, c.at[k]) = -(N * z)
    BY <1>2, <1>3
  <2> HIDE DEF z, y
  <2> QED
    BY <1>4, <2>1
<1>6. Fine * Form(-u, -v, q) < d * y + d * B
  <2>1. -u \in Int /\ -v \in Int /\ (-u # 0 \/ -v # 0) /\ -m \in Int /\ -pad \in Int
    OBVIOUS
  <2> QED
    BY <1>5, <2>1, EdgeReach
<1>7. B \in Int
  BY MarginServes
<1>8. Fine * Form(-u, -v, q) = -(Fine * F) /\ Fine * F \in Int
  <2>1. F \in Int /\ Form(-u, -v, q) = -F
    BY <1>2, <1>3
  <2> HIDE DEF F, q
  <2> QED
    BY <1>1, <2>1
<1>9. Fine * F + d * B <= d * z
  BY DEF InsideSide
<1>10. d * y = -(d * z) /\ d * z \in Int /\ d * B \in Int
  <2> HIDE DEF B, z, y
  <2> QED
    BY <1>4, <1>7
<1> DEFINE r1 == d * z
           r2 == d * y
           r3 == d * B
           r4 == Fine * F
<1>11. -r4 < r2 + r3 /\ r2 = -r1 /\ r4 + r3 <= r1 /\ r1 \in Int /\ r3 \in Int /\ r4 \in Int
  BY <1>6, <1>8, <1>9, <1>10
<1> HIDE DEF r1, r2, r3, r4
<1> QED
  BY <1>11

(* From inside of a side of the box the edge there is crossed if it is on   *)
(* the right, and only then.                                                *)
LEMMA SideCrossed ==
  ASSUME NEW u \in Int, NEW v \in Int, u # 0 \/ v # 0, NEW m \in Int, NEW pad \in Nat,
         NEW N \in Nat \ {0}, NEW c \in CornersType, Len(c.at) = 4, c.den = Fine * N,
         NEW k \in 1 .. 4,
         Form(u, v, c.at[k]) = N * (Fine * m + pad),
         Form(u, v, c.at[Before4(k)]) = N * (Fine * m + pad),
         NEW p \in Int \X Int, NEW d \in Nat \ {0}, InsideSide(u, v, m, pad, FromLidar(p, d), d),
         Spans(Grid!Polygon(ToBaselink(c)), Grid!WorldToCostmap(p, d)[2], k)
  PROVE  LET g == Grid!WorldToCostmap(p, d)
         IN  Grid!Crosses(g[1], g[2], Grid!Polygon(ToBaselink(c)), k) <=> u > 0
<1> DEFINE P == Grid!Polygon(ToBaselink(c))
           g == Grid!WorldToCostmap(p, d)
           l == Before4(k)
<1>1. P \in [1 .. 4 -> Int \X Int] /\ Len(P) = 4
  BY PolygonCells
<1>2. g[1] \in Int /\ g[2] \in Int
  <2>1. g \in Int \X Int
    <3> HIDE DEF g
    <3> QED
      BY LookedCell DEF g
  <2> QED
    BY <2>1
<1> DEFINE ends == Ends(k)
           x == g[1]
           y == g[2]
<1>3. /\ ends \subseteq 1 .. 4
      /\ Grid!Crosses(x, y, P, k) => \E s, t \in ends : EdgeRight(P, x, y, s, t)
      /\ ~Grid!Crosses(x, y, P, k) => \E s, t \in ends : EdgeLeft(P, x, y, s, t)
  <2>1. x \in Int /\ y \in Int /\ Spans(P, y, k)
    BY <1>2
  <2> HIDE DEF P, x, y, g, l
  <2>2. /\ Ends(k) \subseteq 1 .. 4
        /\ Grid!Crosses(x, y, P, k) => \E s, t \in Ends(k) : EdgeRight(P, x, y, s, t)
        /\ ~Grid!Crosses(x, y, P, k) => \E s, t \in Ends(k) : EdgeLeft(P, x, y, s, t)
    BY <1>1, <2>1, CrossedEdge, Zenon
  <2> QED
    BY <2>2
<1>4. ASSUME NEW s \in ends, NEW t \in ends PROVE ~EdgeBeyond(-u, P, g, s, t)
  <2>1. s \in 1 .. 4 /\ t \in 1 .. 4
    BY <1>3
  <2>2. Form(u, v, c.at[s]) = N * (Fine * m + pad) /\ Form(u, v, c.at[t]) = N * (Fine * m + pad)
    BY DEF Ends
  <2> HIDE DEF ends
  <2> QED
    BY <2>1, <2>2, EdgeOuter
<1> HIDE DEF P, g, ends
<1>5. u > 0 => -u < 0
  OBVIOUS
<1>6. ~(u > 0) => -u >= 0
  OBVIOUS
<1> QED
  BY <1>3, <1>4, <1>5, <1>6 DEF EdgeBeyond, P, g

(* A corner not above a point is not in a row beyond the point's, and one   *)
(* that is a cell higher is.                                                *)
LEMMA RowCell ==
  ASSUME NEW N \in Nat \ {0}, NEW d \in Nat \ {0}, NEW off \in Int \X Int,
         NEW c \in Int \X Int, NEW q \in Int \X Int, NEW P \in Int \X Int, NEW g \in Int \X Int,
         CornerCell(P, c, off, N), InCell(g, From(off, q, d), Sub * d)
  PROVE  /\ d * c[2] <= (Fine * N) * q[2] => P[2] <= g[2]
         /\ d * c[2] >= (Fine * N) * q[2] + d * (Sub * (Fine * N)) => g[2] < P[2]
<1> DEFINE D == Fine * N
           o == off[2]
           y == c[2]
           z == q[2]
           r == P[2]
           s == g[2]
<1>1. D \in Nat \ {0} /\ Sub \in Nat \ {0}
  <2>1. \A a \in Nat \ {0}, b \in Nat \ {0} : a * b \in Nat \ {0}
    OBVIOUS
  <2> QED
    BY <2>1, LengthsAssumption
<1>2. o \in Int /\ y \in Int /\ z \in Int /\ r \in Int /\ s \in Int
  OBVIOUS
<1>3. /\ r * (Sub * D) <= y + o * D /\ y + o * D < r * (Sub * D) + Sub * D
      /\ s * (Sub * d) <= z + o * d /\ z + o * d < s * (Sub * d) + Sub * d
  BY DEF CornerCell, InCell, From
<1> HIDE DEF D, o, y, z, r, s
<1> DEFINE K == d * (Sub * D)
           w == d * (o * D)
           dy == d * y
           Dz == D * z
           rK == r * K
           sK == s * K
<1>4. K \in Nat \ {0} /\ w \in Int /\ dy \in Int /\ Dz \in Int /\ rK \in Int /\ sK \in Int
  <2>1. \A a \in Nat \ {0}, b \in Nat \ {0} : a * b \in Nat \ {0}
    OBVIOUS
  <2>2. K \in Nat \ {0}
    BY <1>1, <2>1
  <2>3. w \in Int /\ dy \in Int /\ Dz \in Int
    BY <1>1, <1>2
  <2> HIDE DEF K
  <2> QED
    BY <1>2, <2>2, <2>3
<1>5. rK <= dy + w /\ dy + w < rK + K
  <2>1. d * (r * (Sub * D)) <= d * (y + o * D) /\ d * (y + o * D) < d * (r * (Sub * D) + Sub * D)
    <3> DEFINE a == r * (Sub * D)
               b == y + o * D
               e == r * (Sub * D) + Sub * D
    <3>1. a \in Int /\ b \in Int /\ e \in Int /\ a <= b /\ b < e
      BY <1>1, <1>2, <1>3
    <3> HIDE DEF a, b, e
    <3>2. d * a <= d * b /\ d * b < d * e
      BY <3>1, Scale
    <3> QED
      BY <3>2 DEF a, b, e
  <2>2. d * (r * (Sub * D)) = rK /\ d * (y + o * D) = dy + w /\ d * (r * (Sub * D) + Sub * D) = rK + K
    BY <1>1, <1>2
  <2> QED
    BY <2>1, <2>2
<1>6. sK <= Dz + w /\ Dz + w < sK + K
  <2>1. D * (s * (Sub * d)) <= D * (z + o * d) /\ D * (z + o * d) < D * (s * (Sub * d) + Sub * d)
    <3> DEFINE a == s * (Sub * d)
               b == z + o * d
               e == s * (Sub * d) + Sub * d
    <3>1. a \in Int /\ b \in Int /\ e \in Int /\ a <= b /\ b < e
      BY <1>1, <1>2, <1>3
    <3> HIDE DEF a, b, e
    <3>2. D * a <= D * b /\ D * b < D * e
      BY <1>1, <3>1, Scale
    <3> QED
      BY <3>2 DEF a, b, e
  <2>2. D * (s * (Sub * d)) = sK /\ D * (z + o * d) = Dz + w /\ D * (s * (Sub * d) + Sub * d) = sK + K
    BY <1>1, <1>2
  <2> QED
    BY <2>1, <2>2
<1>7. (s + 1) * K = sK + K /\ K * r = rK /\ K * s = sK /\ K * (s + 1) = sK + K
  <2> HIDE DEF K
  <2> QED
    BY <1>2, <1>4
<1> HIDE DEF K, w, dy, Dz, rK, sK
<1>8. ASSUME dy <= Dz PROVE r <= s
  <2>1. K * r < K * (s + 1)
    BY <1>4, <1>5, <1>6, <1>7, <1>8
  <2>2. r < s + 1
    <3> DEFINE t == s + 1
    <3>1. t \in Int
      BY <1>2
    <3> HIDE DEF t
    <3> QED
      BY <1>2, <1>4, <2>1, <3>1, Scale DEF t
  <2> QED
    BY <1>2, <2>2
<1>9. ASSUME dy >= Dz + K PROVE s < r
  <2>1. K * s < K * r
    BY <1>4, <1>5, <1>6, <1>7, <1>9
  <2> QED
    BY <1>2, <1>4, <2>1, Scale
<1> QED
  BY <1>8, <1>9 DEF K, dy, Dz, D, y, z, r, s

(* A weighted coordinate, and how much it grows.                            *)
LEMMA Weighted ==
  ASSUME NEW w \in Int, NEW X \in Int, NEW A \in Int, NEW s \in Nat
  PROVE  /\ w >= 0 /\ X + s <= A => w * X <= w * A
         /\ w <= 0 /\ X >= A + s => w * X <= w * A
         /\ w >= 0 /\ X >= A + s => w * X >= w * A + (Pos(w) + Neg(w)) * s
         /\ w <= 0 /\ X + s <= A => w * X >= w * A + (Pos(w) + Neg(w)) * s
<1>1. ASSUME w >= 0
      PROVE  /\ X + s <= A => w * X <= w * A
             /\ X >= A + s => w * X >= w * A + (Pos(w) + Neg(w)) * s
  <2>1. Pos(w) + Neg(w) = w /\ w \in Nat
    BY <1>1 DEF Pos, Neg
  <2>2. w * (A + s) = w * A + w * s /\ w * A \in Int /\ w * s \in Int /\ w * X \in Int /\ A + s \in Int
    OBVIOUS
  <2>3. /\ X <= A => w * X <= w * A
        /\ A + s <= X => w * (A + s) <= w * X
    BY <2>1, <2>2, Scale
  <2>4. X + s <= A => X <= A
    OBVIOUS
  <2>5. (Pos(w) + Neg(w)) * s = w * s
    BY <2>1
  <2> DEFINE r1 == w * X
             r2 == w * A
             r3 == w * s
             r4 == w * (A + s)
  <2>6. /\ r1 \in Int /\ r2 \in Int /\ r3 \in Int /\ r4 = r2 + r3
        /\ X <= A => r1 <= r2
        /\ A + s <= X => r4 <= r1
    BY <2>2, <2>3
  <2> HIDE DEF r1, r2, r3, r4
  <2>7. /\ X + s <= A => r1 <= r2
        /\ X >= A + s => r1 >= r2 + r3
    BY <2>4, <2>6
  <2> QED
    BY <2>5, <2>7 DEF r1, r2, r3
<1>2. ASSUME w <= 0
      PROVE  /\ X >= A + s => w * X <= w * A
             /\ X + s <= A => w * X >= w * A + (Pos(w) + Neg(w)) * s
  <2> DEFINE n == -w
  <2>1. Pos(w) + Neg(w) = n /\ n \in Nat /\ w = -n
    BY <1>2 DEF Pos, Neg
  <2> HIDE DEF n
  <2>2. n * (X + s) = n * X + n * s /\ n * A \in Int /\ n * s \in Int /\ n * X \in Int /\ X + s \in Int
        /\ w * X = -(n * X) /\ w * A = -(n * A)
    BY <2>1
  <2>3. /\ A <= X => n * A <= n * X
        /\ X + s <= A => n * (X + s) <= n * A
    BY <2>1, <2>2, Scale
  <2>4. X >= A + s => A <= X
    OBVIOUS
  <2>5. (Pos(w) + Neg(w)) * s = n * s
    BY <2>1
  <2> DEFINE r1 == n * X
             r2 == n * A
             r3 == n * s
             r4 == n * (X + s)
  <2>6. /\ r1 \in Int /\ r2 \in Int /\ r3 \in Int /\ r4 = r1 + r3 /\ w * X = -r1 /\ w * A = -r2
        /\ A <= X => r2 <= r1
        /\ X + s <= A => r4 <= r2
    BY <2>2, <2>3
  <2> HIDE DEF r1, r2, r3, r4
  <2>7. /\ X >= A + s => -r1 <= -r2
        /\ X + s <= A => -r1 >= -r2 + r3
    BY <2>4, <2>6
  <2> QED
    BY <2>5, <2>6, <2>7 DEF r3
<1> QED
  BY <1>1, <1>2

(* Of the edges that pass the row an odd number is on the right: those that *)
(* are lead from the lowest corner to the highest.                          *)
LEMMA OddCrossing ==
  ASSUME NEW P \in [1 .. 4 -> Int \X Int], Len(P) = 4, NEW x \in Int, NEW y \in Int,
         NEW a \in Int, NEW f \in Int, a # 0 \/ f # 0,
         Spans(P, y, 1) => (Grid!Crosses(x, y, P, 1) <=> f > 0),
         Spans(P, y, 2) => (Grid!Crosses(x, y, P, 2) <=> -a > 0),
         Spans(P, y, 3) => (Grid!Crosses(x, y, P, 3) <=> -f > 0),
         Spans(P, y, 4) => (Grid!Crosses(x, y, P, 4) <=> a > 0),
         f >= 0 /\ a >= 0 => P[1][2] <= y /\ y < P[3][2],
         f >= 0 /\ a <= 0 => P[2][2] <= y /\ y < P[4][2],
         f <= 0 /\ a <= 0 => P[3][2] <= y /\ y < P[1][2],
         f <= 0 /\ a >= 0 => P[4][2] <= y /\ y < P[2][2]
  PROVE  Grid!IsPointInPolygon(x, y, P)
<1> DEFINE T == {k \in 1 .. 4 : Grid!Crosses(x, y, P, k)}
           hi(k) == P[k][2] > y
<1>1. \A k \in 1 .. 4 : Grid!Crosses(x, y, P, k) => Spans(P, y, k)
  BY DEF Grid!Crosses, Spans, Before4
<1>2. /\ Spans(P, y, 1) <=> hi(1) # hi(4)
      /\ Spans(P, y, 2) <=> hi(2) # hi(1)
      /\ Spans(P, y, 3) <=> hi(3) # hi(2)
      /\ Spans(P, y, 4) <=> hi(4) # hi(3)
  BY DEF Spans, Before4
<1>3. \A k \in 1 .. 4 : hi(k) \in BOOLEAN /\ (P[k][2] <= y => ~hi(k)) /\ (y < P[k][2] => hi(k))
  OBVIOUS
<1>4. /\ f >= 0 /\ a >= 0 => ~hi(1) /\ hi(3)
      /\ f >= 0 /\ a <= 0 => ~hi(2) /\ hi(4)
      /\ f <= 0 /\ a <= 0 => ~hi(3) /\ hi(1)
      /\ f <= 0 /\ a >= 0 => ~hi(4) /\ hi(2)
  BY <1>3
<1> DEFINE C(k) == Grid!Crosses(x, y, P, k)
<1>5. /\ C(1) <=> (hi(1) # hi(4)) /\ f > 0
      /\ C(2) <=> (hi(2) # hi(1)) /\ a < 0
      /\ C(3) <=> (hi(3) # hi(2)) /\ f < 0
      /\ C(4) <=> (hi(4) # hi(3)) /\ a > 0
  <2>1. (-a > 0 <=> a < 0) /\ (-f > 0 <=> f < 0)
    OBVIOUS
  <2>2. 1 \in 1 .. 4 /\ 2 \in 1 .. 4 /\ 3 \in 1 .. 4 /\ 4 \in 1 .. 4
    OBVIOUS
  <2> HIDE DEF hi
  <2> QED
    BY <1>1, <1>2, <2>1, <2>2
<1>6. T = {k \in 1 .. 4 : C(k)}
  OBVIOUS
<1>7. hi(1) \in BOOLEAN /\ hi(2) \in BOOLEAN /\ hi(3) \in BOOLEAN /\ hi(4) \in BOOLEAN
  BY <1>3
<1> HIDE DEF T, hi, C
<1>8. \/ C(1) /\ ~C(2) /\ ~C(3) /\ ~C(4)
      \/ ~C(1) /\ C(2) /\ ~C(3) /\ ~C(4)
      \/ ~C(1) /\ ~C(2) /\ C(3) /\ ~C(4)
      \/ ~C(1) /\ ~C(2) /\ ~C(3) /\ C(4)
  <2>1. CASE f > 0 /\ a > 0
    BY <1>4, <1>5, <1>7, <2>1
  <2>2. CASE f > 0 /\ a < 0
    BY <1>4, <1>5, <1>7, <2>2
  <2>3. CASE f < 0 /\ a > 0
    BY <1>4, <1>5, <1>7, <2>3
  <2>4. CASE f < 0 /\ a < 0
    BY <1>4, <1>5, <1>7, <2>4
  <2>5. CASE f = 0 /\ a > 0
    BY <1>4, <1>5, <1>7, <2>5
  <2>6. CASE f = 0 /\ a < 0
    BY <1>4, <1>5, <1>7, <2>6
  <2>7. CASE f > 0 /\ a = 0
    BY <1>4, <1>5, <1>7, <2>7
  <2>8. CASE f < 0 /\ a = 0
    BY <1>4, <1>5, <1>7, <2>8
  <2> QED
    BY <2>1, <2>2, <2>3, <2>4, <2>5, <2>6, <2>7, <2>8
<1>9. \E k \in 1 .. 4 : T = {k}
  <2>1. \A k \in 1 .. 4 : k = 1 \/ k = 2 \/ k = 3 \/ k = 4
    OBVIOUS
  <2>2. 1 \in 1 .. 4 /\ 2 \in 1 .. 4 /\ 3 \in 1 .. 4 /\ 4 \in 1 .. 4
    OBVIOUS
  <2>3. \A k \in 1 .. 4 : C(k) /\ (\A l \in 1 .. 4 : C(l) => l = k) => T = {k}
    BY <1>6
  <2>4. \E k \in 1 .. 4 : C(k) /\ (\A l \in 1 .. 4 : C(l) => l = k)
    BY <1>8, <2>1, <2>2
  <2> QED
    BY <2>3, <2>4
<1>10. Cardinality(T) = 1
  BY <1>9, FS_Singleton
<1>11. Cardinality(T) % 2 = 1
  BY <1>10
<1> QED
  BY <1>11, GridCount DEF Grid!IsPointInPolygon, T

\* How long the edge <<a, f>> is at most.
Size(a, f) == Pos(a) + Neg(a) + Pos(f) + Neg(f)

(* It is the length of both its parts.                                      *)
LEMMA SizeBound ==
  ASSUME NEW a \in Int, NEW f \in Int
  PROVE  /\ Size(a, f) \in Nat /\ a * a + f * f <= Size(a, f) * Size(a, f)
         /\ Rounding(-a, -f) \in Nat /\ Size(a, f) <= Rounding(-a, -f)
<1> DEFINE p == Pos(a) + Neg(a)
           r == Pos(f) + Neg(f)
<1>1. p \in Nat /\ p * p = a * a
  <2>1. CASE a > 0
    BY <2>1 DEF Pos, Neg
  <2>2. CASE ~(a > 0)
    <3>1. p = -a /\ (-a) * (-a) = a * a
      BY <2>2 DEF Pos, Neg
    <3>2. -a \in Nat
      BY <2>2
    <3> QED
      BY <3>1, <3>2
  <2> QED
    BY <2>1, <2>2
<1>2. r \in Nat /\ r * r = f * f
  <2>1. CASE f > 0
    BY <2>1 DEF Pos, Neg
  <2>2. CASE ~(f > 0)
    <3>1. r = -f /\ (-f) * (-f) = f * f
      BY <2>2 DEF Pos, Neg
    <3>2. -f \in Nat
      BY <2>2
    <3> QED
      BY <3>1, <3>2
  <2> QED
    BY <2>1, <2>2
<1>3. Pos(a) \in Nat /\ Neg(a) \in Nat /\ Pos(f) \in Nat /\ Neg(f) \in Nat
  BY DEF Pos, Neg
<1>4. Size(a, f) = p + r
  BY <1>3 DEF Size
<1>5. Neg(-a) = Pos(a) /\ Neg(-f) = Pos(f) /\ Pos(-a) = Neg(a) /\ Pos(-f) = Neg(f)
  BY DEF Pos, Neg
<1>6. Rounding(-a, -f) \in Nat /\ Size(a, f) <= Rounding(-a, -f)
  BY <1>3, <1>5 DEF Size, Rounding
<1> HIDE DEF p, r
<1>7. (p + r) * (p + r) = p * p + r * r + 2 * (p * r) /\ p * r \in Nat /\ p * p \in Nat /\ r * r \in Nat
  BY <1>1, <1>2
<1>8. p * p + r * r <= (p + r) * (p + r)
  <2> DEFINE pp == p * p
             rr == r * r
             pr == p * r
  <2>1. (p + r) * (p + r) = pp + rr + 2 * pr /\ pp \in Nat /\ rr \in Nat /\ pr \in Nat
    BY <1>7
  <2> HIDE DEF pp, rr, pr
  <2>2. pp + rr <= pp + rr + 2 * pr
    BY <2>1
  <2> QED
    BY <2>1, <2>2 DEF pp, rr
<1> QED
  BY <1>1, <1>2, <1>4, <1>6, <1>8

(* The corner of a turned box that is low in both directions is not above   *)
(* a point inside, and the one that is high is a cell above it.             *)
LEMMA TurnRow ==
  ASSUME NEW e \in Int \X Int, NEW N \in Nat \ {0}, N = Fit!Norm2(e), NEW d \in Nat \ {0},
         NEW X \in Int, NEW Y \in Int, NEW q \in Int \X Int,
         NEW P \in Int \X Int, NEW g \in Int \X Int,
         CornerCell(P, Turn(e, X, Y), Off, N), InCell(g, From(Off, q, d), Sub * d)
  PROVE  LET a == e[1]
             f == e[2]
             A == Fine * Fit!Along(q, e)
             C == Fine * Fit!Across(q, e)
             S == d * ((Sub * Fine) * Size(a, f))
         IN  /\ (f >= 0 /\ d * X + S <= A) \/ (f <= 0 /\ d * X >= A + S) =>
                  ((a >= 0 /\ d * Y + S <= C) \/ (a <= 0 /\ d * Y >= C + S) => P[2] <= g[2])
             /\ (f >= 0 /\ d * X >= A + S) \/ (f <= 0 /\ d * X + S <= A) =>
                  ((a >= 0 /\ d * Y >= C + S) \/ (a <= 0 /\ d * Y + S <= C) => g[2] < P[2])
<1> DEFINE a == e[1]
           f == e[2]
           A == Fine * Fit!Along(q, e)
           C == Fine * Fit!Across(q, e)
           Z == Size(a, f)
           SF == Sub * Fine
           S == d * (SF * Z)
           q1 == q[1]
           q2 == q[2]
           c == Turn(e, X, Y)
<1>1. a \in Int /\ f \in Int /\ q1 \in Int /\ q2 \in Int
  OBVIOUS
<1>2. Sub \in Nat /\ Fine \in Nat /\ SF \in Nat
  BY LengthsAssumption
<1>3. N = a * a + f * f
  BY DEF Fit!Norm2
<1>4. A = Fine * (q1 * a + q2 * f) /\ C = Fine * (q2 * a - q1 * f)
  BY DEF Fit!Along, Fit!Across
<1>5. c = <<X * a - Y * f, X * f + Y * a>> /\ c[2] = X * f + Y * a
  BY DEF Turn
<1>6. c \in Int \X Int
  BY <1>1, <1>5
<1>7. Z \in Nat /\ N <= Z * Z /\ Z = (Pos(a) + Neg(a)) + (Pos(f) + Neg(f))
  <2>1. Pos(a) \in Nat /\ Neg(a) \in Nat /\ Pos(f) \in Nat /\ Neg(f) \in Nat
    BY <1>1 DEF Pos, Neg
  <2>2. Z = (Pos(a) + Neg(a)) + (Pos(f) + Neg(f))
    <3> HIDE DEF a, f
    <3> QED
      BY <2>1 DEF Size
  <2>3. Z \in Nat /\ a * a + f * f <= Z * Z
    <3> HIDE DEF a, f
    <3> QED
      BY <1>1, SizeBound
  <2> QED
    BY <1>3, <2>2, <2>3
<1>8. Off \in Int \X Int
  BY LengthsAssumption DEF Off, Grid!Origin
<1>9. /\ d * c[2] <= (Fine * N) * q2 => P[2] <= g[2]
      /\ d * c[2] >= (Fine * N) * q2 + d * (Sub * (Fine * N)) => g[2] < P[2]
  <2> HIDE DEF c
  <2> QED
    BY <1>6, <1>8, RowCell DEF c
<1> HIDE DEF a, f, Z, SF, c, q1, q2
<1>10. A \in Int /\ C \in Int
  BY <1>1, <1>2, <1>4
<1>11. (Fine * N) * q2 = f * A + a * C
  <2>1. (a * a + f * f) * q2 = f * (q1 * a + q2 * f) + a * (q2 * a - q1 * f)
    BY <1>1
  <2> DEFINE s == q1 * a + q2 * f
             t == q2 * a - q1 * f
  <2>2. s \in Int /\ t \in Int
    BY <1>1
  <2> HIDE DEF s, t
  <2>3. N * q2 = f * s + a * t
    BY <1>3, <2>1 DEF s, t
  <2>4. Fine * (N * q2) = f * (Fine * s) + a * (Fine * t)
    BY <1>1, <1>2, <2>2, <2>3
  <2>5. Fine * (N * q2) = (Fine * N) * q2
    BY <1>1, <1>2
  <2> QED
    BY <1>4, <2>4, <2>5 DEF s, t
<1> HIDE DEF A, C
<1>12. d * c[2] = f * (d * X) + a * (d * Y)
  BY <1>1, <1>5
<1>13. S \in Nat
  BY <1>2, <1>7
<1> HIDE DEF S
<1>14. d * X \in Int /\ d * Y \in Int
  OBVIOUS
<1>15. /\ f >= 0 /\ d * X + S <= A => f * (d * X) <= f * A
       /\ f <= 0 /\ d * X >= A + S => f * (d * X) <= f * A
       /\ f >= 0 /\ d * X >= A + S => f * (d * X) >= f * A + (Pos(f) + Neg(f)) * S
       /\ f <= 0 /\ d * X + S <= A => f * (d * X) >= f * A + (Pos(f) + Neg(f)) * S
  <2> DEFINE dX == d * X
  <2>1. dX \in Int
    OBVIOUS
  <2> HIDE DEF dX
  <2>2. /\ f >= 0 /\ dX + S <= A => f * dX <= f * A
        /\ f <= 0 /\ dX >= A + S => f * dX <= f * A
        /\ f >= 0 /\ dX >= A + S => f * dX >= f * A + (Pos(f) + Neg(f)) * S
        /\ f <= 0 /\ dX + S <= A => f * dX >= f * A + (Pos(f) + Neg(f)) * S
    BY <1>1, <1>10, <1>13, <2>1, Weighted
  <2> QED
    BY <2>2 DEF dX
<1>16. /\ a >= 0 /\ d * Y + S <= C => a * (d * Y) <= a * C
       /\ a <= 0 /\ d * Y >= C + S => a * (d * Y) <= a * C
       /\ a >= 0 /\ d * Y >= C + S => a * (d * Y) >= a * C + (Pos(a) + Neg(a)) * S
       /\ a <= 0 /\ d * Y + S <= C => a * (d * Y) >= a * C + (Pos(a) + Neg(a)) * S
  <2> DEFINE dY == d * Y
  <2>1. dY \in Int
    OBVIOUS
  <2> HIDE DEF dY
  <2>2. /\ a >= 0 /\ dY + S <= C => a * dY <= a * C
        /\ a <= 0 /\ dY >= C + S => a * dY <= a * C
        /\ a >= 0 /\ dY >= C + S => a * dY >= a * C + (Pos(a) + Neg(a)) * S
        /\ a <= 0 /\ dY + S <= C => a * dY >= a * C + (Pos(a) + Neg(a)) * S
    BY <1>1, <1>10, <1>13, <2>1, Weighted
  <2> QED
    BY <2>2 DEF dY
<1>17. d * (Sub * (Fine * N)) <= Z * S /\ Z * S = (Pos(f) + Neg(f)) * S + (Pos(a) + Neg(a)) * S
  <2>1. d * (Sub * (Fine * N)) = (d * SF) * N /\ Z * S = (d * SF) * (Z * Z)
    BY <1>2, <1>7 DEF S, SF
  <2>2. d * SF \in Nat /\ Z * Z \in Int
    BY <1>2, <1>7
  <2>3. (d * SF) * N <= (d * SF) * (Z * Z)
    <3> DEFINE k == d * SF
               ZZ == Z * Z
    <3>1. k \in Nat /\ ZZ \in Int /\ N <= ZZ
      BY <1>7, <2>2
    <3> HIDE DEF k, ZZ
    <3>2. k * N <= k * ZZ
      BY <3>1, Scale
    <3> QED
      BY <3>2 DEF k, ZZ
  <2>4. Pos(a) + Neg(a) \in Int /\ Pos(f) + Neg(f) \in Int
    BY <1>1 DEF Pos, Neg
  <2> DEFINE s == Pos(a) + Neg(a)
             t == Pos(f) + Neg(f)
  <2> HIDE DEF s, t
  <2>5. Z = s + t /\ s \in Int /\ t \in Int
    BY <1>7, <2>4 DEF s, t
  <2>6. Z * S = t * S + s * S
    BY <1>13, <2>5
  <2> QED
    BY <2>1, <2>3, <2>6 DEF s, t
<1> DEFINE r1 == f * (d * X)
           r2 == f * A
           r3 == (Pos(f) + Neg(f)) * S
           r4 == a * (d * Y)
           r5 == a * C
           r6 == (Pos(a) + Neg(a)) * S
           r7 == d * (Sub * (Fine * N))
           Low1 == (f >= 0 /\ d * X + S <= A) \/ (f <= 0 /\ d * X >= A + S)
           Low2 == (a >= 0 /\ d * Y + S <= C) \/ (a <= 0 /\ d * Y >= C + S)
           High1 == (f >= 0 /\ d * X >= A + S) \/ (f <= 0 /\ d * X + S <= A)
           High2 == (a >= 0 /\ d * Y >= C + S) \/ (a <= 0 /\ d * Y + S <= C)
<1>18. r1 \in Int /\ r2 \in Int /\ r4 \in Int /\ r5 \in Int
  <2>1. r1 \in Int /\ r4 \in Int
    BY <1>1, <1>14
  <2>2. r2 \in Int /\ r5 \in Int
    BY <1>1, <1>10
  <2> QED
    BY <2>1, <2>2
<1>19. r3 \in Int /\ r6 \in Int /\ r7 \in Int
  <2>1. Pos(a) + Neg(a) \in Int /\ Pos(f) + Neg(f) \in Int
    BY <1>1 DEF Pos, Neg
  <2> QED
    BY <1>2, <1>13, <2>1
<1>20. /\ Low1 => r1 <= r2
       /\ Low2 => r4 <= r5
       /\ High1 => r1 >= r2 + r3
       /\ High2 => r4 >= r5 + r6
  BY <1>15, <1>16
<1>21. /\ r1 + r4 <= r2 + r5 => P[2] <= g[2]
       /\ r1 + r4 >= r2 + r5 + r7 => g[2] < P[2]
       /\ r7 <= r3 + r6
  BY <1>9, <1>11, <1>12, <1>17
<1> HIDE DEF r1, r2, r3, r4, r5, r6, r7, Low1, Low2, High1, High2
<1>22. Low1 /\ Low2 => P[2] <= g[2]
  BY <1>18, <1>20, <1>21
<1>23. High1 /\ High2 => g[2] < P[2]
  BY <1>18, <1>19, <1>20, <1>21
<1>24. (Low1 => (Low2 => P[2] <= g[2])) /\ (High1 => (High2 => g[2] < P[2]))
  BY <1>22, <1>23
<1> QED
  BY <1>24 DEF Low1, Low2, High1, High2, S, A, C, a, f, Z, SF

\* q / d lies inside of all sides of the padded box.
Inside(b, pad, q, d) ==
  /\ InsideSide(b.edge[1], b.edge[2], b.box.maxX, pad, q, d)
  /\ InsideSide(-b.edge[1], -b.edge[2], -b.box.minX, pad, q, d)
  /\ InsideSide(-b.edge[2], b.edge[1], b.box.maxY, pad, q, d)
  /\ InsideSide(b.edge[2], -b.edge[1], -b.box.minY, pad, q, d)

(* What is left between a side and a point inside, in the worst direction.  *)
LEMMA SideGap ==
  ASSUME NEW u \in Int, NEW v \in Int, NEW m \in Int, NEW pad \in Int, NEW q \in Int \X Int,
         NEW d \in Nat \ {0}, InsideSide(u, v, m, pad, q, d)
  PROVE  Fine * Form(u, v, q) + d * ((Sub * Fine) * Size(u, v)) <= d * (Fine * m + pad)
<1> DEFINE s == (Sub * Fine) * Size(u, v)
           t == (Sub * Fine) * Rounding(-u, -v)
           F == Fine * Form(u, v, q)
           z == d * (Fine * m + pad)
<1>1. Sub * Fine \in Nat /\ Fine \in Nat
  BY LengthsAssumption
<1>2. s \in Int /\ t \in Int /\ s <= t
  <2>1. Size(u, v) \in Nat /\ Rounding(-u, -v) \in Nat /\ Size(u, v) <= Rounding(-u, -v)
    BY SizeBound
  <2> DEFINE k == Sub * Fine
             x == Size(u, v)
             y == Rounding(-u, -v)
  <2>2. k \in Nat /\ x \in Nat /\ y \in Nat /\ x <= y
    BY <1>1, <2>1
  <2> HIDE DEF k, x, y
  <2>3. k * x <= k * y /\ k * x \in Int /\ k * y \in Int
    BY <2>2, Scale
  <2> QED
    BY <2>3 DEF k, x, y
<1>3. F \in Int /\ z \in Int
  <2>1. q[1] \in Int /\ q[2] \in Int
    OBVIOUS
  <2>2. Form(u, v, q) \in Int
    BY <2>1 DEF Form
  <2> QED
    BY <1>1, <2>2
<1>4. F + d * t <= z
  BY DEF InsideSide
<1> HIDE DEF s, t, F, z
<1>5. d * s <= d * t /\ d * s \in Int /\ d * t \in Int
  BY <1>2, Scale
<1>6. F + d * s <= z
  BY <1>3, <1>4, <1>5
<1> QED
  BY <1>6 DEF s, F, z

(* A corner of a padded box is low or high for a point inside of it.        *)
LEMMA CornerRow ==
  ASSUME NEW b \in BoxRecord, NEW N \in Nat \ {0}, N = Fit!Norm2(b.edge), NEW pad \in Nat,
         NEW q \in Int \X Int, NEW d \in Nat \ {0}, Inside(b, pad, q, d),
         NEW g \in Int \X Int, InCell(g, From(Off, q, d), Sub * d),
         NEW X \in Int, NEW Y \in Int, NEW P \in Int \X Int,
         CornerCell(P, Turn(b.edge, X, Y), Off, N)
  PROVE  LET a == b.edge[1]
             f == b.edge[2]
             x0 == Fine * b.box.minX - pad
             x1 == Fine * b.box.maxX + pad
             y0 == Fine * b.box.minY - pad
             y1 == Fine * b.box.maxY + pad
         IN  /\ (f >= 0 /\ X = x0) \/ (f <= 0 /\ X = x1) =>
                  ((a >= 0 /\ Y = y0) \/ (a <= 0 /\ Y = y1) => P[2] <= g[2])
             /\ (f >= 0 /\ X = x1) \/ (f <= 0 /\ X = x0) =>
                  ((a >= 0 /\ Y = y1) \/ (a <= 0 /\ Y = y0) => g[2] < P[2])
<1> DEFINE e == b.edge
           a == e[1]
           f == e[2]
           A == Fine * Fit!Along(q, e)
           C == Fine * Fit!Across(q, e)
           S == d * ((Sub * Fine) * Size(a, f))
           x0 == Fine * b.box.minX - pad
           x1 == Fine * b.box.maxX + pad
           y0 == Fine * b.box.minY - pad
           y1 == Fine * b.box.maxY + pad
<1>1. e \in Int \X Int /\ a \in Int /\ f \in Int
  BY DEF BoxRecord
<1>2. b.box.minX \in Int /\ b.box.maxX \in Int /\ b.box.minY \in Int /\ b.box.maxY \in Int
  BY DEF BoxRecord, BoxType
<1>3. q[1] \in Int /\ q[2] \in Int /\ Fine \in Nat
  BY LengthsAssumption
<1>4. /\ Fine * Form(a, f, q) + d * ((Sub * Fine) * Size(a, f)) <= d * x1
      /\ Fine * Form(-a, -f, q) + d * ((Sub * Fine) * Size(-a, -f)) <= d * (Fine * (-b.box.minX) + pad)
      /\ Fine * Form(-f, a, q) + d * ((Sub * Fine) * Size(-f, a)) <= d * y1
      /\ Fine * Form(f, -a, q) + d * ((Sub * Fine) * Size(f, -a)) <= d * (Fine * (-b.box.minY) + pad)
  <2>1. /\ InsideSide(a, f, b.box.maxX, pad, q, d) /\ InsideSide(-a, -f, -b.box.minX, pad, q, d)
        /\ InsideSide(-f, a, b.box.maxY, pad, q, d) /\ InsideSide(f, -a, -b.box.minY, pad, q, d)
    BY DEF Inside
  <2>2. -a \in Int /\ -f \in Int /\ -b.box.minX \in Int /\ -b.box.minY \in Int /\ pad \in Int
    BY <1>1, <1>2
  <2> HIDE DEF a, f
  <2>3. Fine * Form(a, f, q) + d * ((Sub * Fine) * Size(a, f)) <= d * x1
    BY <1>1, <1>2, <2>1, <2>2, SideGap
  <2>4. Fine * Form(-a, -f, q) + d * ((Sub * Fine) * Size(-a, -f)) <= d * (Fine * (-b.box.minX) + pad)
    BY <1>1, <1>2, <2>1, <2>2, SideGap
  <2>5. Fine * Form(-f, a, q) + d * ((Sub * Fine) * Size(-f, a)) <= d * y1
    BY <1>1, <1>2, <2>1, <2>2, SideGap
  <2>6. Fine * Form(f, -a, q) + d * ((Sub * Fine) * Size(f, -a)) <= d * (Fine * (-b.box.minY) + pad)
    BY <1>1, <1>2, <2>1, <2>2, SideGap
  <2> QED
    BY <2>3, <2>4, <2>5, <2>6
<1>5. Size(-a, -f) = Size(a, f) /\ Size(-f, a) = Size(a, f) /\ Size(f, -a) = Size(a, f)
  <2> HIDE DEF a, f
  <2>1. Pos(-a) = Neg(a) /\ Neg(-a) = Pos(a) /\ Pos(-f) = Neg(f) /\ Neg(-f) = Pos(f)
    BY <1>1 DEF Pos, Neg
  <2>2. Pos(a) \in Int /\ Neg(a) \in Int /\ Pos(f) \in Int /\ Neg(f) \in Int
    BY <1>1 DEF Pos, Neg
  <2> QED
    BY <2>1, <2>2 DEF Size
<1>6. /\ Fine * Form(a, f, q) = A /\ Fine * Form(-a, -f, q) = -A
      /\ Fine * Form(-f, a, q) = C /\ Fine * Form(f, -a, q) = -C
      /\ A \in Int /\ C \in Int
  <2> DEFINE r == q[1]
             s == q[2]
  <2>1. Fit!Along(q, e) = r * a + s * f /\ Fit!Across(q, e) = s * a - r * f
    BY DEF Fit!Along, Fit!Across
  <2>2. /\ Form(a, f, q) = a * r + f * s /\ Form(-a, -f, q) = (-a) * r + (-f) * s
        /\ Form(-f, a, q) = (-f) * r + a * s /\ Form(f, -a, q) = f * r + (-a) * s
    BY DEF Form
  <2> HIDE DEF a, f, r, s
  <2>3. r \in Int /\ s \in Int
    BY <1>3 DEF r, s
  <2>4. /\ Fine * (a * r + f * s) = Fine * (r * a + s * f)
        /\ Fine * ((-a) * r + (-f) * s) = -(Fine * (r * a + s * f))
        /\ Fine * ((-f) * r + a * s) = Fine * (s * a - r * f)
        /\ Fine * (f * r + (-a) * s) = -(Fine * (s * a - r * f))
        /\ Fine * (r * a + s * f) \in Int /\ Fine * (s * a - r * f) \in Int
    BY <1>1, <1>3, <2>3
  <2> QED
    BY <2>1, <2>2, <2>4
<1>7. /\ Fine * (-b.box.minX) + pad = -x0 /\ Fine * (-b.box.minY) + pad = -y0
      /\ x0 \in Int /\ x1 \in Int /\ y0 \in Int /\ y1 \in Int
  BY <1>2, <1>3
<1>8. S \in Int
  <2>1. Size(a, f) \in Nat
    <3> HIDE DEF a, f
    <3> QED
      BY <1>1, SizeBound
  <2>2. Sub * Fine \in Nat
    BY LengthsAssumption
  <2> QED
    BY <2>1, <2>2
<1>9. /\ (f >= 0 /\ d * X + S <= A) \/ (f <= 0 /\ d * X >= A + S) =>
           ((a >= 0 /\ d * Y + S <= C) \/ (a <= 0 /\ d * Y >= C + S) => P[2] <= g[2])
      /\ (f >= 0 /\ d * X >= A + S) \/ (f <= 0 /\ d * X + S <= A) =>
           ((a >= 0 /\ d * Y >= C + S) \/ (a <= 0 /\ d * Y + S <= C) => g[2] < P[2])
  BY <1>1, TurnRow
<1> HIDE DEF A, C, x0, x1, y0, y1
<1>10. /\ A + S <= d * x1 /\ C + S <= d * y1
       /\ -A + S <= d * (-x0) /\ -C + S <= d * (-y0)
  BY <1>4, <1>5, <1>6, <1>7
<1> HIDE DEF S
<1>11. d * x0 + S <= A /\ d * y0 + S <= C
  <2>1. d * (-x0) = -(d * x0) /\ d * (-y0) = -(d * y0) /\ d * x0 \in Int /\ d * y0 \in Int
    BY <1>7
  <2> QED
    BY <1>6, <1>8, <1>10, <2>1
<1>12. d * x1 >= A + S /\ d * y1 >= C + S
  <2>1. d * x1 \in Int /\ d * y1 \in Int
    BY <1>7
  <2> QED
    BY <1>6, <1>8, <1>10, <2>1
<1> DEFINE LX == d * X + S <= A
           HX == d * X >= A + S
           LY == d * Y + S <= C
           HY == d * Y >= C + S
<1>13. /\ X = x0 => LX
       /\ X = x1 => HX
       /\ Y = y0 => LY
       /\ Y = y1 => HY
  BY <1>11, <1>12
<1>14. /\ (f >= 0 /\ LX) \/ (f <= 0 /\ HX) => ((a >= 0 /\ LY) \/ (a <= 0 /\ HY) => P[2] <= g[2])
       /\ (f >= 0 /\ HX) \/ (f <= 0 /\ LX) => ((a >= 0 /\ HY) \/ (a <= 0 /\ LY) => g[2] < P[2])
  BY <1>9
<1> HIDE DEF LX, HX, LY, HY, a, f
<1>15. /\ (f >= 0 /\ X = x0) \/ (f <= 0 /\ X = x1) =>
            ((a >= 0 /\ Y = y0) \/ (a <= 0 /\ Y = y1) => P[2] <= g[2])
       /\ (f >= 0 /\ X = x1) \/ (f <= 0 /\ X = x0) =>
            ((a >= 0 /\ Y = y1) \/ (a <= 0 /\ Y = y0) => g[2] < P[2])
  BY <1>13, <1>14
<1> QED
  BY <1>15 DEF x0, x1, y0, y1, a, f

(* The corners of the padded box lie on its sides.                          *)
LEMMA CornersOnSides ==
  ASSUME NEW b \in BoxRecord, NEW pad \in Nat
  PROVE  LET at == PaddedCorners(b, pad).at
             N == Fit!Norm2(b.edge)
             e == b.edge
         IN  /\ \A k \in {3, 4} : Form(e[1], e[2], at[k]) = N * (Fine * b.box.maxX + pad)
             /\ \A k \in {1, 2} : Form(-e[1], -e[2], at[k]) = N * (Fine * (-b.box.minX) + pad)
             /\ \A k \in {2, 3} : Form(-e[2], e[1], at[k]) = N * (Fine * b.box.maxY + pad)
             /\ \A k \in {1, 4} : Form(e[2], -e[1], at[k]) = N * (Fine * (-b.box.minY) + pad)
<1> DEFINE e == b.edge
           N == Fit!Norm2(e)
           x0 == Fine * b.box.minX - pad
           x1 == Fine * b.box.maxX + pad
           y0 == Fine * b.box.minY - pad
           y1 == Fine * b.box.maxY + pad
           at == PaddedCorners(b, pad).at
<1>1. e \in Int \X Int /\ b.box \in BoxType
  BY DEF BoxRecord
<1>2. x0 \in Int /\ x1 \in Int /\ y0 \in Int /\ y1 \in Int
      /\ -x0 = Fine * (-b.box.minX) + pad /\ -y0 = Fine * (-b.box.minY) + pad
  BY <1>1, LengthsAssumption DEF BoxType
<1>3. at = <<Turn(e, x0, y0), Turn(e, x0, y1), Turn(e, x1, y1), Turn(e, x1, y0)>>
  BY DEF PaddedCorners
<1>4. at[1] = Turn(e, x0, y0) /\ at[2] = Turn(e, x0, y1) /\ at[3] = Turn(e, x1, y1) /\ at[4] = Turn(e, x1, y0)
  BY <1>3
<1> HIDE DEF x0, x1, y0, y1, at, e
<1>5. ASSUME NEW x \in Int, NEW y \in Int
      PROVE  /\ Form(e[1], e[2], Turn(e, x, y)) = N * x
             /\ Form(-e[1], -e[2], Turn(e, x, y)) = N * (-x)
             /\ Form(-e[2], e[1], Turn(e, x, y)) = N * y
             /\ Form(e[2], -e[1], Turn(e, x, y)) = N * (-y)
  BY <1>1, TurnForms
<1> HIDE DEF N
<1>6. \A k \in {3, 4} : Form(e[1], e[2], at[k]) = N * x1
  BY <1>2, <1>4, <1>5
<1>7. \A k \in {1, 2} : Form(-e[1], -e[2], at[k]) = N * (-x0)
  BY <1>2, <1>4, <1>5
<1>8. \A k \in {2, 3} : Form(-e[2], e[1], at[k]) = N * y1
  BY <1>2, <1>4, <1>5
<1>9. \A k \in {1, 4} : Form(e[2], -e[1], at[k]) = N * (-y0)
  BY <1>2, <1>4, <1>5
<1> QED
  BY <1>2, <1>6, <1>7, <1>8, <1>9 DEF x0, x1, y0, y1, at, e, N

(* A point inside of all sides of a padded box has a cell in its polygon.   *)
LEMMA InsidePolygon ==
  ASSUME NEW b \in BoxRecord, b.edge # <<0, 0>>, NEW pad \in Nat, b.corners = PaddedCorners(b, pad),
         NEW p \in Int \X Int, NEW d \in Nat \ {0}, Inside(b, pad, FromLidar(p, d), d)
  PROVE  LET g == Grid!WorldToCostmap(p, d)
         IN  Grid!IsPointInPolygon(g[1], g[2], Grid!Polygon(ToBaselink(b.corners)))
<1> DEFINE e == b.edge
           a == e[1]
           f == e[2]
           N == Fit!Norm2(e)
           c == b.corners
           P == Grid!Polygon(ToBaselink(c))
           g == Grid!WorldToCostmap(p, d)
           q == FromLidar(p, d)
           x0 == Fine * b.box.minX - pad
           x1 == Fine * b.box.maxX + pad
           y0 == Fine * b.box.minY - pad
           y1 == Fine * b.box.maxY + pad
<1>1. e \in Int \X Int /\ a \in Int /\ f \in Int /\ (a # 0 \/ f # 0)
  BY DEF BoxRecord
<1>2. N \in Nat \ {0}
  <2>1. N = a * a + f * f
    BY DEF Fit!Norm2
  <2> HIDE DEF a, f
  <2>2. \A z \in Int : z * z \in Nat /\ (z # 0 => z * z > 0)
    OBVIOUS
  <2>3. a * a + f * f \in Nat \ {0}
    BY <1>1, <2>2
  <2> QED
    BY <2>1, <2>3
<1>3. c \in CornersType /\ Len(c.at) = 4 /\ c.den = Fine * N
  BY DEF BoxRecord, PaddedCorners
<1>4. b.box.minX \in Int /\ b.box.maxX \in Int /\ b.box.minY \in Int /\ b.box.maxY \in Int
  BY DEF BoxRecord, BoxType
<1>5. c.at[1] = Turn(e, x0, y0) /\ c.at[2] = Turn(e, x0, y1)
      /\ c.at[3] = Turn(e, x1, y1) /\ c.at[4] = Turn(e, x1, y0)
  BY DEF PaddedCorners
<1>6. x0 \in Int /\ x1 \in Int /\ y0 \in Int /\ y1 \in Int
  BY <1>4, LengthsAssumption
<1>7. /\ P \in [1 .. 4 -> Int \X Int] /\ Len(P) = 4
      /\ \A k \in 1 .. 4 : CornerCell(P[k], c.at[k], Off, N)
  <2> HIDE DEF c, N
  <2> QED
    BY <1>2, <1>3, PolygonCells
<1>8. g \in Int \X Int /\ q \in Int \X Int /\ InCell(g, From(Off, q, d), Sub * d)
  <2>1. g \in Int \X Int /\ q \in Int \X Int /\ InCell(<<g[1], g[2]>>, From(Off, q, d), Sub * d)
    BY LookedCell DEF FromLidar
  <2>2. \A z \in Int \X Int : <<z[1], z[2]>> = z
    OBVIOUS
  <2> HIDE DEF g, q
  <2> QED
    BY <2>1, <2>2
<1>9. /\ \A k \in {3, 4} : Form(a, f, c.at[k]) = N * (Fine * b.box.maxX + pad)
      /\ \A k \in {1, 2} : Form(-a, -f, c.at[k]) = N * (Fine * (-b.box.minX) + pad)
      /\ \A k \in {2, 3} : Form(-f, a, c.at[k]) = N * (Fine * b.box.maxY + pad)
      /\ \A k \in {1, 4} : Form(f, -a, c.at[k]) = N * (Fine * (-b.box.minY) + pad)
  BY CornersOnSides
<1>10. Inside(b, pad, q, d)
  OBVIOUS
<1>11. /\ InsideSide(a, f, b.box.maxX, pad, q, d) /\ InsideSide(-a, -f, -b.box.minX, pad, q, d)
       /\ InsideSide(-f, a, b.box.maxY, pad, q, d) /\ InsideSide(f, -a, -b.box.minY, pad, q, d)
  BY <1>10 DEF Inside
<1>12. /\ -a \in Int /\ -f \in Int /\ (-a # 0 \/ -f # 0) /\ (-f # 0 \/ a # 0) /\ (f # 0 \/ -a # 0)
       /\ -b.box.minX \in Int /\ -b.box.minY \in Int
  BY <1>1, <1>4
<1> DEFINE x == g[1]
           y == g[2]
<1>13. /\ Spans(P, y, 1) => (Grid!Crosses(x, y, P, 1) <=> f > 0)
       /\ Spans(P, y, 2) => (Grid!Crosses(x, y, P, 2) <=> -a > 0)
       /\ Spans(P, y, 3) => (Grid!Crosses(x, y, P, 3) <=> -f > 0)
       /\ Spans(P, y, 4) => (Grid!Crosses(x, y, P, 4) <=> a > 0)
  <2>1. Before4(1) = 4 /\ Before4(2) = 1 /\ Before4(3) = 2 /\ Before4(4) = 3
    BY DEF Before4
  <2>2. 1 \in 1 .. 4 /\ 2 \in 1 .. 4 /\ 3 \in 1 .. 4 /\ 4 \in 1 .. 4
    OBVIOUS
  <2> DEFINE Side(u, v, m, k) ==
               /\ InsideSide(u, v, m, pad, q, d)
               /\ Form(u, v, c.at[k]) = N * (Fine * m + pad)
               /\ Form(u, v, c.at[Before4(k)]) = N * (Fine * m + pad)
  <2>3. /\ Side(f, -a, -b.box.minY, 1) /\ Side(-a, -f, -b.box.minX, 2)
        /\ Side(-f, a, b.box.maxY, 3) /\ Side(a, f, b.box.maxX, 4)
    <3> HIDE DEF a, f, c, q, N
    <3> QED
      BY <1>9, <1>11, <2>1
  <2>4. ASSUME NEW u \in Int, NEW v \in Int, u # 0 \/ v # 0, NEW m \in Int, NEW k \in 1 .. 4,
               Side(u, v, m, k), Spans(P, y, k)
        PROVE  Grid!Crosses(x, y, P, k) <=> u > 0
    <3> HIDE DEF c, N
    <3> QED
      BY <1>2, <1>3, <2>4, SideCrossed
  <2> HIDE DEF Side, P, x, y, a, f, c, q, N
  <2>5. Spans(P, y, 1) => (Grid!Crosses(x, y, P, 1) <=> f > 0)
    BY <1>1, <1>12, <2>2, <2>3, <2>4
  <2>6. Spans(P, y, 2) => (Grid!Crosses(x, y, P, 2) <=> -a > 0)
    BY <1>1, <1>12, <2>2, <2>3, <2>4
  <2>7. Spans(P, y, 3) => (Grid!Crosses(x, y, P, 3) <=> -f > 0)
    BY <1>1, <1>4, <1>12, <2>2, <2>3, <2>4
  <2>8. Spans(P, y, 4) => (Grid!Crosses(x, y, P, 4) <=> a > 0)
    BY <1>1, <1>4, <1>12, <2>2, <2>3, <2>4
  <2> QED
    BY <2>5, <2>6, <2>7, <2>8
<1>14. ASSUME NEW X \in Int, NEW Y \in Int, NEW k \in 1 .. 4, c.at[k] = Turn(e, X, Y)
       PROVE  /\ (f >= 0 /\ X = x0) \/ (f <= 0 /\ X = x1) =>
                   ((a >= 0 /\ Y = y0) \/ (a <= 0 /\ Y = y1) => P[k][2] <= y)
              /\ (f >= 0 /\ X = x1) \/ (f <= 0 /\ X = x0) =>
                   ((a >= 0 /\ Y = y1) \/ (a <= 0 /\ Y = y0) => y < P[k][2])
  <2>1. P[k] \in Int \X Int /\ CornerCell(P[k], Turn(b.edge, X, Y), Off, N)
    <3> HIDE DEF P, c
    <3> QED
      BY <1>7, <1>14
  <2>2. N = Fit!Norm2(b.edge)
    OBVIOUS
  <2> DEFINE Pk == P[k]
  <2> HIDE DEF Pk, g, q, N, P
  <2>3. Pk \in Int \X Int /\ CornerCell(Pk, Turn(b.edge, X, Y), Off, N)
    BY <2>1 DEF Pk
  <2>4. /\ (f >= 0 /\ X = x0) \/ (f <= 0 /\ X = x1) =>
             ((a >= 0 /\ Y = y0) \/ (a <= 0 /\ Y = y1) => Pk[2] <= g[2])
        /\ (f >= 0 /\ X = x1) \/ (f <= 0 /\ X = x0) =>
             ((a >= 0 /\ Y = y1) \/ (a <= 0 /\ Y = y0) => g[2] < Pk[2])
    BY <1>2, <1>8, <1>10, <2>2, <2>3, CornerRow
  <2> QED
    BY <2>4 DEF Pk
<1>15. x \in Int /\ y \in Int
  <2> HIDE DEF g
  <2> QED
    BY <1>8
<1> HIDE DEF a, f, P, x, y, c, x0, x1, y0, y1
<1>16. /\ f >= 0 /\ a >= 0 => P[1][2] <= y /\ y < P[3][2]
       /\ f >= 0 /\ a <= 0 => P[2][2] <= y /\ y < P[4][2]
       /\ f <= 0 /\ a <= 0 => P[3][2] <= y /\ y < P[1][2]
       /\ f <= 0 /\ a >= 0 => P[4][2] <= y /\ y < P[2][2]
  <2>1. 1 \in 1 .. 4 /\ 2 \in 1 .. 4 /\ 3 \in 1 .. 4 /\ 4 \in 1 .. 4
    OBVIOUS
  <2>2. /\ f >= 0 /\ a >= 0 => P[1][2] <= y
        /\ f <= 0 /\ a <= 0 => y < P[1][2]
    BY <1>5, <1>6, <1>14, <2>1
  <2>3. /\ f >= 0 /\ a <= 0 => P[2][2] <= y
        /\ f <= 0 /\ a >= 0 => y < P[2][2]
    BY <1>5, <1>6, <1>14, <2>1
  <2>4. /\ f <= 0 /\ a <= 0 => P[3][2] <= y
        /\ f >= 0 /\ a >= 0 => y < P[3][2]
    BY <1>5, <1>6, <1>14, <2>1
  <2>5. /\ f <= 0 /\ a >= 0 => P[4][2] <= y
        /\ f >= 0 /\ a <= 0 => y < P[4][2]
    BY <1>5, <1>6, <1>14, <2>1
  <2> QED
    BY <2>2, <2>3, <2>4, <2>5
<1>17. Grid!IsPointInPolygon(x, y, P)
  BY <1>1, <1>7, <1>13, <1>15, <1>16, OddCrossing
<1> QED
  BY <1>17 DEF x, y, P, c

(* An edge meets a row between its ends.                                    *)
LEMMA MeetsBetween ==
  ASSUME NEW lo \in Int \X Int, NEW hi \in Int \X Int, NEW y \in Int, NEW z \in Int,
         lo[2] <= y, y < hi[2]
  PROVE  /\ lo[1] <= z /\ hi[1] <= z => Meets(lo, hi, y) <= z * (hi[2] - lo[2])
         /\ lo[1] >= z /\ hi[1] >= z => Meets(lo, hi, y) >= z * (hi[2] - lo[2])
<1> DEFINE s == hi[2] - y
           t == y - lo[2]
           a == lo[1]
           b == hi[1]
<1>1. a \in Int /\ b \in Int /\ s \in Nat /\ t \in Nat /\ hi[2] - lo[2] = s + t
  OBVIOUS
<1>2. Meets(lo, hi, y) = s * a + t * b
  <2>1. hi[2] \in Int /\ lo[2] \in Int /\ lo[1] \in Int /\ hi[1] \in Int
    OBVIOUS
  <2>2. lo[1] * (hi[2] - lo[2]) + (hi[1] - lo[1]) * (y - lo[2])
          = (hi[2] - y) * lo[1] + (y - lo[2]) * hi[1]
    BY <2>1
  <2> QED
    BY <2>2 DEF Meets
<1> HIDE DEF s, t, a, b
<1>3. z * (s + t) = s * z + t * z /\ s * z \in Int /\ t * z \in Int /\ s * a \in Int /\ t * b \in Int
  BY <1>1
<1>4. /\ a <= z => s * a <= s * z
      /\ z <= a => s * z <= s * a
  BY <1>1, Scale
<1>5. /\ b <= z => t * b <= t * z
      /\ z <= b => t * z <= t * b
  BY <1>1, Scale
<1> DEFINE r1 == s * a
           r2 == t * b
           r3 == s * z
           r4 == t * z
<1>6. /\ r1 \in Int /\ r2 \in Int /\ r3 \in Int /\ r4 \in Int
      /\ a <= z => r1 <= r3
      /\ z <= a => r3 <= r1
      /\ b <= z => r2 <= r4
      /\ z <= b => r4 <= r2
  BY <1>3, <1>4, <1>5
<1>7. Meets(lo, hi, y) = r1 + r2 /\ z * (hi[2] - lo[2]) = r3 + r4
  BY <1>1, <1>2, <1>3
<1> HIDE DEF r1, r2, r3, r4
<1>8. a <= z /\ b <= z => r1 + r2 <= r3 + r4
  BY <1>6
<1>9. z <= a /\ z <= b => r3 + r4 <= r1 + r2
  BY <1>6
<1>10. r1 + r2 \in Int /\ r3 + r4 \in Int
  BY <1>6
<1>11. z <= a /\ z <= b => r1 + r2 >= r3 + r4
  BY <1>9, <1>10
<1> QED
  BY <1>1, <1>7, <1>8, <1>11 DEF a, b

(* A cell in a polygon lies between the corners of it in both directions.   *)
LEMMA InBounds ==
  ASSUME NEW P \in [1 .. 4 -> Int \X Int], Len(P) = 4, NEW g \in Int \X Int,
         Grid!IsPointInPolygon(g[1], g[2], P)
  PROVE  \A a \in {1, 2} : \E j, k \in 1 .. 4 : P[j][a] <= g[a] /\ g[a] <= P[k][a]
<1> DEFINE x == g[1]
           y == g[2]
<1>1. x \in Int /\ y \in Int /\ \A k \in 1 .. 4 : P[k] \in Int \X Int /\ P[k][1] \in Int /\ P[k][2] \in Int
  OBVIOUS
<1>2. /\ \E j, k \in 1 .. 4 : EdgeRight(P, x, y, j, k)
      /\ \E j, k \in 1 .. 4 : EdgeLeft(P, x, y, j, k)
  <2>1. Grid!IsPointInPolygon(x, y, P)
    OBVIOUS
  <2> HIDE DEF x, y
  <2> QED
    BY <1>1, <2>1, BetweenEdges
<1> HIDE DEF x, y
<1>3. PICK j \in 1 .. 4, k \in 1 .. 4 : EdgeRight(P, x, y, j, k)
  BY <1>2
<1>4. PICK l \in 1 .. 4, m \in 1 .. 4 : EdgeLeft(P, x, y, l, m)
  BY <1>2
<1>5. P[j][2] <= y /\ y <= P[k][2]
  BY <1>1, <1>3 DEF EdgeRight
<1>6. x <= P[j][1] \/ x <= P[k][1]
  <2> SUFFICES ASSUME ~(x <= P[j][1]), ~(x <= P[k][1]) PROVE FALSE
    OBVIOUS
  <2> DEFINE lo == P[j]
             hi == P[k]
  <2>1. lo \in Int \X Int /\ hi \in Int \X Int /\ lo[1] <= x /\ hi[1] <= x /\ lo[2] <= y /\ y < hi[2]
        /\ x * (hi[2] - lo[2]) < Meets(lo, hi, y)
    BY <1>1, <1>3 DEF EdgeRight
  <2> HIDE DEF lo, hi
  <2>2. Meets(lo, hi, y) <= x * (hi[2] - lo[2])
    BY <1>1, <2>1, MeetsBetween
  <2> DEFINE r == Meets(lo, hi, y)
             s == x * (hi[2] - lo[2])
  <2>3. lo[1] \in Int /\ lo[2] \in Int /\ hi[1] \in Int /\ hi[2] \in Int
    BY <2>1
  <2>4. r \in Int /\ s \in Int
    BY <1>1, <2>3 DEF Meets
  <2>5. s < r /\ r <= s
    BY <2>1, <2>2
  <2> HIDE DEF r, s
  <2> QED
    BY <2>4, <2>5
<1>7. P[l][1] <= x \/ P[m][1] <= x
  <2> SUFFICES ASSUME ~(P[l][1] <= x), ~(P[m][1] <= x) PROVE FALSE
    OBVIOUS
  <2> DEFINE lo == P[l]
             hi == P[m]
             z == x + 1
  <2>1. lo \in Int \X Int /\ hi \in Int \X Int /\ lo[1] >= z /\ hi[1] >= z /\ lo[2] <= y /\ y < hi[2]
        /\ z * (hi[2] - lo[2]) > Meets(lo, hi, y) /\ z \in Int
    BY <1>1, <1>4 DEF EdgeLeft
  <2> HIDE DEF lo, hi, z
  <2>2. Meets(lo, hi, y) >= z * (hi[2] - lo[2])
    BY <1>1, <2>1, MeetsBetween
  <2> DEFINE r == Meets(lo, hi, y)
             s == z * (hi[2] - lo[2])
  <2>3. lo[1] \in Int /\ lo[2] \in Int /\ hi[1] \in Int /\ hi[2] \in Int
    BY <2>1
  <2>4. r \in Int /\ s \in Int
    BY <1>1, <2>1, <2>3 DEF Meets
  <2>5. s > r /\ r >= s
    BY <2>1, <2>2
  <2> HIDE DEF r, s
  <2> QED
    BY <2>4, <2>5
<1>8. \E s, t \in 1 .. 4 : P[s][1] <= x /\ x <= P[t][1]
  BY <1>6, <1>7
<1>9. \E s, t \in 1 .. 4 : P[s][2] <= y /\ y <= P[t][2]
  BY <1>5
<1> QED
  BY <1>8, <1>9 DEF x, y

\* What is left of the padding, less the rounding and one unit more.
Clearance == Padding - Margin - 1

\* q / d is no farther than Clearance from z / n.
Within(q, d, z, n) ==
  LET x == n * q[1] - d * z[1]
      y == n * q[2] - d * z[2]
  IN  x * x + y * y <= (n * d * Clearance) * (n * d * Clearance)

\* p / d, of base_link, is no farther than Clearance from a point between two of C.
NearCluster(p, d, C) ==
  \E s, t \in C, n \in Nat \ {0} : \E k \in 0 .. n :
    Within(FromLidar(p, d), d, <<k * s[1] + (n - k) * t[1], k * s[2] + (n - k) * t[2]>>, n)

(* A form of a step is at most its length times that of the factors.        *)
LEMMA FormLength ==
  ASSUME NEW u \in Int, NEW v \in Int, NEW x \in Int, NEW y \in Int
  PROVE  (u * x + v * y) * (u * x + v * y) <= (u * u + v * v) * (x * x + y * y)
<1> DEFINE w == u * x + v * y
           r == u * y - v * x
           a == w * w
           b == r * r
           c == (u * u + v * v) * (x * x + y * y)
<1>1. a + b = c
  OBVIOUS
<1>2. w \in Int /\ r \in Int
  OBVIOUS
<1>3. b \in Nat /\ a \in Int
  <2> HIDE DEF w, r
  <2>1. \A z \in Int : z * z \in Nat
    OBVIOUS
  <2> QED
    BY <1>2, <2>1
<1> HIDE DEF a, b, c
<1>4. a <= c
  BY <1>1, <1>3
<1> QED
  BY <1>4 DEF a, c, w

(* What is left of the padding after rounding is Clearance at every angle.  *)
LEMMA ClearPad ==
  ASSUME NEW u \in Int, NEW v \in Int, u # 0 \/ v # 0, NEW pad \in Nat,
         (pad + 1) * (pad + 1) > Fine * Fine * Padding * Padding * (u * u + v * v)
  PROVE  LET B == (Sub * Fine) * Rounding(-u, -v)
             A == pad - B
             FC == Fine * Clearance
         IN  /\ B \in Nat /\ A \in Nat /\ FC \in Nat
             /\ FC * FC * (u * u + v * v) <= A * A
<1> DEFINE N == u * u + v * v
           B == (Sub * Fine) * Rounding(-u, -v)
           A == pad - B
           FC == Fine * Clearance
           FM == Fine * Margin
<1>1. Fine \in Nat \ {0} /\ Margin \in Nat /\ Padding \in Nat /\ Clearance \in Nat
      /\ Clearance + Margin + 1 = Padding
  BY LengthsAssumption, PaddingAssumption DEF Clearance
<1>2. (-u) * (-u) + (-v) * (-v) = N /\ -u \in Int /\ -v \in Int
  OBVIOUS
<1>3. B \in Nat /\ B * B <= FM * FM * N /\ B <= pad
  <2>1. B \in Nat /\ B * B <= FM * FM * ((-u) * (-u) + (-v) * (-v))
    BY <1>2, MarginServes
  <2>2. (pad + 1) * (pad + 1) > Fine * Fine * Padding * Padding * ((-u) * (-u) + (-v) * (-v))
    BY <1>2
  <2>3. B <= pad
    BY <1>2, <2>2, PadServes
  <2> QED
    BY <1>2, <2>1, <2>3
<1>4. N \in Nat \ {0}
  <2>1. \A z \in Int : z * z \in Nat /\ (z # 0 => z * z > 0)
    OBVIOUS
  <2>2. u * u \in Nat /\ v * v \in Nat /\ (u * u > 0 \/ v * v > 0)
    BY <2>1
  <2> DEFINE a == u * u
             b == v * v
  <2> HIDE DEF a, b
  <2>3. a + b \in Nat \ {0}
    BY <2>2 DEF a, b
  <2> QED
    BY <2>3 DEF a, b
<1> HIDE DEF B, N
<1>5. A \in Nat /\ FC \in Nat /\ FM \in Nat
  BY <1>1, <1>3
<1>6. FC * FC * N <= A * A
  <2> SUFFICES ASSUME ~(FC * FC * N <= A * A) PROVE FALSE
    OBVIOUS
  <2>1. FC * FC * N \in Int /\ A * A \in Int
    <3>1. FC * FC \in Nat /\ A * A \in Nat
      BY <1>5
    <3> QED
      BY <1>4, <3>1
  <2>2. A * A <= FC * FC * N
    <3> DEFINE r == A * A
               s == FC * FC * N
    <3>1. r \in Int /\ s \in Int /\ ~(s <= r)
      BY <2>1
    <3> HIDE DEF r, s
    <3>2. r <= s
      BY <3>1
    <3> QED
      BY <3>2 DEF r, s
  <2>3. (A + B) * (A + B) <= (FC + FM) * (FC + FM) * N
    <3> HIDE DEF A, FC, FM
    <3> QED
      BY <1>3, <1>4, <1>5, <2>2, RootSum
  <2>4. A + B = pad
    BY <1>3
  <2>5. 1 * 1 <= Fine * Fine * N
    <3>1. Fine * Fine \in Nat \ {0}
      BY <1>1
    <3> DEFINE k == Fine * Fine
    <3> HIDE DEF k
    <3>2. k \in Nat \ {0} /\ k * N \in Nat \ {0}
      <4>1. \A a \in Nat \ {0}, b \in Nat \ {0} : a * b \in Nat \ {0}
        OBVIOUS
      <4> QED
        BY <1>4, <3>1, <4>1 DEF k
    <3>3. k * N >= 1
      BY <3>2
    <3> QED
      BY <3>3 DEF k
  <2>6. (pad + 1) * (pad + 1) <= (FC + FM + Fine) * (FC + FM + Fine) * N
    <3> DEFINE r == FC + FM
    <3>1. r \in Nat /\ pad * pad <= r * r * N
      BY <1>5, <2>3, <2>4
    <3> DEFINE one == 1
    <3>2. one \in Nat /\ one * one <= Fine * Fine * N
      BY <2>5
    <3> HIDE DEF r, one
    <3>3. (pad + one) * (pad + one) <= (r + Fine) * (r + Fine) * N
      BY <1>1, <1>4, <3>1, <3>2, RootSum
    <3> QED
      BY <3>3 DEF r, one
  <2>7. FC + FM + Fine = Fine * Padding
    <3>1. Fine * Clearance + Fine * Margin + Fine = Fine * (Clearance + Margin + 1)
      BY <1>1
    <3> QED
      BY <1>1, <3>1
  <2>8. (Fine * Padding) * (Fine * Padding) * N = Fine * Fine * Padding * Padding * N
    BY <1>1, <1>4
  <2> DEFINE r == (pad + 1) * (pad + 1)
             s == Fine * Fine * Padding * Padding * N
  <2>9. r \in Int /\ s \in Int
    <3>1. Fine * Fine \in Nat /\ Fine * Fine * Padding \in Nat
      BY <1>1
    <3>2. Fine * Fine * Padding * Padding \in Nat
      BY <1>1, <3>1
    <3> QED
      BY <1>4, <3>2
  <2>10. r > s /\ r <= s
    BY <2>6, <2>7, <2>8 DEF N
  <2> HIDE DEF r, s
  <2> QED
    BY <2>9, <2>10
<1> QED
  BY <1>3, <1>5, <1>6 DEF B, N

(* A point no farther than Clearance from one that is not beyond a side of  *)
(* the box is inside of the padded side.                                    *)
LEMMA ClearSide ==
  ASSUME NEW u \in Int, NEW v \in Int, u # 0 \/ v # 0, NEW m \in Int, NEW pad \in Nat,
         (pad + 1) * (pad + 1) > Fine * Fine * Padding * Padding * (u * u + v * v),
         NEW q \in Int \X Int, NEW d \in Nat \ {0}, NEW z \in Int \X Int, NEW n \in Nat \ {0},
         Form(u, v, z) <= n * m, Within(q, d, z, n)
  PROVE  InsideSide(u, v, m, pad, q, d)
<1> DEFINE N == u * u + v * v
           B == (Sub * Fine) * Rounding(-u, -v)
           A == pad - B
           FC == Fine * Clearance
           x == n * q[1] - d * z[1]
           y == n * q[2] - d * z[2]
           w == u * x + v * y
           nd == n * d
           F == Form(u, v, q)
           G == Form(u, v, z)
<1>1. Fine \in Nat \ {0} /\ Clearance \in Nat
  BY LengthsAssumption, PaddingAssumption DEF Clearance
<1>2. B \in Nat /\ A \in Nat /\ FC \in Nat /\ FC * FC * N <= A * A
  BY ClearPad
<1>3. q[1] \in Int /\ q[2] \in Int /\ z[1] \in Int /\ z[2] \in Int
  OBVIOUS
<1>4. x \in Int /\ y \in Int /\ F \in Int /\ G \in Int /\ nd \in Nat \ {0}
  <2>1. \A a \in Nat \ {0}, b \in Nat \ {0} : a * b \in Nat \ {0}
    OBVIOUS
  <2> QED
    BY <1>3, <2>1 DEF Form
<1>5. w = n * F - d * G
  BY <1>3 DEF Form
<1>6. G <= n * m
  OBVIOUS
<1>7. x * x + y * y <= (nd * Clearance) * (nd * Clearance)
  BY DEF Within
<1>8. N \in Nat
  <2>1. \A k \in Int : k * k \in Nat
    OBVIOUS
  <2>2. u * u \in Nat /\ v * v \in Nat
    BY <2>1
  <2> QED
    BY <2>2
<1> HIDE DEF B, x, y, nd, F, G
<1>9. w \in Int /\ w * w <= N * ((nd * Clearance) * (nd * Clearance))
  <2> DEFINE s == x * x + y * y
             t == (nd * Clearance) * (nd * Clearance)
  <2>1. w \in Int
    BY <1>4
  <2>2. w * w <= N * s
    BY <1>4, FormLength
  <2>3. s \in Int /\ t \in Int /\ s <= t
    BY <1>1, <1>4, <1>7
  <2> HIDE DEF s, t, N, w
  <2>4. N * s <= N * t
    BY <1>8, <2>3, Scale
  <2>5. w * w \in Int /\ N * s \in Int /\ N * t \in Int
    BY <1>8, <2>1, <2>3
  <2>6. w * w <= N * t
    <3> DEFINE r1 == w * w
               r2 == N * s
               r3 == N * t
    <3>1. r1 \in Int /\ r2 \in Int /\ r3 \in Int /\ r1 <= r2 /\ r2 <= r3
      BY <2>2, <2>4, <2>5
    <3> HIDE DEF r1, r2, r3
    <3>2. r1 <= r3
      BY <3>1
    <3> QED
      BY <3>2 DEF r1, r3
  <2> QED
    BY <2>1, <2>6 DEF t
<1> HIDE DEF w, N, A
<1>10. Fine * w <= nd * A
  <2> SUFFICES ASSUME ~(Fine * w <= nd * A) PROVE FALSE
    OBVIOUS
  <2> DEFINE a == nd * A
             b == Fine * w
  <2>1. a \in Nat /\ b \in Int /\ ~(b <= a)
    BY <1>1, <1>2, <1>4, <1>9
  <2>2. b \in Nat /\ a < b
    <3> HIDE DEF a, b
    <3> QED
      BY <2>1
  <2>3. a * a < b * b
    <3> HIDE DEF a, b
    <3> QED
      BY <2>1, <2>2, Squares
  <2>4. a * a = (nd * nd) * (A * A) /\ b * b = (Fine * Fine) * (w * w)
    BY <1>1, <1>2, <1>4, <1>9
  <2> DEFINE t == N * ((nd * Clearance) * (nd * Clearance))
  <2>5. (Fine * Fine) * (w * w) <= (Fine * Fine) * t
    <3> DEFINE k == Fine * Fine
               ww == w * w
    <3>1. k \in Nat /\ ww \in Int /\ ww <= t
      BY <1>1, <1>9
    <3>2. t \in Int
      <4>1. nd * Clearance \in Int
        BY <1>1, <1>4
      <4> DEFINE r == nd * Clearance
      <4> HIDE DEF r
      <4>2. r * r \in Int
        BY <4>1 DEF r
      <4>3. N * (r * r) \in Int
        BY <1>8, <4>2
      <4> QED
        BY <4>3 DEF r
    <3> HIDE DEF k, ww, t
    <3>3. k * ww <= k * t
      BY <3>1, <3>2, Scale
    <3> QED
      BY <3>3 DEF k, ww
  <2>6. (Fine * Fine) * t = (nd * nd) * (FC * FC * N)
    BY <1>1, <1>4, <1>8
  <2>7. (nd * nd) * (FC * FC * N) <= (nd * nd) * (A * A)
    <3> DEFINE k == nd * nd
               r == FC * FC * N
               s == A * A
    <3>1. k \in Nat /\ r \in Int /\ s \in Int /\ r <= s
      <4>1. FC * FC \in Nat
        BY <1>2
      <4> QED
        BY <1>2, <1>4, <1>8, <4>1 DEF N
    <3> HIDE DEF k, r, s
    <3>2. k * r <= k * s
      BY <3>1, Scale
    <3> QED
      BY <3>2 DEF k, r, s
  <2> DEFINE r1 == a * a
             r2 == b * b
             r3 == (nd * nd) * (FC * FC * N)
  <2>8. r1 \in Int /\ r2 \in Int /\ r3 \in Int
    <3>1. FC * FC \in Nat
      BY <1>2
    <3>2. FC * FC * N \in Nat /\ nd * nd \in Nat
      BY <1>4, <1>8, <3>1
    <3>3. r3 \in Int
      BY <3>2
    <3> HIDE DEF a, b
    <3> QED
      BY <2>1, <2>2, <3>3
  <2>9. r1 < r2 /\ r2 <= r3 /\ r3 <= r1
    BY <2>3, <2>4, <2>5, <2>6, <2>7
  <2> HIDE DEF r1, r2, r3
  <2> QED
    BY <2>8, <2>9
<1>11. n * (Fine * F) = Fine * w + (Fine * d) * G
  <2>1. w = n * F - d * G
    BY <1>5
  <2> QED
    BY <1>1, <1>4, <2>1
<1>12. (Fine * d) * G <= (Fine * d) * (n * m)
  <2> DEFINE k == Fine * d
             r == n * m
  <2>1. k \in Nat /\ r \in Int /\ G <= r
    BY <1>1, <1>6
  <2> HIDE DEF k, r
  <2>2. k * G <= k * r
    BY <1>4, <2>1, Scale
  <2> QED
    BY <2>2 DEF k, r
<1>13. nd * A + (Fine * d) * (n * m) = n * (d * (Fine * m + A))
  BY <1>1, <1>2 DEF nd
<1>14. n * (Fine * F) <= n * (d * (Fine * m + A))
  <2> DEFINE r1 == Fine * w
             r2 == (Fine * d) * G
             r3 == nd * A
             r4 == (Fine * d) * (n * m)
             r5 == n * (Fine * F)
             r6 == n * (d * (Fine * m + A))
  <2>1. r1 \in Int /\ r2 \in Int /\ r3 \in Int /\ r4 \in Int
    <3>1. Fine * d \in Int /\ n * m \in Int
      BY <1>1
    <3> QED
      BY <1>1, <1>2, <1>4, <1>9, <3>1
  <2>2. r5 = r1 + r2 /\ r1 <= r3 /\ r2 <= r4 /\ r3 + r4 = r6
    BY <1>10, <1>11, <1>12, <1>13
  <2> HIDE DEF r1, r2, r3, r4, r5, r6
  <2>3. r5 <= r6
    BY <2>1, <2>2
  <2> QED
    BY <2>3 DEF r5, r6
<1>15. Fine * F <= d * (Fine * m + A)
  <2> DEFINE a == Fine * F
             b == d * (Fine * m + A)
  <2>1. a \in Int /\ b \in Int
    <3>1. Fine * m + A \in Int
      BY <1>1, <1>2
    <3> DEFINE k == Fine * m + A
    <3> HIDE DEF k
    <3>2. d * k \in Int
      BY <3>1 DEF k
    <3> QED
      BY <1>1, <1>4, <3>2 DEF k
  <2>2. n * a <= n * b
    BY <1>14
  <2> HIDE DEF a, b
  <2>3. a <= b
    BY <2>1, <2>2, Scale
  <2> QED
    BY <2>3 DEF a, b
<1>16. d * (Fine * m + A) = d * (Fine * m + pad) - d * B /\ d * B \in Int /\ d * (Fine * m + pad) \in Int
  <2>1. Fine * m \in Int /\ A = pad - B
    BY <1>1 DEF A
  <2> DEFINE k == Fine * m
  <2> HIDE DEF k
  <2>2. d * (k + (pad - B)) = d * (k + pad) - d * B /\ d * B \in Int /\ d * (k + pad) \in Int
    BY <1>2, <2>1 DEF k
  <2> QED
    BY <2>1, <2>2 DEF k
<1>17. Fine * F + d * B <= d * (Fine * m + pad)
  <2> DEFINE r1 == Fine * F
             r2 == d * B
             r3 == d * (Fine * m + pad)
             r4 == d * (Fine * m + A)
  <2>1. r1 \in Int /\ r2 \in Int /\ r3 \in Int /\ r4 = r3 - r2 /\ r1 <= r4
    BY <1>1, <1>4, <1>15, <1>16
  <2> HIDE DEF r1, r2, r3, r4
  <2>2. r1 + r2 <= r3
    BY <2>1
  <2> QED
    BY <2>2 DEF r1, r2, r3
<1> QED
  BY <1>17 DEF InsideSide, F, B

(* Between two points a form is at most what it is at them.                 *)
LEMMA FormBetween ==
  ASSUME NEW u \in Int, NEW v \in Int, NEW m \in Int, NEW s \in Int \X Int, NEW t \in Int \X Int,
         Form(u, v, s) <= m, Form(u, v, t) <= m, NEW n \in Nat \ {0}, NEW k \in 0 .. n
  PROVE  LET z == <<k * s[1] + (n - k) * t[1], k * s[2] + (n - k) * t[2]>>
         IN  z \in Int \X Int /\ Form(u, v, z) <= n * m
<1> DEFINE l == n - k
           F == Form(u, v, s)
           G == Form(u, v, t)
           z == <<k * s[1] + l * t[1], k * s[2] + l * t[2]>>
<1>1. s[1] \in Int /\ s[2] \in Int /\ t[1] \in Int /\ t[2] \in Int /\ k \in Nat /\ l \in Nat /\ k + l = n
  OBVIOUS
<1>2. F \in Int /\ G \in Int
  BY <1>1 DEF Form
<1> HIDE DEF l
<1>3. z \in Int \X Int /\ Form(u, v, z) = k * F + l * G
  <2>1. z \in Int \X Int
    BY <1>1
  <2>2. u * (k * s[1] + l * t[1]) + v * (k * s[2] + l * t[2])
          = k * (u * s[1] + v * s[2]) + l * (u * t[1] + v * t[2])
    BY <1>1
  <2> QED
    BY <2>1, <2>2 DEF Form
<1>4. F <= m /\ G <= m
  OBVIOUS
<1> HIDE DEF F, G
<1>5. k * F <= k * m /\ l * G <= l * m
  BY <1>1, <1>2, <1>4, Scale
<1>6. k * m + l * m = n * m /\ k * m \in Int /\ l * m \in Int /\ k * F \in Int /\ l * G \in Int
  BY <1>1, <1>2
<1> DEFINE r1 == k * F
           r2 == l * G
           r3 == k * m
           r4 == l * m
<1>7. r1 <= r3 /\ r2 <= r4 /\ r3 + r4 = n * m /\ r1 \in Int /\ r2 \in Int /\ r3 \in Int /\ r4 \in Int
  BY <1>5, <1>6
<1> HIDE DEF r1, r2, r3, r4
<1>8. r1 + r2 <= n * m
  BY <1>7
<1>9. Form(u, v, z) <= n * m
  BY <1>3, <1>8 DEF r1, r2
<1> QED
  BY <1>3, <1>9 DEF l

(* A point that is near a cluster is inside of the padded box about it.     *)
LEMMA NearInside ==
  ASSUME NEW b \in BoxRecord, b.edge # <<0, 0>>, NEW pad \in Nat, IsPad(pad, b.edge),
         NEW C \in SUBSET (Int \X Int), Covers(b, C),
         NEW p \in Int \X Int, NEW d \in Nat \ {0}, NearCluster(p, d, C)
  PROVE  Inside(b, pad, FromLidar(p, d), d)
<1> DEFINE e == b.edge
           a == e[1]
           f == e[2]
           q == FromLidar(p, d)
<1>1. e \in Int \X Int /\ a \in Int /\ f \in Int /\ (a # 0 \/ f # 0)
  BY DEF BoxRecord
<1>2. b.box.minX \in Int /\ b.box.maxX \in Int /\ b.box.minY \in Int /\ b.box.maxY \in Int
  BY DEF BoxRecord, BoxType
<1>14. PICK s \in C, t \in C, n \in Nat \ {0} :
        \E k \in 0 .. n : Within(q, d, <<k * s[1] + (n - k) * t[1], k * s[2] + (n - k) * t[2]>>, n)
  BY DEF NearCluster
<1>3. PICK k \in 0 .. n : Within(q, d, <<k * s[1] + (n - k) * t[1], k * s[2] + (n - k) * t[2]>>, n)
  BY <1>14
<1> DEFINE z == <<k * s[1] + (n - k) * t[1], k * s[2] + (n - k) * t[2]>>
<1>4. q \in Int \X Int
  BY LengthsAssumption DEF FromLidar
<1>5. s \in Int \X Int /\ t \in Int \X Int
  OBVIOUS
<1>6. ASSUME NEW r \in C
      PROVE  /\ Form(a, f, r) <= b.box.maxX /\ Form(-a, -f, r) <= -b.box.minX
             /\ Form(-f, a, r) <= b.box.maxY /\ Form(f, -a, r) <= -b.box.minY
  <2>1. /\ Fit!Along(r, e) \in b.box.minX .. b.box.maxX
        /\ Fit!Across(r, e) \in b.box.minY .. b.box.maxY
    BY DEF Covers
  <2>2. r \in Int \X Int
    OBVIOUS
  <2> DEFINE r1 == r[1]
             r2 == r[2]
             X == r1 * a + r2 * f
             Y == r2 * a - r1 * f
  <2>3. Fit!Along(r, e) = X /\ Fit!Across(r, e) = Y
    BY DEF Fit!Along, Fit!Across
  <2>4. r1 \in Int /\ r2 \in Int
    BY <2>2
  <2>5. /\ Form(a, f, r) = a * r1 + f * r2 /\ Form(-a, -f, r) = (-a) * r1 + (-f) * r2
        /\ Form(-f, a, r) = (-f) * r1 + a * r2 /\ Form(f, -a, r) = f * r1 + (-a) * r2
    BY DEF Form
  <2> HIDE DEF r1, r2, a, f
  <2>6. /\ a * r1 + f * r2 = X /\ (-a) * r1 + (-f) * r2 = -X
        /\ (-f) * r1 + a * r2 = Y /\ f * r1 + (-a) * r2 = -Y
        /\ X \in Int /\ Y \in Int
    BY <1>1, <2>4
  <2> HIDE DEF X, Y
  <2>7. X <= b.box.maxX /\ -X <= -b.box.minX /\ Y <= b.box.maxY /\ -Y <= -b.box.minY
    BY <1>2, <2>1, <2>3, <2>6
  <2> QED
    BY <2>5, <2>6, <2>7
<1>7. /\ (pad + 1) * (pad + 1) > Fine * Fine * Padding * Padding * (a * a + f * f)
      /\ (pad + 1) * (pad + 1) > Fine * Fine * Padding * Padding * ((-a) * (-a) + (-f) * (-f))
      /\ (pad + 1) * (pad + 1) > Fine * Fine * Padding * Padding * ((-f) * (-f) + a * a)
      /\ (pad + 1) * (pad + 1) > Fine * Fine * Padding * Padding * (f * f + (-a) * (-a))
  <2>1. (pad + 1) * (pad + 1) > Fine * Fine * Padding * Padding * (a * a + f * f)
    BY DEF IsPad, Fit!Norm2
  <2> HIDE DEF a, f
  <2>2. /\ (-a) * (-a) + (-f) * (-f) = a * a + f * f
        /\ (-f) * (-f) + a * a = a * a + f * f
        /\ f * f + (-a) * (-a) = a * a + f * f
    BY <1>1
  <2> QED
    BY <2>1, <2>2
<1>8. ASSUME NEW u \in Int, NEW v \in Int, u # 0 \/ v # 0, NEW m \in Int,
             Form(u, v, s) <= m, Form(u, v, t) <= m,
             (pad + 1) * (pad + 1) > Fine * Fine * Padding * Padding * (u * u + v * v)
      PROVE  InsideSide(u, v, m, pad, q, d)
  <2>1. z \in Int \X Int /\ Form(u, v, z) <= n * m
    BY <1>5, <1>8, FormBetween
  <2>2. Within(q, d, z, n)
    BY <1>3
  <2> HIDE DEF z, q
  <2> QED
    BY <1>4, <1>8, <2>1, <2>2, ClearSide
<1>9. /\ -a \in Int /\ -f \in Int /\ (-a # 0 \/ -f # 0) /\ (-f # 0 \/ a # 0) /\ (f # 0 \/ -a # 0)
      /\ -b.box.minX \in Int /\ -b.box.minY \in Int
  BY <1>1, <1>2
<1> HIDE DEF a, f, q
<1>10. InsideSide(a, f, b.box.maxX, pad, q, d)
  BY <1>1, <1>2, <1>6, <1>7, <1>8
<1>11. InsideSide(-a, -f, -b.box.minX, pad, q, d)
  BY <1>6, <1>7, <1>8, <1>9
<1>12. InsideSide(-f, a, b.box.maxY, pad, q, d)
  BY <1>1, <1>2, <1>6, <1>7, <1>8, <1>9
<1>13. InsideSide(f, -a, -b.box.minY, pad, q, d)
  BY <1>1, <1>6, <1>7, <1>8, <1>9
<1> QED
  BY <1>10, <1>11, <1>12, <1>13 DEF Inside, a, f, q

(* What is near a cluster is in the polygon of the box about it: with a     *)
(* padding of half of Thin no box is left out.                              *)
LEMMA NearShown ==
  ASSUME NEW b \in BoxRecord, Shaped(b), NEW C \in SUBSET (Int \X Int), Covers(b, C),
         NEW p \in Int \X Int, NEW d \in Nat \ {0}, NearCluster(p, d, C)
  PROVE  InPolygon(Grid!WorldToCostmap(p, d), ToBaselink(b.corners))
<1> DEFINE g == Grid!WorldToCostmap(p, d)
           c == b.corners
           N == Fit!Norm2(b.edge)
           P == Grid!Polygon(ToBaselink(c))
<1>1. ~(2 * Padding < Thin)
  BY PaddingAssumption, LengthsAssumption
<1>2. PICK pad \in Nat : IsPad(pad, b.edge) /\ c = PaddedCorners(b, pad)
  BY <1>1 DEF Shaped
<1>3. b.edge # <<0, 0>>
  BY DEF Shaped
<1>4. Inside(b, pad, FromLidar(p, d), d)
  BY <1>2, <1>3, NearInside
<1>5. Grid!IsPointInPolygon(g[1], g[2], P)
  BY <1>2, <1>3, <1>4, InsidePolygon
<1>6. g \in Int \X Int
  BY LookedCell
<1>7. P \in [1 .. 4 -> Int \X Int] /\ Len(P) = 4
  <2>1. c \in CornersType /\ Len(c.at) = 4 /\ c.den = Fine * N
    BY <1>2 DEF BoxRecord, PaddedCorners
  <2>2. N \in Nat \ {0}
    <3> DEFINE a == b.edge[1]
               f == b.edge[2]
    <3>1. a \in Int /\ f \in Int /\ (a # 0 \/ f # 0)
      BY <1>3 DEF BoxRecord
    <3>2. N = a * a + f * f
      BY DEF Fit!Norm2
    <3> HIDE DEF a, f
    <3>3. \A z \in Int : z * z \in Nat /\ (z # 0 => z * z > 0)
      OBVIOUS
    <3>4. a * a + f * f \in Nat \ {0}
      BY <3>1, <3>3
    <3> QED
      BY <3>2, <3>4
  <2> HIDE DEF c, N
  <2> QED
    BY <2>1, <2>2, PolygonCells
<1> HIDE DEF P, g, c
<1>8. \A a \in {1, 2} : \E j, k \in 1 .. 4 : P[j][a] <= g[a] /\ g[a] <= P[k][a]
  BY <1>5, <1>6, <1>7, InBounds
<1>9. DOMAIN P = 1 .. 4
  BY <1>7
<1> QED
  BY <1>5, <1>8, <1>9 DEF InPolygon, P, g, c

(* A point off the map is lethal, and so is one in a cell drawn.            *)
LEMMA LethalAt ==
  ASSUME IsMap(msg), DOMAIN msg = 0 .. Grid!Size - 1, NEW p \in Int \X Int, NEW d \in Nat \ {0},
         \A x \in 0 .. Width - 1, y \in 0 .. Height - 1 :
           Grid!WorldToCostmap(p, d) = <<x, y>> => msg[y * Width + x] = Grid!obstacle_cost
  PROVE  Grid!GetCostmapCost(p, d) >= Grid!lethal_cost_threshold
<1> DEFINE g == Grid!WorldToCostmap(p, d)
           raw == msg[g[2] * Width + g[1]]
<1>1. Grid!GetCostmapCost(p, d) =
        IF DOMAIN msg = {} THEN 0
        ELSE IF ~Grid!OnMap(g) THEN Grid!lethal_cost_threshold
        ELSE IF raw < 0 THEN 30 ELSE Grid!MinOf({raw, 100})
  BY DEF Grid!GetCostmapCost
<1>2. g \in Int \X Int
  BY LookedCell
<1>3. Grid!Size \in Nat \ {0}
  <2>1. \A a \in Nat \ {0}, b \in Nat \ {0} : a * b \in Nat \ {0}
    OBVIOUS
  <2> QED
    BY <2>1, LengthsAssumption DEF Grid!Size
<1>4. DOMAIN msg # {}
  <2> DEFINE n == Grid!Size
  <2> HIDE DEF n
  <2>1. 0 \in 0 .. n - 1
    BY <1>3 DEF n
  <2>2. 0 \in DOMAIN msg
    BY <2>1 DEF n
  <2> QED
    BY <2>2
<1>5. CASE ~Grid!OnMap(g)
  <2>1. Grid!GetCostmapCost(p, d) = Grid!lethal_cost_threshold
    BY <1>1, <1>4, <1>5
  <2> QED
    BY <2>1 DEF Grid!lethal_cost_threshold
<1>6. CASE Grid!OnMap(g)
  <2>1. g[1] \in 0 .. Width - 1 /\ g[2] \in 0 .. Height - 1
    BY <1>6 DEF Grid!OnMap
  <2>2. g = <<g[1], g[2]>>
    <3> HIDE DEF g
    <3> QED
      BY <1>2
  <2>3. raw = Grid!obstacle_cost
    <3> HIDE DEF g
    <3> QED
      BY <2>1, <2>2 DEF g
  <2>4. raw \in Cost
    BY <2>3 DEF Cost
  <2> HIDE DEF raw, g
  <2>5. Grid!GetCostmapCost(p, d) = IF raw < 0 THEN 30 ELSE Grid!MinOf({raw, 100})
    BY <1>1, <1>4, <1>6
  <2> QED
    BY <2>3, <2>4, <2>5, CostSeen
<1> QED
  BY <1>5, <1>6

----------------------------------------------------------------------------
(* Hence no candidate left valid has a body point near a cluster.           *)

(* Whatever is near a cluster of the scan published is lethal, on the map   *)
(* or beyond it: neither rounding, division towards zero, the filter        *)
(* against thin rectangles, clearing about the vehicle nor the edge of the  *)
(* map takes it away (Lshapefitting.cpp:273-346, Costmap.cpp:190-331).      *)
ClustersSeen ==
  stage = "spin" /\ plan.scan < scan =>
    \A c \in DOMAIN recording[scan], p \in Int \X Int, d \in Nat \ {0} :
      NearCluster(p, d, recording[scan][c])
        => Grid!GetCostmapCost(p, d) >= Grid!lethal_cost_threshold

(* No body point of a candidate left valid is near a cluster of the scan    *)
(* the candidates were evaluated with (LatticePlanning.cpp:372-427).        *)
BodyClear ==
  plan.scan > 0 /\ ~plan.zone =>
    \A h \in plan.valid, c \in DOMAIN recording[plan.scan] :
      \A p \in BodyOf[h] : ~NearCluster(p, Unit, recording[plan.scan][c])

(* What is drawn is lethal near the clusters.                               *)
LEMMA DrawnNear ==
  IInv /\ ShownInv /\ ShapeInv => ClustersSeen
<1> SUFFICES ASSUME IInv, ShownInv, ShapeInv, stage = "spin", plan.scan < scan,
                    NEW c \in DOMAIN recording[scan], NEW p \in Int \X Int, NEW d \in Nat \ {0},
                    NearCluster(p, d, recording[scan][c])
             PROVE  Grid!GetCostmapCost(p, d) >= Grid!lethal_cost_threshold
  BY DEF ClustersSeen
<1> DEFINE C == recording[scan][c]
           b == boxes[c]
           n == Len(boxes)
<1>1. GridInv /\ NodeInv
  BY DEF IInv
<1>2. scan > 0
  <2>1. plan.scan \in Nat /\ scan \in Int
    BY <1>1 DEF NodeInv
  <2> QED
    BY <2>1
<1>3. Drawn(msg, n) /\ n = Len(recording[scan])
  BY <1>2 DEF ShownInv
<1>4. boxes \in Seq(BoxRecord)
  BY <1>1 DEF NodeInv, BoxRecord
<1>5. recording[scan] \in Seq(SUBSET (Int \X Int))
  <2>1. recording \in Seq(Seq(SUBSET (Int \X Int))) /\ scan \in 1 .. Len(recording)
    BY <1>1, <1>2, RecordingsAssumption DEF NodeInv
  <2> QED
    BY <2>1
<1>6. c \in 1 .. n /\ C \in SUBSET (Int \X Int)
  <2> DEFINE s == recording[scan]
  <2>1. s \in Seq(SUBSET (Int \X Int)) /\ c \in DOMAIN s /\ n = Len(s)
    BY <1>3, <1>5
  <2> HIDE DEF s, n
  <2>2. c \in 1 .. n /\ s[c] \in SUBSET (Int \X Int)
    BY <2>1
  <2> QED
    BY <2>2 DEF s
<1>7. b \in BoxRecord /\ Shaped(b) /\ Covers(b, C) /\ b.corners \in CornersType
  <2>1. b \in BoxRecord
    BY <1>4, <1>6
  <2>2. Shaped(b) /\ Covers(b, C)
    BY <1>6 DEF ShapeInv, ShownInv
  <2>3. b.corners \in CornersType
    BY <2>1 DEF BoxRecord
  <2> QED
    BY <2>1, <2>2, <2>3
<1> HIDE DEF C, b
<1>8. InPolygon(Grid!WorldToCostmap(p, d), ToBaselink(b.corners))
  <2>1. NearCluster(p, d, C)
    BY DEF C
  <2> QED
    BY <1>6, <1>7, <2>1, NearShown
<1>9. ASSUME NEW x \in 0 .. Width - 1, NEW y \in 0 .. Height - 1, Grid!WorldToCostmap(p, d) = <<x, y>>
      PROVE  msg[y * Width + x] = Grid!obstacle_cost
  <2>1. ToBaselink(b.corners) \in CornersType
    BY <1>7, ToBaselinkType
  <2>2. InPolygon(<<x, y>>, ToBaselink(b.corners))
    BY <1>8, <1>9
  <2>3. y * Width + x \in Grid!Filled(ToBaselink(b.corners))
    BY <2>1, <2>2, FilledCells
  <2>4. y * Width + x \in 0 .. Grid!Size - 1
    BY IndexOnMap
  <2>5. \E k \in 1 .. n : y * Width + x \in Grid!Filled(ToBaselink(boxes[k].corners))
    BY <1>6, <2>3 DEF b
  <2> QED
    BY <1>3, <2>4, <2>5 DEF Drawn
<1>10. IsMap(msg) /\ DOMAIN msg = 0 .. Grid!Size - 1
  BY <1>1, <1>3, GridTypes DEF GridInv, Drawn
<1> QED
  BY <1>9, <1>10, LethalAt

(* Nothing is evaluated at first.                                           *)
LEMMA ClearInit == Init => BodyClear
<1> SUFFICES ASSUME Init PROVE BodyClear
  OBVIOUS
<1>1. plan.scan = 0
  BY DEF Init
<1>2. ~(plan.scan > 0)
  BY <1>1
<1> QED
  BY <1>2 DEF BodyClear

(* A candidate left valid was looked up in a map that shows the clusters.   *)
LEMMA ClearStep ==
  IInv /\ ClustersSeen /\ BodyClear /\ [Next]_vars => BodyClear'
<1> SUFFICES ASSUME IInv, ClustersSeen, BodyClear, [Next]_vars PROVE BodyClear'
  OBVIOUS
<1>1. CASE EvaluateAllCandidates
  <2>1. stage = "spin" /\ plan.scan < scan /\ recording' = recording
    BY <1>1 DEF EvaluateAllCandidates
  <2>2. PICK zone \in BOOLEAN :
          plan' = [scan |-> scan, zone |-> zone,
                   valid |-> {h \in Candidates :
                     zone \/ \A p \in BodyOf[h] :
                               Grid!GetCostmapCost(p, Unit) < Grid!lethal_cost_threshold}]
    BY <1>1 DEF EvaluateAllCandidates
  <2> SUFFICES ASSUME ~zone, NEW h \in plan'.valid, NEW c \in DOMAIN recording[scan],
                      NEW p \in BodyOf[h], NearCluster(p, Unit, recording[scan][c])
               PROVE  FALSE
    BY <2>1, <2>2 DEF BodyClear, NearCluster, Within, FromLidar
  <2>3. h \in Candidates /\ Grid!GetCostmapCost(p, Unit) < Grid!lethal_cost_threshold
    BY <2>2
  <2>4. p \in Int \X Int /\ Unit \in Nat \ {0}
    BY <2>3, BodyAssumption, LengthsAssumption
  <2>5. Grid!GetCostmapCost(p, Unit) >= Grid!lethal_cost_threshold
    BY <2>1, <2>4 DEF ClustersSeen
  <2>6. Grid!GetCostmapCost(p, Unit) \in Int
    BY CostType DEF IInv
  <2> QED
    BY <2>3, <2>5, <2>6 DEF Grid!lethal_cost_threshold
<1>2. CASE UNCHANGED <<plan, recording>>
  BY <1>2 DEF BodyClear, NearCluster, Within, FromLidar
<1>3. EvaluateAllCandidates \/ UNCHANGED <<plan, recording>>
  BY DEF Next, vars, NewScan, BeginCluster, FitCluster, EndCluster, DrawScan, DrawCluster, PublishMap
<1> QED
  BY <1>1, <1>2, <1>3

----------------------------------------------------------------------------
(* The results.                                                             *)

(* The ring is the points to and fro, the box is the extent at the edge     *)
(* kept with it, and the maps have all cells or none.                       *)
THEOREM InductiveCorrect == Spec => []IInv
BY InitInv, StepInv, PTL DEF Spec

(* Types of both parts; the planner is at most one map behind.              *)
THEOREM TypeCorrect == Spec => []TypeOK
<1>1. IInv => TypeOK
  BY FitTypeOK DEF IInv, GridInv, NodeInv, TypeOK
<1> QED BY <1>1, InductiveCorrect, PTL

(* No corner of a cluster is missing from the ring and every edge of it has *)
(* an angle, for all clusters of five points or more.                       *)
THEOREM RingServesCorrect == Spec => []RingServes
<1>1. IInv => RingServes
  BY FitRingServes DEF IInv
<1> QED BY <1>1, InductiveCorrect, PTL

(* The box passed on covers its cluster at the angle passed on with it.     *)
THEOREM BoxCoversCorrect == Spec => []BoxCovers
<1>1. IInv => BoxCovers
  BY FitBoxCovers DEF IInv
<1> QED BY <1>1, InductiveCorrect, PTL

(* Of all scans published every cluster has a box that covers it, and the   *)
(* boxes are in the order of the clusters: none is skipped, none is fitted  *)
(* with the points of another (Lshapefitting.cpp, LShapefitting).           *)
THEOREM ScanBoxedCorrect == Spec => []ScanBoxed
<1>1. Init => IInv /\ ShownInv
  BY InitInv, ShownInit
<1>2. IInv /\ ShownInv /\ [Next]_vars => (IInv /\ ShownInv)'
  BY StepInv, ShownStep
<1>3. ShownInv => ScanBoxed
  BY DEF ShownInv, ScanBoxed
<1> QED BY <1>1, <1>2, <1>3, PTL DEF Spec

(* The planner sees the boxes of the last scan and nothing else, for every  *)
(* size of the map, wherever the boxes lie and however many there are.      *)
THEOREM BoxesShownCorrect == Spec => []BoxesShown
<1>1. Init => IInv /\ ShownInv
  BY InitInv, ShownInit
<1>2. IInv /\ ShownInv /\ [Next]_vars => (IInv /\ ShownInv)'
  BY StepInv, ShownStep
<1> QED BY <1>1, <1>2, ShownIsSeen, PTL DEF Spec

(* What is farther from all boxes than padding and rounding reach is not    *)
(* lethal: at every angle of a box, cut off by the edge of the map or not,  *)
(* whatever the scan before has left, and with no loop of fillPoly drawing  *)
(* a cell of another row (Costmap.cpp:242-331).                             *)
THEOREM NothingElseSeenCorrect == Spec => []NothingElseSeen
<1>1. Init => IInv /\ ShownInv /\ ShapeInv
  BY InitInv, ShownInit, ShapeInit
<1>2. IInv /\ ShownInv /\ ShapeInv /\ [Next]_vars => (IInv /\ ShownInv /\ ShapeInv)'
  BY StepInv, ShownStep, ShapeStep
<1>3. IInv /\ ShownInv /\ ShapeInv => NothingElseSeen
  BY ShownIsSeen, NothingElse
<1> QED BY <1>1, <1>2, <1>3, PTL DEF Spec

(* Whatever is near a cluster of the last scan costs as much as an obstacle *)
(* or more, for every cluster at every angle, in every scan, whichever edge *)
(* has won the fit: no box is filtered out, and what rounding takes from a  *)
(* box is less than its padding (Lshapefitting.cpp:273-346,                 *)
(* Costmap.cpp:190-331).                                                    *)
THEOREM ClustersSeenCorrect == Spec => []ClustersSeen
<1>1. Init => IInv /\ ShownInv /\ ShapeInv
  BY InitInv, ShownInit, ShapeInit
<1>2. IInv /\ ShownInv /\ ShapeInv /\ [Next]_vars => (IInv /\ ShownInv /\ ShapeInv)'
  BY StepInv, ShownStep, ShapeStep
<1>3. IInv /\ ShownInv /\ ShapeInv => ClustersSeen
  BY DrawnNear
<1> QED BY <1>1, <1>2, <1>3, PTL DEF Spec

(* A candidate is valid only if every point looked up of the vehicle on it  *)
(* is clear of all clusters of the scan it was evaluated with, while the    *)
(* next one is fitted and drawn, too (LatticePlanning.cpp:372-427).         *)
THEOREM BodyClearCorrect == Spec => []BodyClear
<1>1. Init => IInv /\ ShownInv /\ ShapeInv /\ BodyClear
  BY InitInv, ShownInit, ShapeInit, ClearInit
<1>2. IInv /\ ShownInv /\ ShapeInv /\ BodyClear /\ [Next]_vars
        => (IInv /\ ShownInv /\ ShapeInv /\ BodyClear)'
  BY StepInv, ShownStep, ShapeStep, DrawnNear, ClearStep
<1> QED BY <1>1, <1>2, PTL DEF Spec

=============================================================================
