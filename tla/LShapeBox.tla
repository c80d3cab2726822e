----------------------------- MODULE LShapeBox -----------------------------
(***************************************************************************)
(* Lshapefitting.cpp: the rectangle fitted about the points of a cluster.  *)
(* Calculate_ConvexHull makes a ring of points, its edges are the angles   *)
(* tried, Calculate_Closeness keeps the extent of the cluster at the angle *)
(* of the best score, and Calculate_Process pads it, turns it back and     *)
(* leaves out what is long and thin.                                       *)
(*                                                                         *)
(* Coordinates are integers, and the angle of an edge is its vector: what  *)
(* the code multiplies by a cosine is here a whole number, larger by the   *)
(* length of the edge, so that extents are exact.  Scores are floats whose *)
(* rounding decides; which edge wins is left open, except that the first   *)
(* is taken at once (it beats -1e9).  Only the corners need the length of  *)
(* the edge, a root: they are rounded to 1/Fine of a unit, inwards.        *)
(***************************************************************************)
EXTENDS Integers, Sequences, SequencesExt

CONSTANTS
  Clusters,       \* what Euclidean may return; points differ in x or y, being means of voxels
  Padding,        \* padding_value
  Thin, Long,     \* what is narrower and longer is left out
  Fine

VARIABLES
  pc,
  points,      \* vec_Points, sorted
  i,           \* loop variable
  hull,        \* vec_Convexhull_Points
  HullSize,    \* its size as Calculate_ConvexHull knows it
  lower_size,
  edge,        \* the edge whose angle is BestTheta
  box,         \* BestMinX, BestMaxX, BestMinY, BestMaxY as Calculate_Closeness has them
  corners      \* vec_Corners, as [at, den]: whole numbers over a common denominator

\* SortingPoints
Before(p, q) == p[1] < q[1] \/ (p[1] = q[1] /\ p[2] < q[2])
Sorted(P) ==
  [k \in 1 .. Cardinality(P) |-> CHOOSE p \in P : Cardinality({q \in P : Before(q, p)}) = k - 1]

CrossProduct(p, q, r) ==
  (q[1] - p[1]) * (r[2] - p[2]) - (q[2] - p[2]) * (r[1] - p[1])

NoBox == [minX |-> 0, maxX |-> 0, minY |-> 0, maxY |-> 0]
NoCorners == [at |-> <<<<0, 0>>, <<0, 0>>, <<0, 0>>, <<0, 0>>>>, den |-> 1]

Init ==
  /\ pc = "idle" /\ points = << >>
  /\ i = 1 /\ hull = << >> /\ HullSize = 0 /\ lower_size = 0
  /\ edge = <<0, 0>> /\ box = NoBox /\ corners = NoCorners

\* Calculate_Process is called for the cluster P.
Begin(P) ==
  /\ pc = "idle"
  /\ pc' = "lower"
  /\ points' = Sorted(P)
  /\ i' = 1 /\ hull' = << >> /\ HullSize' = 0 /\ lower_size' = 0
  /\ edge' = <<0, 0>> /\ box' = NoBox /\ corners' = NoCorners

----------------------------------------------------------------------------
(* Calculate_ConvexHull *)

\* A while loop goes on: the last point does not turn left on the way to p.
Drops(p, floor) ==
  /\ HullSize > floor
  /\ CrossProduct(hull[HullSize - 1], hull[Len(hull)], p) <= 0

\* Left to right.  HullSize is read off the empty ring before and never again.
Lower ==
  /\ pc = "lower" /\ i <= Len(points)
  /\ IF Drops(points[i], 1)
     THEN hull' = Front(hull) /\ UNCHANGED i
     ELSE hull' = Append(hull, points[i]) /\ i' = i + 1
  /\ UNCHANGED <<pc, points, HullSize, lower_size, edge, box, corners>>

LowerDone ==
  /\ pc = "lower" /\ i > Len(points)
  /\ lower_size' = HullSize
  /\ i' = Len(points) - 1
  /\ pc' = "upper"
  /\ UNCHANGED <<points, hull, HullSize, edge, box, corners>>

\* Right to left.
Upper ==
  /\ pc = "upper" /\ i >= 1
  /\ IF Drops(points[i], lower_size)
     THEN hull' = Front(hull) /\ UNCHANGED i
     ELSE hull' = Append(hull, points[i]) /\ i' = i - 1
  /\ UNCHANGED <<pc, points, HullSize, lower_size, edge, box, corners>>

\* Mutant: the first point stays at both ends.
UpperDoneKeepsLast ==
  /\ pc = "upper" /\ i < 1
  /\ i' = 1
  /\ pc' = "fit"
  /\ UNCHANGED <<points, hull, HullSize, lower_size, edge, box, corners>>

\* The first point has come in again at the end.
UpperDone ==
  /\ pc = "upper" /\ i < 1
  /\ hull' = Front(hull)
  /\ i' = 1
  /\ pc' = "fit"
  /\ UNCHANGED <<points, HullSize, lower_size, edge, box, corners>>

----------------------------------------------------------------------------
(* Calculate_Closeness *)

\* Edge k of the ring.
Edge(k) ==
  LET q == hull[IF k = Len(hull) THEN 1 ELSE k + 1]
  IN  <<q[1] - hull[k][1], q[2] - hull[k][2]>>

\* The points along and across e, times its length.
Along(p, e)  == p[1] * e[1] + p[2] * e[2]
Across(p, e) == p[2] * e[1] - p[1] * e[2]

\* The smallest rectangle at the angle of e about all points, not only the ring.
Extent(e) ==
  LET P == ToSet(points)
  IN  [minX |-> Min({Along(p, e) : p \in P}),  maxX |-> Max({Along(p, e) : p \in P}),
       minY |-> Min({Across(p, e) : p \in P}), maxY |-> Max({Across(p, e) : p \in P})]

\* Mutant: the extent is stored for every edge, the angle for the best.
FitStoresAlways ==
  /\ pc = "fit" /\ i <= Len(hull)
  /\ i' = i + 1
  /\ box' = Extent(Edge(i))
  /\ edge' \in IF i = 1 THEN {Edge(i)} ELSE {edge, Edge(i)}
  /\ UNCHANGED <<pc, points, hull, HullSize, lower_size, corners>>

\* One edge is scored, and taken if it is the best so far.
Fit ==
  /\ pc = "fit" /\ i <= Len(hull)
  /\ i' = i + 1
  /\ \/ edge' = Edge(i) /\ box' = Extent(Edge(i))
     \/ i > 1 /\ UNCHANGED <<edge, box>>
  /\ UNCHANGED <<pc, points, hull, HullSize, lower_size, corners>>

----------------------------------------------------------------------------
(* Calculate_Process *)

Norm2(e) == e[1] * e[1] + e[2] * e[2]

\* A side of the box, padded, against d units; sides are units times the length of edge.
\* Mutant: the sides are taken before the padding.
ShorterUnpadded(side, d) == side * side < d * d * Norm2(edge)
Shorter(side, d) ==
  LET rest == d - 2 * Padding IN rest > 0 /\ side * side < rest * rest * Norm2(edge)
Longer(side, d) ==
  LET rest == d - 2 * Padding IN rest < 0 \/ side * side > rest * rest * Norm2(edge)

\* The smaller side, padded, is more than 0.01 m in any case.
LongAndThin ==
  LET w == box.maxY - box.minY
      l == box.maxX - box.minX
  IN  Shorter(Min({w, l}), Thin) /\ Longer(Max({w, l}), Long)

Abs(a) == IF a < 0 THEN -a ELSE a

\* Padding, times Fine and the length of edge, rounded down.
Pad ==
  LET n == Fine * Fine * Padding * Padding * Norm2(edge)
      m == Fine * Padding * (Abs(edge[1]) + Abs(edge[2]))
  IN  CHOOSE k \in 0 .. m : k * k <= n /\ (k + 1) * (k + 1) > n

\* A corner turned back by the angle of edge.
Back(x, y) == <<x * edge[1] - y * edge[2], x * edge[2] + y * edge[1]>>

\* local_corners of the padded box, turned back.
Turned ==
  LET x0 == Fine * box.minX - Pad      x1 == Fine * box.maxX + Pad
      y0 == Fine * box.minY - Pad      y1 == Fine * box.maxY + Pad
  IN  [at |-> <<Back(x0, y0), Back(x0, y1), Back(x1, y1), Back(x1, y0)>>,
       den |-> Fine * Norm2(edge)]

\* The corners of what is left out stay at the origin.
Done ==
  /\ pc = "fit" /\ i > Len(hull)
  /\ pc' = "idle"
  /\ corners' = IF LongAndThin THEN NoCorners ELSE Turned
  /\ UNCHANGED <<points, i, hull, HullSize, lower_size, edge, box>>

Step == Lower \/ LowerDone \/ Upper \/ UpperDone \/ Fit

----------------------------------------------------------------------------
(* What the fit must keep true, between clusters too. *)

\* p is a corner of the convex hull of P: from it one sees all other points to the
\* left of some other point, or behind it.
IsCorner(p, P) ==
  \E q \in P \ {p} : \A r \in P :
    \/ CrossProduct(p, q, r) > 0
    \/ /\ CrossProduct(p, q, r) = 0
       /\ (q[1] - p[1]) * (r[1] - p[1]) + (q[2] - p[2]) * (r[2] - p[2]) >= 0

(* No corner of the cluster is lost: the ring of Calculate_ConvexHull has  *)
(* every one of them (Lshapefitting.cpp:58-90).                            *)
CornersKept ==
  pc = "fit" => \A p \in ToSet(points) : IsCorner(p, ToSet(points)) => p \in ToSet(hull)

(* Every edge of the ring has an angle: no point follows itself, not even  *)
(* across the seam between the end of the ring and its beginning.          *)
EveryEdgeHasAnAngle ==
  pc = "fit" => \A k \in DOMAIN hull : Edge(k) # <<0, 0>>

(* The ring is no hull, since HullSize never changes and nothing is popped *)
(* (Lshapefitting.cpp:56-71), and serves the fit as one does.              *)
RingServes == CornersKept /\ EveryEdgeHasAnAngle

(* The rectangle passed on covers every point of the cluster at the very   *)
(* angle passed on with it, whichever edge has won (lines 165-176): the    *)
(* half metre of padding is outside the cluster on all sides.              *)
BoxCovers ==
  pc = "idle" => \A p \in ToSet(points) :
    /\ Along(p, edge) \in box.minX .. box.maxX
    /\ Across(p, edge) \in box.minY .. box.maxY

\* Types; indices stay in range and a rectangle is never inside out.
TypeOK ==
  /\ pc \in {"idle", "lower", "upper", "fit"}
  /\ points # << >> => ToSet(points) \in Clusters
  /\ hull \in Seq(Int \X Int)
  /\ HullSize \in 0 .. Len(points) /\ lower_size \in 0 .. Len(points)
  /\ i \in 0 .. 2 * Len(points) + 1
  /\ box.minX <= box.maxX /\ box.minY <= box.maxY
  /\ corners.at \in Seq(Int \X Int) /\ corners.den >= 1
=============================================================================
