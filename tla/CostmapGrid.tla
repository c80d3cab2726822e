---------------------------- MODULE CostmapGrid ----------------------------
(***************************************************************************)
(* What the clusters of one scan become: the LidarNode draws the fitted    *)
(* rectangles into state.costmap (Costmap.cpp), and the planner looks up   *)
(* single points of the message (Util_Coordinates.cpp).  The two agree on  *)
(* nothing but the message, so what a lookup finds at an obstacle depends  *)
(* on the rounding on both sides, on the order in which cells are written  *)
(* and on the clamping at the edge of the map.                             *)
(*                                                                         *)
(* The unit of length is 1/Sub of a cell, to have points off the corners   *)
(* of cells; the origin of the map is a corner, as in initializeCostmap.   *)
(* Points have whole coordinates over a denominator, as LShapeBox gives    *)
(* them.  What the map must show is said in ObstaclePath.                  *)
(***************************************************************************)
EXTENDS Integers, Sequences, FiniteSets

CONSTANTS
  Width, Height,     \* of the costmap in cells: 2000, 1000
  ClearRadius,       \* radius of clearOriginArea in cells, 3
  Sub                \* units of length in a cell

VARIABLES
  pc,
  clusters,     \* those of this scan; of each the corners in base_link, as [at, den]
  done,         \* how many of them are drawn
  data,         \* state.costmap.data by index, from 0; << >> before the first scan
  msg           \* what the planner has

unknown_cost  == -1
free_cost     == 0
obstacle_cost == 100
lethal_cost_threshold == 90

Size == Width * Height
Origin == <<-(Width \div 2) * Sub, -(Height \div 2) * Sub>>
MaxOf(S) == CHOOSE x \in S : \A y \in S : y <= x
MinOf(S) == CHOOSE x \in S : \A y \in S : x <= y

----------------------------------------------------------------------------
(* Costmap.cpp *)

\* convertBaselinkToGrid: the cell of p / d, also when it is outside the map.
GridOf(p, d) ==
  <<(p[1] - Origin[1] * d) \div (Sub * d), (p[2] - Origin[2] * d) \div (Sub * d)>>

\* convertGridToIndex
Index(x, y) ==
  IF x \notin 0 .. Width - 1 \/ y \notin 0 .. Height - 1 THEN -1 ELSE y * Width + x

\* Division of C++ rounds towards zero.
Abs(a) == IF a < 0 THEN -a ELSE a
Div(a, b) ==
  LET m == Abs(a) \div Abs(b) IN IF (a < 0) # (b < 0) THEN -m ELSE m

\* Edge i of the polygon is crossed to the right of the cell.
Crosses(x, y, polygon, i) ==
  LET p == polygon[i]
      q == polygon[IF i = 1 THEN Len(polygon) ELSE i - 1]
  IN  /\ (p[2] > y) # (q[2] > y)
      /\ x < Div((q[1] - p[1]) * (y - p[2]), q[2] - p[2]) + p[1]

\* isPointInPolygon: an odd number of edges is crossed.
IsPointInPolygon(x, y, polygon) ==
  Cardinality({i \in 1 .. Len(polygon) : Crosses(x, y, polygon, i)}) % 2 = 1

\* grid_corners: the corners as cells.
Polygon(c) == [i \in 1 .. Len(c.at) |-> GridOf(c.at[i], c.den)]

\* fillLShapePolygon: the indices it writes.  The inflation widens the bounding box
\* only, and no cell outside the polygon is written.
Filled(c) ==
  LET polygon == Polygon(c)
      Xs == {polygon[i][1] : i \in DOMAIN polygon}
      Ys == {polygon[i][2] : i \in DOMAIN polygon}
  IN  {Index(g[1], g[2]) : g \in
        {g \in (MaxOf({0, MinOf(Xs)}) .. MinOf({Width - 1, MaxOf(Xs)}))
                 \X (MaxOf({0, MinOf(Ys)}) .. MinOf({Height - 1, MaxOf(Ys)})) :
           IsPointInPolygon(g[1], g[2], polygon)}}

\* The square about the vehicle, as far as it is on the map.
NearOrigin ==
  LET o == GridOf(<<0, 0>>, 1)
      R == -ClearRadius .. ClearRadius
  IN  {Index(o[1] + d[1], o[2] + d[2]) : d \in R \X R}

\* initializeCostmap and clearOriginArea: nothing known but the square.
Blank ==
  LET near == NearOrigin
  IN  [i \in 0 .. Size - 1 |-> IF i \in near THEN free_cost ELSE unknown_cost]

----------------------------------------------------------------------------
Init ==
  /\ pc = "scan" /\ clusters = << >> /\ done = 0
  /\ data = << >> /\ msg = << >>

\* Mutant: the data is filled only when its size changes.
InitializeOnce(scan) ==
  /\ pc = "scan"
  /\ clusters' = scan
  /\ done' = 0
  /\ data' = IF DOMAIN data # {} THEN data ELSE Blank
  /\ pc' = "draw"
  /\ UNCHANGED msg

\* Costmap is called for the clusters of a scan.
Initialize(scan) ==
  /\ pc = "scan"
  /\ clusters' = scan
  /\ done' = 0
  /\ data' = Blank
  /\ pc' = "draw"
  /\ UNCHANGED msg

\* Mutant: costs are added up.
FillAdds ==
  /\ pc = "draw" /\ done < Len(clusters)
  /\ \E cells \in {Filled(clusters[done + 1])} :
     data' = [i \in DOMAIN data |-> IF i \in cells THEN data[i] + obstacle_cost ELSE data[i]]
  /\ done' = done + 1
  /\ UNCHANGED <<pc, clusters, msg>>

\* One cluster; fillCostAtIndex keeps the larger cost and drops other indices.
Fill ==
  /\ pc = "draw" /\ done < Len(clusters)
  /\ \E cells \in {Filled(clusters[done + 1])} :
     data' = [i \in DOMAIN data |->
       IF i \in cells THEN MaxOf({data[i], obstacle_cost}) ELSE data[i]]
  /\ done' = done + 1
  /\ UNCHANGED <<pc, clusters, msg>>

\* The main loop publishes, and the planner receives.
Publish ==
  /\ pc = "draw" /\ done = Len(clusters)
  /\ msg' = data
  /\ pc' = "scan"
  /\ UNCHANGED <<clusters, done, data>>

----------------------------------------------------------------------------
(* Util_Coordinates.cpp *)

\* worldToCostmapCoord, of p / d.
WorldToCostmap(p, d) ==
  <<(p[1] - Origin[1] * d) \div (Sub * d), (p[2] - Origin[2] * d) \div (Sub * d)>>

OnMap(g) == g[1] \in 0 .. Width - 1 /\ g[2] \in 0 .. Height - 1

\* getCostmapCost
GetCostmapCost(p, d) ==
  LET g == WorldToCostmap(p, d)
      raw == msg[g[2] * Width + g[1]]
  IN  IF DOMAIN msg = {} THEN 0
      ELSE IF ~OnMap(g) THEN lethal_cost_threshold
      ELSE IF raw < 0 THEN 30
      ELSE MinOf({raw, 100})

----------------------------------------------------------------------------
\* Types; a map has no cells yet or all of them, each with one of the costs there are.
TypeOK ==
  /\ pc \in {"scan", "draw"}
  /\ done \in 0 .. Len(clusters)
  /\ \A m \in {data, msg} :
       /\ DOMAIN m \in {{}, 0 .. Size - 1}
       /\ \A i \in DOMAIN m : m[i] \in {unknown_cost, free_cost, obstacle_cost}
=============================================================================
