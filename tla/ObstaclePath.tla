---------------------------- MODULE ObstaclePath ----------------------------
(***************************************************************************)
(* From the points of a cluster to a candidate path that is given up: the  *)
(* LidarNode fits a rectangle about every cluster of a scan (LShapeBox),   *)
(* moves its corners to base_link and draws it (CostmapGrid); the planner  *)
(* looks up the costmap at single points of the vehicle's outline along    *)
(* every candidate (evaluateAllCandidates).                                *)
(*                                                                         *)
(* No part is safe by itself: the planner looks only at three columns a    *)
(* metre apart and at rows half a metre apart, and what may lie between    *)
(* them is seen because the rectangles are half a metre larger than the    *)
(* clusters, unless rounding, clamping, clearing or the filter against     *)
(* thin rectangles take it away again.                                     *)
(*                                                                         *)
(* One node after the other here: which scan is at which stage while both  *)
(* run is LidarPipeline, and what the planner makes of the candidates that *)
(* are left is PathSelection.  The transform from the lidar to base_link   *)
(* is there; when it is missing is LidarPipeline too.                      *)
(***************************************************************************)
EXTENDS Integers, Sequences, FiniteSets, FiniteSetsExt

CONSTANTS
  Recordings,        \* sequences of scans; a scan is a sequence of clusters
  Mount,             \* where the lidar sits in base_link, both looking ahead
  Padding, Thin, Long, Fine,
  Width, Height, ClearRadius, Sub,
  Candidates,        \* candidate paths: sequences of headings, from sample to sample
  Unit,              \* headings are vectors of this length
  SampleSpacing,     \* from a sample to the next, in units of length
  FrontStep,         \* from a row of body points to the next
  FrontRows,         \* how many rows there are beyond the rear axle
  HalfWidth,
  Margin             \* what rounding may add to a rectangle, see NothingElseSeen

\* euclidean_min_size is 5, and two points of a cluster are the means of two voxels.
ASSUME RecordingsAssumption ==
  \A r \in Recordings :
    /\ r \in Seq(Seq(SUBSET (Int \X Int)))
    /\ \A s \in DOMAIN r : \A c \in DOMAIN r[s] :
         IsFiniteSet(r[s][c]) /\ Cardinality(r[s][c]) >= 5

ASSUME LengthsAssumption ==
  /\ {Padding, Thin, Long, ClearRadius, FrontRows, Margin} \subseteq Nat
  /\ {Fine, Width, Height, Sub, Unit, SampleSpacing, FrontStep, HalfWidth} \subseteq Nat \ {0}
  /\ Mount \in Int \X Int

\* A corner, where an edge meets a row, and a point are each rounded to cells: together
\* they are off by less than the root of five cells.
ASSUME MarginAssumption == Margin * Margin >= 5 * Sub * Sub

\* Half a metre of padding is more than cells of 5 cm are off, and twice the padding is the
\* metre below which a box is thin: no padded box is.
ASSUME PaddingAssumption == Margin < Padding /\ Thin <= 2 * Padding

ASSUME CandidatesAssumption ==
  \A h \in Candidates : \A k \in DOMAIN h :
    h[k][1] * h[k][1] + h[k][2] * h[k][2] = Unit * Unit

VARIABLES
  recording, scan,   \* what the lidar delivers, and how many scans the node has begun
  stage,             \* of the node
  boxes,             \* vec_clusters, as far as they are fitted: [edge, box, corners]
  fit_pc, points, i, hull, HullSize, lower_size, edge, box, corners,
  map_pc, clusters, done, data, msg,
  plan               \* of the planner: the scan it has seen, the valid candidates, the zone
fit_vars == <<fit_pc, points, i, hull, HullSize, lower_size, edge, box, corners>>
map_vars == <<map_pc, clusters, done, data, msg>>
vars == <<recording, scan, stage, boxes, fit_vars, map_vars, plan>>

Clusters == UNION {UNION {{r[s][c] : c \in DOMAIN r[s]} : s \in DOMAIN r} : r \in Recordings}

Fit == INSTANCE LShapeBox WITH pc <- fit_pc
Grid == INSTANCE CostmapGrid WITH pc <- map_pc

Init ==
  /\ recording \in Recordings
  /\ scan = 0 /\ stage = "spin" /\ boxes = << >>
  /\ Fit!Init /\ Grid!Init
  /\ plan = [scan |-> 0, valid |-> {}, zone |-> FALSE]

----------------------------------------------------------------------------
(* The node. *)

\* The callback; Euclidean empties vec_clusters.  The planner has run in between.
NewScan ==
  /\ stage = "spin" /\ plan.scan = scan /\ scan < Len(recording)
  /\ scan' = scan + 1 /\ stage' = "fit" /\ boxes' = << >>
  /\ UNCHANGED <<recording, fit_vars, map_vars, plan>>

\* LShapefitting calls Calculate_Process for one cluster after the other.
BeginCluster ==
  /\ stage = "fit" /\ Len(boxes) < Len(recording[scan])
  /\ Fit!Begin(recording[scan][Len(boxes) + 1])
  /\ UNCHANGED <<recording, scan, stage, boxes, map_vars, plan>>

FitCluster ==
  /\ Fit!Step
  /\ UNCHANGED <<recording, scan, stage, boxes, map_vars, plan>>

EndCluster ==
  /\ Fit!Done
  /\ boxes' = Append(boxes, [edge |-> edge, box |-> box, corners |-> corners'])
  /\ UNCHANGED <<recording, scan, stage, map_vars, plan>>

\* transformLidarToBaselink: the lidar stands straight, but not where base_link is.
ToBaselink(c) ==
  [c EXCEPT !.at = [k \in DOMAIN c.at |->
     <<c.at[k][1] + Mount[1] * c.den, c.at[k][2] + Mount[2] * c.den>>]]

DrawScan ==
  /\ stage = "fit" /\ fit_pc = "idle" /\ Len(boxes) = Len(recording[scan])
  /\ Grid!Initialize([k \in DOMAIN boxes |-> ToBaselink(boxes[k].corners)])
  /\ stage' = "draw"
  /\ UNCHANGED <<recording, scan, boxes, fit_vars, plan>>

DrawCluster ==
  /\ Grid!Fill
  /\ UNCHANGED <<recording, scan, stage, boxes, fit_vars, plan>>

PublishMap ==
  /\ Grid!Publish
  /\ stage' = "spin"
  /\ UNCHANGED <<recording, scan, boxes, fit_vars, plan>>

----------------------------------------------------------------------------
(* The planner. *)

\* The samples of a candidate over Unit, the rear axle first; the last has the heading
\* of the one before.
Sample(h, k) ==
  <<SampleSpacing * MapThenSumSet(LAMBDA j : h[j][1], 1 .. k - 1),
    SampleSpacing * MapThenSumSet(LAMBDA j : h[j][2], 1 .. k - 1)>>
Heading(h, k) == h[IF k > Len(h) THEN Len(h) ELSE k]
Samples(h) == {[at |-> Sample(h, k), dir |-> Heading(h, k)] : k \in 1 .. Len(h) + 1}

\* body_points of all samples: in every row the middle, the left and the right.
BodyPoints(h) ==
  {<<s.at[1] + f * s.dir[1] - w * s.dir[2], s.at[2] + f * s.dir[2] + w * s.dir[1]>> :
     s \in Samples(h), f \in {FrontStep * n : n \in 0 .. FrontRows}, w \in {-HalfWidth, 0, HalfWidth}}
BodyOf == [h \in Candidates |-> BodyPoints(h)]

\* Samples and headings are whole numbers of the units above.
ASSUME BodyAssumption == \A h \in Candidates : BodyOf[h] \subseteq Int \X Int

\* The lidar's part of evaluateAllCandidates, once for every map: one lethal point makes
\* a candidate invalid, except in a no lidar zone.
EvaluateAllCandidates ==
  /\ stage = "spin" /\ plan.scan < scan
  /\ \E zone \in BOOLEAN :
       plan' = [scan |-> scan, zone |-> zone,
                valid |-> {h \in Candidates :
                  zone \/ \A p \in BodyOf[h] :
                            Grid!GetCostmapCost(p, Unit) < Grid!lethal_cost_threshold}]
  /\ UNCHANGED <<recording, scan, stage, boxes, fit_vars, map_vars>>

Next ==
  \/ NewScan \/ BeginCluster \/ FitCluster \/ EndCluster
  \/ DrawScan \/ DrawCluster \/ PublishMap
  \/ EvaluateAllCandidates
Spec == Init /\ [][Next]_vars

----------------------------------------------------------------------------
\* p, of base_link, lies in the outline of the vehicle at some sample of h.
InFootprint(p, h) ==
  \E s \in Samples(h) :
    LET d == <<p[1] * Unit - s.at[1], p[2] * Unit - s.at[2]>>
    IN  /\ d[1] * s.dir[1] + d[2] * s.dir[2] \in 0 .. FrontStep * FrontRows * Unit * Unit
        /\ d[2] * s.dir[1] - d[1] * s.dir[2] \in -HalfWidth * Unit * Unit .. HalfWidth * Unit * Unit

\* p, of base_link, lies farther from the box of b than padding and rounding reach.
FarFrom(p, b) ==
  LET q == <<p[1] - Mount[1], p[2] - Mount[2]>>
  IN  \E x \in {b.box.minX - Fit!Along(q, b.edge), Fit!Along(q, b.edge) - b.box.maxX,
                b.box.minY - Fit!Across(q, b.edge), Fit!Across(q, b.edge) - b.box.maxY} :
        x > 0 /\ x * x >= (Padding + Margin) * (Padding + Margin) * Fit!Norm2(b.edge)

(* Every other point of the map. *)
Looked ==
  {p \in (-(Width \div 2) * Sub .. (Width \div 2) * Sub - 1)
           \X (-(Height \div 2) * Sub .. (Height \div 2) * Sub - 1) : (p[1] + p[2]) % 2 = 0}

\* Types of both parts; the planner is at most one map behind.
TypeOK ==
  /\ recording \in Recordings /\ scan \in 0 .. Len(recording)
  /\ Fit!TypeOK /\ Grid!TypeOK
  /\ plan.scan \in {scan, scan - 1} /\ plan.valid \subseteq Candidates

(* The ring of Calculate_ConvexHull serves the fit, see LShapeBox. *)
RingServes == Fit!RingServes

(* The rectangle of every cluster covers it, see LShapeBox. *)
BoxCovers == Fit!BoxCovers

(* No candidate on which the vehicle's outline comes over a point of a     *)
(* cluster is left valid (LatticePlanning.cpp:372-427): what lies between  *)
(* the points looked up is reached by the padding of the rectangle, at     *)
(* every angle of it, beside the vehicle, at the edge of the map, and also *)
(* when it is a long fence (Lshapefitting.cpp:307).                        *)
PathBlocked ==
  plan.scan > 0 /\ ~plan.zone =>
    \A h \in plan.valid, c \in DOMAIN recording[plan.scan] :
      \A p \in recording[plan.scan][c] :
        ~InFootprint(<<p[1] + Mount[1], p[2] + Mount[2]>>, h)

(* A point farther than padding and rounding from every rectangle of the   *)
(* scan is not lethal: nothing of an earlier scan is left, nothing is      *)
(* drawn in another row, and a rectangle that leaves the map does not come *)
(* back at the other side (Costmap.cpp:278-331, 402-425).                  *)
NothingElseSeen ==
  stage = "spin" /\ plan.scan < scan =>
    \A p \in Looked : (\A k \in DOMAIN boxes : FarFrom(p, boxes[k]))
      => Grid!GetCostmapCost(p, 1) < Grid!lethal_cost_threshold
=============================================================================
