--------------------------- MODULE LidarPipeline ---------------------------
(***************************************************************************)
(* The LidarNode, from a scan to the costmap the planner holds.  One       *)
(* thread runs the callback of /lidar3D and then publishes state.costmap,  *)
(* ten times a second and whether or not there was a scan.  The stages of  *)
(* the callback hand their results on in globals that outlive it: a stage  *)
(* that returns early leaves the next one what an earlier scan has left.   *)
(*                                                                         *)
(* Kept: which scan each stage works from, the early returns, the lookup   *)
(* of the transform cluster by cluster (its listener has a thread of its   *)
(* own), queues of length one.  Abstracted: points; a scan is the set of   *)
(* the objects it shows as clusters, and whether it has points and ground. *)
(* How a cluster becomes cells is CostmapGrid.                             *)
(***************************************************************************)
EXTENDS FiniteSets

CONSTANT Objects    \* things a scan may show

ASSUME ObjectsAssumption == IsFiniteSet(Objects)

VARIABLES
  lidar3D,      \* the queue of the subscription, of size 1
  tf,           \* the transform to base_link has been received
  pc,           \* next stage of the node
  voxel,        \* the scan whose points pcl_voxel_cloud holds
  ransac,       \* pcl_ransac_cloud: the objects in it
  vec_clusters, \* the objects in it
  todo,         \* clusters the loop of Costmap has not come to
  costmap,      \* state.costmap, and nothing before the first scan
  inflight,     \* the queue of /costmap, of size 1
  info,         \* costmap_info of the planner
  grounded      \* history: what the last scan with a ground plane has shown
env == <<lidar3D, tf, inflight, info>>
clouds == <<voxel, ransac, vec_clusters>>
vars == <<env, clouds, pc, todo, costmap, grounded>>

Scan == [objects : SUBSET Objects, points : BOOLEAN, ground : BOOLEAN]

\* marked: the objects whose cells are lethal.  History: what should be marked, and
\* whether the transform was missing for some cluster of it.
Grid == [marked : SUBSET Objects, clusters : SUBSET Objects, early : BOOLEAN]

Init ==
  /\ lidar3D = {} /\ tf = FALSE
  /\ pc = "spin"
  /\ voxel = [objects |-> {}, points |-> FALSE, ground |-> FALSE]
  /\ ransac = {} /\ vec_clusters = {} /\ todo = {}
  /\ costmap = {}                  \* its width and height are 0
  /\ inflight = {} /\ info = {}
  /\ grounded = {}

----------------------------------------------------------------------------
(* The lidar and the transform listener. *)

\* What shows an object, or ground, has points; a new scan drops the one that waits.
NewScan ==
  /\ \E s \in Scan : (s.objects # {} \/ s.ground => s.points) /\ lidar3D' = {s}
  /\ UNCHANGED <<tf, inflight, info, clouds, pc, todo, costmap, grounded>>

\* Later lookups of the latest transform find it.
Transform ==
  /\ ~tf
  /\ tf' = TRUE
  /\ UNCHANGED <<lidar3D, inflight, info, clouds, pc, todo, costmap, grounded>>

----------------------------------------------------------------------------
(* The node. *)

\* spinOnce without a message.
SpinIdle ==
  /\ pc = "spin" /\ lidar3D = {}
  /\ pc' = "publish"
  /\ UNCHANGED <<env, clouds, todo, costmap, grounded>>

\* FilterRange, CropBox and Voxel rewrite their clouds for every scan.
Voxel ==
  /\ pc = "spin"
  /\ \E s \in lidar3D : voxel' = s
  /\ lidar3D' = {}
  /\ pc' = "ransac"
  /\ UNCHANGED <<tf, inflight, info, ransac, vec_clusters, todo, costmap, grounded>>

\* Mutant: the output is not written when nothing but ground is left.
RansacSkipsEmpty ==
  /\ pc = "ransac"
  /\ IF voxel.points /\ voxel.ground
     THEN /\ ransac' = IF voxel.objects = {} THEN ransac ELSE voxel.objects
          /\ grounded' = voxel.objects
     ELSE UNCHANGED <<ransac, grounded>>
  /\ pc' = "cluster"
  /\ UNCHANGED <<env, voxel, vec_clusters, todo, costmap>>

\* Only what is not ground goes on; with no point, or no ground, nothing is written.
Ransac ==
  /\ pc = "ransac"
  /\ IF voxel.points /\ voxel.ground
     THEN ransac' = voxel.objects /\ grounded' = voxel.objects
     ELSE UNCHANGED <<ransac, grounded>>
  /\ pc' = "cluster"
  /\ UNCHANGED <<env, voxel, vec_clusters, todo, costmap>>

\* Mutant: the clusters are appended to those of the scan before.
EuclideanAppends ==
  /\ pc = "cluster"
  /\ vec_clusters' = vec_clusters \union ransac
  /\ pc' = "initialize"
  /\ UNCHANGED <<env, voxel, ransac, todo, costmap, grounded>>

\* Euclidean replaces vec_clusters, and LShapeFitting gives each cluster its corners.
Euclidean ==
  /\ pc = "cluster"
  /\ vec_clusters' = ransac
  /\ pc' = "initialize"
  /\ UNCHANGED <<env, voxel, ransac, todo, costmap, grounded>>

\* Mutant: the data of the costmap is not filled anew.
InitializeKeeps ==
  /\ pc = "initialize"
  /\ costmap' = {[marked |-> UNION {c.marked : c \in costmap},
                  clusters |-> vec_clusters, early |-> FALSE]}
  /\ todo' = vec_clusters
  /\ pc' = "mark"
  /\ UNCHANGED <<env, clouds, grounded>>

\* initializeCostmap and clearOriginArea.
Initialize ==
  /\ pc = "initialize"
  /\ costmap' = {[marked |-> {}, clusters |-> vec_clusters, early |-> FALSE]}
  /\ todo' = vec_clusters
  /\ pc' = "mark"
  /\ UNCHANGED <<env, clouds, grounded>>

\* Mutant: the callback returns once it has marked a cluster; the rest is left out.
MarkOneCluster ==
  /\ pc = "mark"
  /\ \E o \in todo :
       /\ todo' = IF tf THEN {} ELSE todo \ {o}
       /\ costmap' = {IF tf THEN [c EXCEPT !.marked = @ \union {o}]
                            ELSE [c EXCEPT !.early = TRUE] : c \in costmap}
  /\ UNCHANGED <<env, clouds, pc, grounded>>

\* One cluster: transformLidarToBaselink and, if that succeeds, fillLShapePolygon.
Mark ==
  /\ pc = "mark"
  /\ \E o \in todo :
       /\ todo' = todo \ {o}
       /\ costmap' = {IF tf THEN [c EXCEPT !.marked = @ \union {o}]
                            ELSE [c EXCEPT !.early = TRUE] : c \in costmap}
  /\ UNCHANGED <<env, clouds, pc, grounded>>

\* The callback is over when no cluster is left.
Return ==
  /\ pc = "mark" /\ todo = {}
  /\ pc' = "publish"
  /\ UNCHANGED <<env, clouds, todo, costmap, grounded>>

\* The main loop publishes what there is; a message that waits is dropped for it.
Publish ==
  /\ pc = "publish"
  /\ inflight' = IF costmap = {} THEN inflight ELSE costmap
  /\ pc' = "spin"
  /\ UNCHANGED <<lidar3D, tf, info, clouds, todo, costmap, grounded>>

\* costmapCallback of the planner.
Receive ==
  /\ inflight # {}
  /\ info' = inflight
  /\ inflight' = {}
  /\ UNCHANGED <<lidar3D, tf, clouds, pc, todo, costmap, grounded>>

Node == \/ SpinIdle \/ Voxel \/ Ransac \/ Euclidean \/ Initialize \/ Mark \/ Return
        \/ Publish
Next == NewScan \/ Transform \/ Node \/ Receive
Spec == Init /\ [][Next]_vars

\* The sensor keeps scanning, the transform comes, the loop turns, messages arrive.
FairSpec ==
  /\ Spec
  /\ WF_vars(NewScan) /\ WF_vars(Transform)
  /\ WF_vars(Node) /\ WF_vars(Receive)

----------------------------------------------------------------------------
(* What the pipeline must keep true. *)

\* Types; a cluster the loop has yet to come to is marked in no costmap being drawn.
TypeOK ==
  /\ lidar3D \in SUBSET Scan /\ tf \in BOOLEAN
  /\ pc \in {"spin", "ransac", "cluster", "initialize", "mark", "publish"}
  /\ voxel \in Scan /\ ransac \in SUBSET Objects
  /\ vec_clusters \in SUBSET Objects /\ grounded \in SUBSET Objects
  /\ todo \in SUBSET Objects
  /\ costmap \in SUBSET Grid /\ inflight \in SUBSET Grid /\ info \in SUBSET Grid
  /\ \A c \in costmap : todo \intersect c.marked = {}

(* Whatever the stages skip, the clusters a finished costmap is made from  *)
(* are those of one scan, the last whose ground was found, never a mixture *)
(* of two (Ransac.cpp:7 and 26, Euclidean.cpp:53).                         *)
OneScan ==
  pc \in {"spin", "publish"} => \A c \in costmap : c.clusters = grounded

(* The planner never holds, nor is it sent, a costmap in the making: an    *)
(* object of its scan is missing only if the transform was, and an object  *)
(* of no other scan is marked (Costmap.cpp:434-450, Lidar_main.cpp:71).    *)
Whole ==
  \A c \in inflight \union info :
    c.marked \subseteq c.clusters /\ (c.early \/ c.marked = c.clusters)

(* Together they are inductive with what the stages in between keep: a     *)
(* costmap that is being filled has marked what it has come to.            *)
PipelineInv ==
  /\ OneScan
  /\ Whole
  /\ ransac = grounded
  /\ pc \in {"initialize", "mark"} => vec_clusters = grounded
  /\ \A c \in costmap :
       /\ c.marked \subseteq c.clusters
       /\ pc = "mark" => c.clusters = vec_clusters
       /\ c.early \/ c.marked = c.clusters \ todo
  /\ todo \subseteq IF pc = "mark" THEN vec_clusters ELSE {}

(* When every scan has ground and shows the same objects, the planner      *)
(* comes to hold exactly those: what has gone away is forgotten, what has  *)
(* appeared is marked, whatever was skipped before.                        *)
Follows ==
  \A S \in SUBSET Objects :
    <>[](\A s \in lidar3D : s.ground /\ s.objects = S)
      => <>[](\E c \in info : c.marked = S)
=============================================================================
