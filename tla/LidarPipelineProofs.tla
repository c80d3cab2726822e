------------------------ MODULE LidarPipelineProofs ------------------------
(***************************************************************************)
(* LidarPipeline for any finite set of objects: types, and that a costmap  *)
(* the planner holds is finished and comes from a single scan.             *)
(***************************************************************************)
EXTENDS LidarPipeline, TLAPS

USE DEF env, clouds, vars

(* The types: Init establishes them, each stage keeps them. *)
THEOREM TypeCorrect == Spec => []TypeOK
<1>1. Init => TypeOK
  <2> SUFFICES ASSUME Init PROVE TypeOK
    OBVIOUS
  <2>1. voxel \in Scan
    BY DEF Init, Scan
  <2> QED
    BY <2>1 DEF Init, TypeOK
<1>2. TypeOK /\ [Next]_vars => TypeOK'
  <2> SUFFICES ASSUME TypeOK, [Next]_vars PROVE TypeOK'
    OBVIOUS
  <2>1. CASE NewScan
    BY <2>1 DEF NewScan, TypeOK
  <2>2. CASE Transform
    BY <2>2 DEF Transform, TypeOK
  <2>3. CASE SpinIdle
    BY <2>3 DEF SpinIdle, TypeOK
  <2>4. CASE Voxel
    BY <2>4 DEF Voxel, TypeOK
  <2>5. CASE Ransac
    BY <2>5 DEF Ransac, TypeOK, Scan
  <2>6. CASE Euclidean
    BY <2>6 DEF Euclidean, TypeOK
  <2>7. CASE Initialize
    BY <2>7 DEF Initialize, TypeOK, Grid
  <2>8. CASE Mark
    <3>1. PICK o \in todo : /\ todo' = todo \ {o}
                            /\ costmap' = {IF tf THEN [c EXCEPT !.marked = @ \union {o}]
                                                 ELSE [c EXCEPT !.early = TRUE] : c \in costmap}
      BY <2>8 DEF Mark
    <3>2. ASSUME NEW d \in costmap' PROVE d \in Grid /\ todo' \intersect d.marked = {}
      <4>1. PICK c \in costmap : d = IF tf THEN [c EXCEPT !.marked = @ \union {o}]
                                           ELSE [c EXCEPT !.early = TRUE]
        BY <3>1, <3>2
      <4>2. c \in Grid /\ todo \intersect c.marked = {} /\ o \in Objects
        BY <3>1 DEF TypeOK
      <4> QED
        BY <3>1, <4>1, <4>2 DEF Grid
    <3> QED
      BY <2>8, <3>1, <3>2 DEF Mark, TypeOK
  <2>9. CASE Return
    BY <2>9 DEF Return, TypeOK
  <2>10. CASE Publish
    BY <2>10 DEF Publish, TypeOK
  <2>11. CASE Receive
    BY <2>11 DEF Receive, TypeOK
  <2>12. CASE UNCHANGED vars
    BY <2>12 DEF TypeOK
  <2> QED
    BY <2>1, <2>2, <2>3, <2>4, <2>5, <2>6, <2>7, <2>8, <2>9, <2>10, <2>11, <2>12
       DEF Next, Node
<1> QED
  BY <1>1, <1>2, PTL DEF Spec

(* The invariant of the stages: what each may rely on when it begins. *)
THEOREM PipelineCorrect == Spec => []PipelineInv
<1>1. Init => PipelineInv
  BY DEF Init, PipelineInv, OneScan, Whole
<1>2. TypeOK /\ PipelineInv /\ [Next]_vars => PipelineInv'
  <2> SUFFICES ASSUME TypeOK, PipelineInv, [Next]_vars PROVE PipelineInv'
    OBVIOUS
  <2> USE DEF PipelineInv, OneScan, Whole
  <2>1. CASE NewScan
    BY <2>1 DEF NewScan
  <2>2. CASE Transform
    BY <2>2 DEF Transform
  <2>3. CASE SpinIdle
    BY <2>3 DEF SpinIdle
  <2>4. CASE Voxel
    BY <2>4 DEF Voxel
  <2>5. CASE Ransac
    BY <2>5 DEF Ransac
  <2>6. CASE Euclidean
    BY <2>6 DEF Euclidean
  <2>7. CASE Initialize
    BY <2>7 DEF Initialize
  <2>8. CASE Mark
    BY <2>8 DEF Mark, TypeOK, Grid
  <2>9. CASE Return
    BY <2>9 DEF Return
  <2>10. CASE Publish
    BY <2>10 DEF Publish
  <2>11. CASE Receive
    BY <2>11 DEF Receive
  <2>12. CASE UNCHANGED vars
    BY <2>12
  <2> QED
    BY <2>1, <2>2, <2>3, <2>4, <2>5, <2>6, <2>7, <2>8, <2>9, <2>10, <2>11, <2>12
       DEF Next, Node
<1> QED
  BY <1>1, <1>2, TypeCorrect, PTL DEF Spec

(* A finished costmap is made from the clusters of the last scan with ground. *)
THEOREM OneScanCorrect == Spec => []OneScan
<1>1. PipelineInv => OneScan
  BY DEF PipelineInv
<1> QED
  BY <1>1, PipelineCorrect, PTL

(* The planner holds no costmap in the making. *)
THEOREM WholeCorrect == Spec => []Whole
<1>1. PipelineInv => Whole
  BY DEF PipelineInv
<1> QED
  BY <1>1, PipelineCorrect, PTL
=============================================================================
