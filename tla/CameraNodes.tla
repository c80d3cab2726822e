---------------------------- MODULE CameraNodes ----------------------------
(***************************************************************************)
(* The nodes of camera.launch: Camera.py (CameraLane) and, one behind the  *)
(* other, bev_test.py and camera_costmap (CameraGrid).  They hang on the   *)
(* same camera and share nothing else.  What one of the two sides does     *)
(* never depends on the other, so it is enough to let the images change on *)
(* one side while the other one sees nothing new.                          *)
(***************************************************************************)
EXTENDS CameraGrid, Sequences

CONSTANTS Width, LANE_WIDTH, HistLen, Lefts, Rights, None   \* of CameraLane

ASSUME LaneAssumption ==
  /\ Width \in Nat \ {0} /\ LANE_WIDTH \in Nat /\ HistLen \in Nat \ {0}
  /\ Lefts \subseteq Int /\ Rights \subseteq Int /\ None \notin Int

VARIABLES
  side,                                              \* where the images change
  view, left_fit_history, right_fit_history, lane    \* of CameraLane
lane_vars == <<view, left_fit_history, right_fit_history, lane>>
nodes_vars == <<side, lane_vars, grid_vars>>

Lane == INSTANCE CameraLane

NodesInit ==
  /\ side \in {"lane", "road"}
  /\ Lane!Init /\ (side = "road" => ~view.mask)
  /\ InitGrid

Camera ==
  \/ side = "lane" /\ Lane!Look /\ UNCHANGED <<side, grid_vars>>
  \/ side = "road" /\ (\E image \in Images : CameraImage(image)) /\ UNCHANGED <<side, lane_vars>>

LaneNode == Lane!ImageCallback /\ UNCHANGED <<side, grid_vars>>
DrivableNode == (Inference \/ InferenceFails) /\ UNCHANGED <<side, lane_vars>>
CostmapNode == (ImageCallback \/ BadImage) /\ UNCHANGED <<side, lane_vars>>

NodesNext == Camera \/ LaneNode \/ DrivableNode \/ CostmapNode

NodesSpec == NodesInit /\ [][NodesNext]_nodes_vars

\* The camera keeps sending images and Camera.py keeps taking them; nothing is promised
\* of the other nodes.
NodesFairSpec == NodesSpec /\ WF_nodes_vars(LaneNode)

----------------------------------------------------------------------------
\* Lines that stay where they are are followed in the end, see CameraLane.
Settles == Lane!Settles

\* One image hardly moves the centre, see CameraLane.
Smooth == Lane!Smooth

----------------------------------------------------------------------------
\* What a comment says and the code does not do: a line that is gone is forgotten, see
\* CameraLane.
GoneForgotten == Lane!GoneForgotten
=============================================================================
