----------------------------- MODULE DrivingMode -----------------------------
(***************************************************************************)
(* driving_mode_ui.py and the planner: a button chooses between the        *)
(* standard mode and the one that overtakes.  The window tells the planner *)
(* once, over a topic that keeps nothing for who comes later; the planner  *)
(* takes the message in one thread while another one is planning, with     *)
(* weights of the one mode and, later in the cycle, a speed of it.         *)
(*                                                                         *)
(* Window and planner start, stop and start again in any order.  Which     *)
(* weights and which speed belong to a mode is PathSelection, and when a   *)
(* cycle plans at all is ControlLoop.  EXPERIMENT_MODE 3 is left out: it   *)
(* looks at the mode nowhere (VALatticePlanning.cpp:72, getTargetSpeedVA). *)
(* Names that CommandBridge and GrpcWorld have too say mode here.          *)
(***************************************************************************)
EXTENDS Naturals, Sequences

CONSTANTS
  ModeQueueSize,  \* 10, of the publisher and of the subscriber; one queue here
  NoMode

ASSUME ModeQueueAssumption == ModeQueueSize \in Nat \ {0}
ASSUME NoModeAssumption == NoMode \notin {0, 1}

Modes == {0, 1}   \* standard, max

VARIABLES
  window,        \* what the window shows as the current mode; NoMode while there is none
  connected,     \* the publisher of the window to the subscriber of the planner
  mode_queue,    \* of /driving_mode
  planner,       \* "down", "idle", or how far a cycle has come
  driving_mode,
  current_mode,  \* of the cycle
  cost, speed,   \* the modes of the costs and of target_vel; NoMode before the first cycle
  sent           \* history: the last mode published on this connection, or NoMode
mode_vars == <<window, connected, mode_queue, planner, driving_mode, current_mode, cost, speed, sent>>

ModeInit ==
  /\ window = NoMode /\ connected = FALSE /\ mode_queue = << >> /\ sent = NoMode
  /\ planner = "down"
  /\ driving_mode = 0 /\ current_mode = 0 /\ cost = NoMode /\ speed = NoMode

----------------------------------------------------------------------------
(* The window. *)

\* Mutant: what does not fit is not taken.
EnqueueIfRoom(q, mode) == IF Len(q) < ModeQueueSize THEN Append(q, mode) ELSE q

\* The oldest makes room.
Enqueue(q, mode) == Append(IF Len(q) < ModeQueueSize THEN q ELSE Tail(q), mode)

\* What is published while nobody is connected is gone.
SetMode(mode) ==
  /\ window' = mode
  /\ mode_queue' = IF connected THEN Enqueue(mode_queue, mode) ELSE mode_queue
  /\ sent' = IF connected THEN mode ELSE sent

\* init_ui chooses the standard mode, of a publisher that is new.  A window whose
\* init_ros fails ends here too, with mode_publisher None.
OpenWindow ==
  /\ window = NoMode
  /\ SetMode(0)
  /\ UNCHANGED <<connected, planner, driving_mode, current_mode, cost, speed>>

Press ==
  /\ window # NoMode
  /\ \E mode \in Modes : SetMode(mode)
  /\ UNCHANGED <<connected, planner, driving_mode, current_mode, cost, speed>>

Disconnect == connected' = FALSE /\ sent' = NoMode

\* What the planner has received stays in its queue, what the window has not sent is lost.
CloseWindow ==
  /\ window # NoMode /\ window' = NoMode
  /\ Disconnect
  /\ \E n \in 0 .. Len(mode_queue) : mode_queue' = SubSeq(mode_queue, 1, n)
  /\ UNCHANGED <<planner, driving_mode, current_mode, cost, speed>>

ConnectWindow ==
  /\ window # NoMode /\ planner # "down" /\ ~connected
  /\ connected' = TRUE
  /\ UNCHANGED <<window, mode_queue, planner, driving_mode, current_mode, cost, speed, sent>>

----------------------------------------------------------------------------
(* The planner. *)

StartPlanner ==
  /\ planner = "down" /\ planner' = "idle"
  /\ driving_mode' = 0 /\ current_mode' = 0 /\ cost' = NoMode /\ speed' = NoMode
  /\ UNCHANGED <<window, connected, mode_queue, sent>>

StopPlanner ==
  /\ planner # "down" /\ planner' = "down"
  /\ mode_queue' = << >> /\ Disconnect
  /\ UNCHANGED <<window, driving_mode, current_mode, cost, speed>>

DrivingModeCallback ==
  /\ planner # "down" /\ mode_queue # << >>
  /\ driving_mode' = Head(mode_queue) /\ mode_queue' = Tail(mode_queue)
  /\ UNCHANGED <<window, connected, planner, current_mode, cost, speed, sent>>

\* A cycle that waits for a costmap is none here.
StartCycle ==
  /\ planner = "idle" /\ planner' = "started"
  /\ current_mode' = driving_mode
  /\ UNCHANGED <<window, connected, mode_queue, driving_mode, cost, speed, sent>>

\* evaluateAllCandidates(lattice_ctrl, current_mode)
EvaluateAllCandidates ==
  /\ planner = "started" /\ planner' = "evaluated"
  /\ cost' = current_mode
  /\ UNCHANGED <<window, connected, mode_queue, driving_mode, current_mode, speed, sent>>

\* Mutant: the speed goes by the mode there is now.
GetTargetSpeedNow ==
  /\ planner = "evaluated" /\ planner' = "idle"
  /\ speed' = driving_mode
  /\ UNCHANGED <<window, connected, mode_queue, driving_mode, current_mode, cost, sent>>

\* getTargetSpeed(..., current_mode, ego); in a bend or at the end of the course the speed
\* is the same for both modes, and counts as one of the mode that was passed.
GetTargetSpeed ==
  /\ planner = "evaluated" /\ planner' = "idle"
  /\ speed' = current_mode
  /\ UNCHANGED <<window, connected, mode_queue, driving_mode, current_mode, cost, sent>>

Cycle == StartCycle \/ EvaluateAllCandidates \/ GetTargetSpeed

ModeNext ==
  \/ OpenWindow \/ Press \/ CloseWindow \/ ConnectWindow
  \/ StartPlanner \/ StopPlanner \/ DrivingModeCallback \/ Cycle

ModeSpec == ModeInit /\ [][ModeNext]_mode_vars

\* The spinner's threads take messages and timer events; nobody has to press a button,
\* or to start anything.
ModeFairSpec == ModeSpec /\ WF_mode_vars(DrivingModeCallback) /\ WF_mode_vars(Cycle)

----------------------------------------------------------------------------
ModeTypeOK ==
  /\ window \in Modes \union {NoMode} /\ connected \in BOOLEAN
  /\ mode_queue \in Seq(Modes) /\ Len(mode_queue) <= ModeQueueSize
  /\ planner \in {"down", "idle", "started", "evaluated"}
  /\ driving_mode \in Modes /\ current_mode \in Modes
  /\ {cost, speed, sent} \subseteq Modes \union {NoMode}
  /\ connected => window # NoMode /\ planner # "down"

\* Between two cycles costs and speed are of the same mode, whatever arrives while a
\* cycle plans (LatticePlanning.cpp:17-18, "to prevent a change"): the vehicle never
\* has the speed of one mode on a path chosen by the other.
OneMode == planner = "idle" => cost = speed

\* A mode that is pressed on a connection that lasts, and is not revoked, is what every
\* cycle plans with in the end, in whatever order buttons were pressed before and however
\* many messages were dropped.
SelectionReached ==
  \A mode \in Modes : <>[](sent = mode) => <>[](cost = mode /\ speed = mode)
=============================================================================
