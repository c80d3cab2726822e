---------------------------- MODULE ControlLoop ----------------------------
(***************************************************************************)
(* The lattice_planning_node of PlanningControl/main.cpp: the 10 Hz timer  *)
(* callback mainControlLoop and the topic callbacks gpsCallback and        *)
(* costmapCallback, run by an AsyncSpinner of four threads (main.cpp:239). *)
(* The timer never overlaps itself and neither does one subscription, but  *)
(* the three run in parallel and share plain globals: the flag             *)
(* gps_jamming_perception is read four times in one cycle (main.cpp:113,   *)
(* JammingPlanning.cpp:58 and 61, Control.cpp:21), and ego.x and ego.y are *)
(* stored one after the other.  The timer thread is therefore cut at each  *)
(* read of the flag, and gpsCallback at each store of a coordinate.        *)
(*                                                                         *)
(* Kept: which planner runs, which steering and which target speed leave   *)
(* the node, the path-end latch, the jamming counter.  Abstracted: the     *)
(* geometry of paths (a plan either finds nothing, a path without points   *)
(* or a path), speeds (four tiers), steering angles (where they come from, *)
(* and whether that was computed in this cycle).                           *)
(***************************************************************************)
EXTENDS Integers, Sequences

CONSTANTS
  Route,      \* places the vehicle passes, in metres; the last is waypoints.back()
  MaxOnsets   \* bound: how often jamming may begin

ASSUME RouteAssumption == Route \in Seq(Int \X Int) /\ Len(Route) >= 1
ASSUME MaxOnsetsAssumption == MaxOnsets \in Nat

VARIABLES
  \* written by gpsCallback
  gps_jamming_perception,
  ego,                \* the global pose <<ego.x, ego.y>>
  fix,                \* the ENU pose the running gpsCallback has computed
  pend,               \* the coordinates of fix not stored yet
  \* written by costmapCallback
  costmap,            \* costmap_info.msg # nullptr
  \* written by the timer thread
  pc,                 \* its next step
  branch,             \* the side of main.cpp:113 taken last
  best_path,          \* lattice_ctrl.best_path: valid, and the age of its points
  path_end_latched,   \* static of applyPathEndStop
  gps_steering,       \* age of jamming_params.gps_steering
  prev_jamming,       \* static of printGPSJammingStatistics
  seen,               \* what line 58 of it has loaded, if it loaded anything
  jamming_count,      \* gps_state.jamming_count
  steering,           \* what ctrl.steering was taken from
  target_vel,         \* ctrl.target_vel
  cmd,                \* the last CtrlCmd published on /ctrl_cmd_0
  \* the vehicle
  at,                 \* how far along Route it is
  \* history, read by no action
  onsets, recoveries, \* changes of the flag to TRUE and to FALSE
  staleLane,          \* commands steered by a gps_steering of an earlier cycle
  stalePath           \* commands steered by a best_path of an earlier cycle

gpsVars   == <<ego, fix, pend>>
statVars  == <<prev_jamming, seen, jamming_count>>
planVars  == <<best_path, path_end_latched>>
flagVars  == <<gps_jamming_perception, onsets, recoveries>>
staleVars == <<staleLane, stalePath>>
loopVars  == <<pc, branch, planVars, gps_steering, statVars, steering,
               target_vel, cmd, staleVars>>
vars == <<flagVars, gpsVars, costmap, loopVars, at>>

Coords == {1, 2}
Ages   == {"none", "fresh", "stale"}    \* never computed, this cycle, earlier
Vels   == {"stop", "slow", "drive", "jam"}
               \* 0, 15 km/h, a speed of getTargetSpeed, 40 km/h
Steers == {"none", "lane", "path", "straight"}

STOP_DIST == 6
SLOW_DIST == 25

Goal == Route[Len(Route)]
Within(p, d) ==
  (p[1] - Goal[1]) * (p[1] - Goal[1]) + (p[2] - Goal[2]) * (p[2] - Goal[2]) < d * d

Init ==
  /\ gps_jamming_perception = FALSE
  /\ ego = <<0, 0>> /\ fix = <<0, 0>> /\ pend = {}
  /\ costmap = FALSE
  /\ pc = "idle" /\ branch = "clear"
  /\ best_path = [valid |-> TRUE, points |-> "none"]
  /\ path_end_latched = FALSE
  /\ gps_steering = "none"
  /\ prev_jamming = FALSE /\ seen = {} /\ jamming_count = 0
  /\ steering = "none" /\ target_vel = "stop"
  /\ cmd = [steering |-> "none", vel |-> "stop"]
  /\ at = 1
  /\ onsets = 0 /\ recoveries = 0 /\ staleLane = 0 /\ stalePath = 0

----------------------------------------------------------------------------
(* The GPS thread. *)

\* Mutant: the early return of main.cpp:62 is missing.
GpsJammedGoesOn ==
  /\ pend = {}
  /\ gps_jamming_perception \/ onsets < MaxOnsets
  /\ gps_jamming_perception' = TRUE
  /\ onsets' = IF gps_jamming_perception THEN onsets ELSE onsets + 1
  /\ fix' = <<-1, -1>> /\ pend' = Coords
  /\ UNCHANGED <<recoveries, ego, costmap, loopVars, at>>

\* A message with status 0 raises the flag and returns.
GpsJammed ==
  /\ pend = {}
  /\ gps_jamming_perception \/ onsets < MaxOnsets
  /\ gps_jamming_perception' = TRUE
  /\ onsets' = IF gps_jamming_perception THEN onsets ELSE onsets + 1
  /\ UNCHANGED <<recoveries, gpsVars, costmap, loopVars, at>>

\* Any other status lowers it at once; the pose is stored afterwards.
GpsClear ==
  /\ pend = {}
  /\ gps_jamming_perception' = FALSE
  /\ recoveries' = IF gps_jamming_perception THEN recoveries + 1 ELSE recoveries
  /\ fix' = Route[at]
  /\ pend' = Coords
  /\ UNCHANGED <<onsets, ego, costmap, loopVars, at>>

\* ego.x and ego.y are two plain stores, in either order for another thread.
GpsStore ==
  /\ \E c \in pend :
       /\ ego' = [ego EXCEPT ![c] = fix[c]]
       /\ pend' = pend \ {c}
  /\ UNCHANGED <<flagVars, fix, costmap, loopVars, at>>

(* The costmap thread: every message under costmap_mutex, so never during a plan. *)
CostmapCallback ==
  /\ costmap' = TRUE
  /\ UNCHANGED <<flagVars, gpsVars, loopVars, at>>

(* The vehicle moves on; fixes may be missed on the way. *)
Drive ==
  /\ at < Len(Route)
  /\ at' = at + 1
  /\ UNCHANGED <<flagVars, gpsVars, costmap, loopVars>>

----------------------------------------------------------------------------
(* The timer thread. *)

env == <<flagVars, gpsVars, costmap, at>>

\* main.cpp:113.  "onset" is a jammed cycle that follows one that was not.
LoopStart ==
  /\ pc = "idle"
  /\ branch' = IF ~gps_jamming_perception THEN "clear"
               ELSE IF branch = "clear" THEN "onset" ELSE "jam"
  /\ pc' = IF gps_jamming_perception THEN "lane" ELSE "plan"
  /\ UNCHANGED <<env, planVars, gps_steering, statVars, steering, target_vel,
                 cmd, staleVars>>

\* Mutant: the planner sets its speed before it looks for a costmap.
PlanWaitingSetsSpeed ==
  /\ pc = "plan"
  /\ ~costmap
  /\ target_vel' = "drive"
  /\ pc' = "control"
  /\ UNCHANGED <<env, branch, planVars, gps_steering, statVars, steering, cmd, staleVars>>

\* Mutant: the planner waits for the costmap instead of returning.
PlanWaitingSpins ==
  /\ pc = "plan"
  /\ ~costmap
  /\ UNCHANGED vars

\* A planner without a costmap returns before it has written anything.
PlanWaiting ==
  /\ pc = "plan"
  /\ ~costmap
  /\ pc' = "control"
  /\ UNCHANGED <<env, branch, planVars, gps_steering, statVars, steering,
                 target_vel, cmd, staleVars>>

\* applyPathEndStop, then the speeds of getTargetSpeed it lets through.
PlannedVel ==
  IF path_end_latched \/ Within(ego, STOP_DIST) THEN "stop"
  ELSE IF Within(ego, SLOW_DIST) THEN "slow"
  ELSE "drive"

\* Mutant: the cycle that latches only slows down.
PlanLatchesLate ==
  /\ pc = "plan"
  /\ costmap
  /\ best_path' \in {[valid |-> TRUE, points |-> "none"], [valid |-> TRUE, points |-> "fresh"]}
  /\ target_vel' = IF path_end_latched THEN "stop"
                   ELSE IF Within(ego, SLOW_DIST) THEN "slow" ELSE "drive"
  /\ path_end_latched' = (PlannedVel = "stop")
  /\ pc' = "control"
  /\ UNCHANGED <<env, branch, gps_steering, statVars, steering, cmd, staleVars>>

\* Every candidate is blocked, or the cheapest has points, or it has none
\* because its goal is closer than 0.1 m.
Plan ==
  /\ pc = "plan"
  /\ costmap
  /\ best_path' \in {[valid |-> FALSE, points |-> "none"],
                     [valid |-> TRUE,  points |-> "none"],
                     [valid |-> TRUE,  points |-> "fresh"]}
  /\ target_vel' = PlannedVel
  /\ path_end_latched' = (PlannedVel = "stop")
  /\ pc' = "control"
  /\ UNCHANGED <<env, branch, gps_steering, statVars, steering, cmd, staleVars>>

\* Mutant: computeLastSteering is not called.
PlanLaneKeepsSteering ==
  /\ pc = "lane"
  /\ pc' = "count"
  /\ UNCHANGED <<env, branch, planVars, gps_steering, statVars, steering, target_vel, cmd,
                 staleVars>>

\* JammingPlanningProcess up to its statistics: steering from the camera lane.
PlanLane ==
  /\ pc = "lane"
  /\ gps_steering' = "fresh"
  /\ pc' = "count"
  /\ UNCHANGED <<env, branch, planVars, statVars, steering, target_vel, cmd, staleVars>>

\* Mutant: every jammed cycle is counted.
CountEveryCycle ==
  /\ pc = "count"
  /\ seen' = {gps_jamming_perception}
  /\ jamming_count' = IF gps_jamming_perception THEN jamming_count + 1 ELSE jamming_count
  /\ pc' = "mark"
  /\ UNCHANGED <<env, branch, planVars, gps_steering, prev_jamming, steering,
                 target_vel, cmd, staleVars>>

\* Mutant: the counter follows the flag down as well.
CountDown ==
  /\ pc = "count"
  /\ seen' = {gps_jamming_perception}
  /\ jamming_count' = IF gps_jamming_perception THEN jamming_count + 1 ELSE jamming_count - 1
  /\ pc' = "mark"
  /\ UNCHANGED <<env, branch, planVars, gps_steering, prev_jamming, steering,
                 target_vel, cmd, staleVars>>

\* JammingPlanning.cpp:58, which loads the flag only when prev_jamming is false.
CountJamming ==
  /\ pc = "count"
  /\ seen' = IF prev_jamming THEN {} ELSE {gps_jamming_perception}
  /\ jamming_count' = IF ~prev_jamming /\ gps_jamming_perception
                      THEN jamming_count + 1 ELSE jamming_count
  /\ pc' = "mark"
  /\ UNCHANGED <<env, branch, planVars, gps_steering, prev_jamming, steering,
                 target_vel, cmd, staleVars>>

\* Line 61 loads it again; the flag is not atomic, so the build may reuse line 58's load.
MarkJamming ==
  /\ pc = "mark"
  /\ prev_jamming' \in {gps_jamming_perception} \union seen
  /\ seen' = {}
  /\ pc' = "control"
  /\ UNCHANGED <<env, branch, planVars, gps_steering, jamming_count, steering,
                 target_vel, cmd, staleVars>>

\* Mutant: lane steering leaves the speed of the planner.
DecideKeepsSpeed ==
  /\ pc = "control"
  /\ IF gps_jamming_perception
     THEN /\ steering' = "lane"
          /\ UNCHANGED target_vel
          /\ staleLane' = IF gps_steering = "fresh" THEN staleLane ELSE staleLane + 1
          /\ UNCHANGED stalePath
     ELSE /\ steering' = IF best_path.points = "none" THEN "straight" ELSE "path"
          /\ stalePath' = IF best_path.points = "stale" THEN stalePath + 1 ELSE stalePath
          /\ UNCHANGED <<target_vel, staleLane>>
  /\ pc' = "publish"
  /\ UNCHANGED <<env, branch, planVars, gps_steering, statVars, cmd>>

\* decideSteering reads the flag anew, whichever planner has run.
DecideSteering ==
  /\ pc = "control"
  /\ \/ /\ gps_jamming_perception
        /\ steering' = "lane"
        /\ target_vel' = "jam"
        /\ staleLane' = IF gps_steering = "fresh" THEN staleLane ELSE staleLane + 1
        /\ UNCHANGED stalePath
     \/ /\ ~gps_jamming_perception
        /\ steering' = IF best_path.points = "none" THEN "straight" ELSE "path"
        /\ stalePath' = IF best_path.points = "stale" THEN stalePath + 1 ELSE stalePath
        /\ UNCHANGED <<target_vel, staleLane>>
  /\ pc' = "publish"
  /\ UNCHANGED <<env, branch, planVars, gps_steering, statVars, cmd>>

Aged(a) == IF a = "none" THEN "none" ELSE "stale"

\* computePID works from ctrl.target_vel and pubCmd publishes; the cycle ends.
PublishCmd ==
  /\ pc = "publish"
  /\ cmd' = [steering |-> steering, vel |-> target_vel]
  /\ pc' = "idle"
  /\ gps_steering' = Aged(gps_steering)
  /\ best_path' = [best_path EXCEPT !.points = Aged(@)]
  /\ UNCHANGED <<env, branch, path_end_latched, statVars, steering, target_vel,
                 staleVars>>

----------------------------------------------------------------------------
Gps == GpsJammed \/ GpsClear \/ GpsStore
Loop == \/ LoopStart \/ PlanWaiting \/ Plan \/ PlanLane \/ CountJamming
        \/ MarkJamming \/ DecideSteering \/ PublishCmd
Next == Gps \/ CostmapCallback \/ Drive \/ Loop

Spec == Init /\ [][Next]_vars

\* The timer fires and its callback returns; a callback that has begun to store
\* a pose finishes.  Nothing is assumed of GPS, costmap or vehicle.
FairSpec == Spec /\ WF_vars(Loop) /\ WF_vars(GpsStore)

----------------------------------------------------------------------------
(* What the node must keep true. *)

\* Types; speeds and steering come from the few sources the code has.
TypeOK ==
  /\ gps_jamming_perception \in BOOLEAN /\ onsets \in Nat /\ recoveries \in Nat
  /\ ego \in Int \X Int /\ fix \in Int \X Int /\ pend \in SUBSET Coords
  /\ costmap \in BOOLEAN
  /\ pc \in {"idle", "plan", "lane", "count", "mark", "control", "publish"}
  /\ branch \in {"clear", "onset", "jam"}
  /\ best_path \in [valid : BOOLEAN, points : Ages]
  /\ path_end_latched \in BOOLEAN
  /\ gps_steering \in Ages
  /\ prev_jamming \in BOOLEAN /\ seen \in SUBSET BOOLEAN /\ jamming_count \in Nat
  /\ steering \in Steers /\ target_vel \in Vels
  /\ cmd \in [steering : Steers, vel : Vels]
  /\ at \in 1 .. Len(Route)
  /\ staleLane \in Nat /\ stalePath \in Nat

(* The counter of printGPSJammingStatistics never exceeds the number of    *)
(* times jamming really began, however its two loads of the flag fall      *)
(* between the writes of gpsCallback and whether or not they are one load  *)
(* (JammingPlanning.cpp:58-61).                                            *)
CountBounded == jamming_count <= onsets

(* The planner is chosen on one read of the flag and the steering on       *)
(* another (main.cpp:113, Control.cpp:21), so a command may be steered by  *)
(* a result of an earlier cycle: at most one such command goes out for     *)
(* each time jamming begins, and at most one for each time it ends.        *)
StaleBounded == staleLane <= onsets /\ stalePath <= recoveries

(* After the end of the path has been latched a command asks the vehicle   *)
(* to move only if its cycle has read the flag raised: in mainControlLoop, *)
(* or in decideSteering (LatticePlanning.cpp:767, Control.cpp:21).         *)
LatchHolds ==
  pc = "publish" /\ path_end_latched /\ target_vel # "stop" =>
    branch # "clear" \/ steering = "lane"

(* The node asks for motion only if it has received a costmap, or GPS has  *)
(* been jammed at some time (planners return at checkCostmapAvailable      *)
(* before they write ctrl.target_vel).                                     *)
MotionNeedsInput == target_vel # "stop" \/ cmd.vel # "stop" => costmap \/ onsets > 0

(* Each coordinate the planner reads is one of a place the vehicle has     *)
(* been at, or the initial zero: gpsCallback stores nothing of a message   *)
(* that reports jamming, and never a coordinate in the other's place.      *)
PoseProvenance ==
  \A c \in Coords : ego[c] = 0 \/ \E i \in 1 .. at : ego[c] = Route[i][c]

(* The inductive invariant behind the five properties above: what the      *)
(* timer thread may rely on between two of its reads of shared state.      *)
CountInv ==
  /\ CountBounded
  /\ pc # "mark" /\ ~prev_jamming /\ gps_jamming_perception => jamming_count < onsets
  /\ pc = "mark" /\ FALSE \in seen /\ gps_jamming_perception => jamming_count < onsets
  /\ pc = "mark" /\ seen = {} => prev_jamming

StaleInv ==
  /\ StaleBounded
  /\ pc \in {"count", "mark"} => gps_steering = "fresh"
  /\ pc \in {"plan", "control"} /\ gps_steering # "fresh" /\ gps_jamming_perception
       => staleLane < onsets
  /\ pc \in {"lane", "count", "mark", "control"} /\ best_path.points = "stale"
       /\ ~gps_jamming_perception => stalePath < recoveries
  /\ ~costmap => best_path.points = "none"

LatchInv ==
  /\ LatchHolds
  /\ path_end_latched => costmap
  /\ pc = "control" /\ branch = "clear" /\ path_end_latched => target_vel = "stop"
  /\ pc \in {"lane", "count", "mark"} => branch # "clear"

MotionInv ==
  /\ MotionNeedsInput
  /\ gps_jamming_perception => onsets > 0

PoseInv ==
  /\ PoseProvenance
  /\ \A c \in pend : \E i \in 1 .. at : fix[c] = Route[i][c]

DecidedInv ==
  pc = "publish" => steering # "none" /\ (steering = "lane" => target_vel = "jam")

IInv == CountInv /\ StaleInv /\ LatchInv /\ MotionInv /\ PoseInv /\ DecidedInv

(* The node implements the arbiter of JammingArbiter: each command follows *)
(* the flag as it was at one moment of its cycle.                          *)
Arbiter == INSTANCE JammingArbiter WITH
  jammed <- gps_jamming_perception,
  choice <- IF pc # "publish" THEN "none" ELSE IF steering = "lane" THEN "lane" ELSE "path",
  output <- IF cmd.steering \in {"none", "lane"} THEN cmd.steering ELSE "path",
  speed  <- IF cmd.vel = "jam" THEN "jam" ELSE "planned"
ArbiterSafety == Arbiter!Spec
ArbiterSpec == Arbiter!FairSpec

----------------------------------------------------------------------------
(* What a document or a comment of the code says, and the code does not do. *)

(* LatticePlanning.cpp:602 logs an emergency stop when all paths are       *)
(* blocked: the command of that cycle should ask for speed zero.           *)
EmergencyStop ==
  pc = "publish" /\ branch = "clear" /\ steering # "lane" /\ ~best_path.valid
    => target_vel = "stop"

(* docs/tuning-notes.md:20 promises a stop that is latched within 6 m of   *)
(* the last waypoint: after the latch no command asks for motion.          *)
LatchStopsVehicle == pc = "publish" /\ path_end_latched => target_vel = "stop"

(* JammingPlanning.cpp:57 counts at the moment jamming begins: the first   *)
(* cycle that is jammed after one that was not adds one.  But prev_jamming *)
(* is only written in jammed cycles, and so is never lowered between two   *)
(* times of jamming.                                                       *)
OnsetCounted ==
  [][pc = "count" /\ pc' # "count" /\ branch = "onset" /\ gps_jamming_perception
       => jamming_count' = jamming_count + 1]_vars
=============================================================================
