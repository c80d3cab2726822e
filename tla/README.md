# Verification of the VIP2 driving stack

TLA+ modules, TLC configurations and TLAPS proofs kept beside the code of the
2026 summer VIP2 car: a ROS (Noetic) system that drives a simulated vehicle
along a recorded course, avoids obstacles with a lattice planner, and steers by
the camera lane while GPS is reported jammed. Paths below are relative to
`src/main/src/` of the repository unless they start with another directory.

## 1. The system

| part | state it keeps | operations | talks to |
|---|---|---|---|
| control loop (`PlanningControl/main.cpp`, `Control/Control.cpp`) | `ctrl` (steering, target speed, lookahead), statics of the PID, `steering_monitor` | `mainControlLoop` at 10 Hz: choose planner, decide steering, PID, publish | reads everything the callbacks write; publishes `/ctrl_cmd_0` |
| topic callbacks (`PlanningControl/main.cpp`) | `gps_jamming_perception`, `ego`, `lane`, `driving_mode`, `costmap_info`, `Camera_costmap_info` | one callback per topic, on four spinner threads | shared globals; only `costmapCallback` locks |
| jamming planner (`Planning/JammingPlanning.cpp`) | `offset`, `jamming_params.gps_steering`, `gps_state`, static `prev_jamming` | `JammingPlanningProcess` | reads `lane`, the flag |
| lattice planners (`Planning/*Lattice*.cpp`, `BaselinePlanners.cpp`), four experiment modes | `lattice_ctrl` (goals, candidates, `best_path`, ratios), `last_selected_offset`, static latch of `applyPathEndStop` | goals, candidates, evaluation, selection, ratios, target speed | holds `costmap_mutex` for the whole plan |
| waypoint tracking (same files) | static `last_idx`, target indices | `findClosestWaypoint`, lookahead searches | `ego`, `waypoints` |
| lookups (`Planning/Util_Coordinates.cpp`) | none | transforms, costmap and zone queries | `costmap_info`, `Camera_costmap_info` |
| loader (`Global/parameter_loader.cpp`) | `waypoints`, zones, parameters | once at start | files |
| steering monitor, data logger, visualiser | statistics, open files | per cycle | logs, rviz |
| lidar node (`Lidar/`) | clouds of every stage, clusters, `state.costmap` | `LidarCallback` runs all stages, the main loop republishes the costmap at 10 Hz | `/lidar3D` in, `/costmap` out |
| lane node (`Camera/Camera.py`) | lane history | image callback | camera in, `/lane/path` out |
| road node (`Camera/bev_test.py`, started by `camera.launch` in spite of its name) | none | image callback: find road, glue, cut | camera in, `/drivable/mask/compressed` out |
| camera costmap node (`Camera/camera_costmap.cpp`) | camera costmap | image callback | mask in, `/costmap/camera` out |
| gRPC bridge (`grpc_inha_univ/src/ros_ctrl_to_grpc_bridge.py`) | connection | forwards `/ctrl_cmd_0` to the simulator | simulator |
| gRPC client library (`grpc_inha_univ/src/api`), which nothing else in the repository calls | actors by id, synchronous mode | start, spawn, destroy, modes, ticks | simulator |
| driving mode window (`src/main/scripts/driving_mode_ui.py`) | the mode shown | publishes `/driving_mode` when a button is pressed | planners |

What is hard in it:

* **Unlocked sharing.** An AsyncSpinner with four threads runs the timer and the
  topic callbacks in parallel. Only the lidar costmap is behind a mutex. The flag
  for jamming is read four times in one control cycle and may change between any
  two; a pose is stored one coordinate at a time.
* **State that outlives its cycle.** Function statics, `last_selected_offset`, the
  validity ratios and `ctrl.target_vel` all survive cycles that do not write them:
  cycles without a costmap, with everything blocked, or with GPS jammed.
* **Index windows.** Candidates live in one vector; layouts differ by mode and
  speed, while the code that examines them assumes four layers of `num_offsets`.
* **Safety spread over parts.** A path is blocked because the fit covers a cluster, the
  padding is wider than what lies between the points a planner looks up, and the rounding
  of both nodes agrees to a cell. No part is safe by itself.
* **Answers that never come.** A failed remote call looks like one whose answer is lost, a
  message to nobody like one that was received.
* **Republished sensor results.** A costmap is sent again and again under a fresh
  time stamp, whatever happened to the frames since.

The full list, each entry at its line with the property that would catch it, is
`hazards` in `PROJECT.json`.

## 2. The modules

| module | models | abstract specification | proofs |
|---|---|---|---|
| `ControlLoop` | timer cycle, `gpsCallback`, `costmapCallback`, path-end latch, jamming counter | `JammingArbiter` | `ControlLoopProofs` |
| `PathSelection` | one lattice planning cycle after another, all experiment modes | | `PathSelectionProofs` |
| `LidarPipeline` | the lidar node from scan to published costmap, and its receipt by the planner | | `LidarPipelineProofs` |
| `ObstaclePath` | composition: every cluster of a scan fitted, drawn, and looked up along the candidates | | `ObstaclePathProofs` |
| `LShapeBox` | its first part: ring of points, rectangle, padding, filter, corners | | in `ObstaclePathProofs` |
| `CostmapGrid` | its second part: the cells a rectangle becomes, and the cost a lookup finds | | |
| `CameraLookup` | the camera costmap, written by a callback while it is read | | `CameraProofs` |
| `CameraNodes` | composition: the three nodes of `camera.launch` on one camera | | `CameraProofs` |
| `CameraGrid` | road and costmap node: from what is found in an image to the planner's lookup | | in `CameraProofs` |
| `CameraLane` | lane node: the point between the lane lines, from line histories | | in `CameraProofs` |
| `WaypointTracking` | where on its course the planner takes the vehicle to be, and its four goals | | `WaypointTrackingProofs` |
| `CommandBridge` | the way of a command from the control loop to the simulator's vehicle | | `RemoteProofs` |
| `DrivingMode` | the window, its topic, and the cycle that plans with the mode | | `RemoteProofs` |
| `GrpcWorld` | the actors and the synchronous mode of a simulation, and what a client believes of them | | `RemoteProofs` |

`MC*.tla` give the constants their values for TLC; where there is none, the `.cfg` says it all.
`DataLemmas` holds what several proofs need about numbers, sequences and loops.

`LidarPipeline`, `ObstaclePath` and `PathSelection` follow one obstacle from the sensor to the
choice of a path: `LidarPipeline` says which scan's clusters are drawn while messages and
transforms come and go, `ObstaclePath` what the clusters of a scan do to the candidates, and
`PathSelection` starts from which goals have a lethal path. `ControlLoop` sees of all this only
whether a costmap has come and what kind of plan was found. `CameraLane` produces what
`PlanLane` turns into steering, `CameraGrid` what `CameraLookup` reads while it is written,
`WaypointTracking` the four lookahead goals that `PathSelection` lays its layers out at,
`DrivingMode` decides which weights and speeds those cycles use, and `CommandBridge` takes over
where `PublishCmd` ends.

### ControlLoop

Three threads. The *GPS thread* runs `gpsCallback`: `GpsJammed` (status 0, raise
the flag and return), `GpsClear` (lower it, compute the pose) and one `GpsStore`
per coordinate. The *costmap thread* is one action: it holds the mutex the
planners hold, so it never falls into a plan. The *timer thread* is a program
counter `pc` that is cut at every read of the flag:

    idle --LoopStart--> plan --Plan | PlanWaiting----------------------> control
         \------------> lane --PlanLane--> count --CountJamming--> mark --MarkJamming--/
    control --DecideSteering--> publish --PublishCmd--> idle

`LoopStart` is `main.cpp:113`, `CountJamming` and `MarkJamming` are the reads in
`JammingPlanning.cpp:58` and `61`, `DecideSteering` is `Control.cpp:21`. The flag is
a plain `bool`, so a build may keep the value of line 58 for line 61: `MarkJamming`
takes either. Between two reads the thread touches nothing another thread writes,
except the pose, which the planner reads in one go at its start in the model; a torn
pose is therefore visible (one coordinate stored, the other not), a pose that
changes in the middle of a plan is not.

Abstracted: a plan finds nothing, a path without points, or a path; speeds are four
tiers (0, 15 km/h, a planner speed, 40 km/h of jamming); a steering angle is where
it came from. `gps_steering` and the points of `best_path` carry the age of the
result (`fresh` within its cycle, `stale` afterwards). Yaw, speed, lane values, the
PID and logging are left out. `onsets`, `recoveries`, `staleLane` and `stalePath` are
history variables no action reads, except that `MaxOnsets` bounds how often jamming
begins.

`JammingArbiter` is the promise: the node keeps choosing the source of steering by
the value of the flag at some moment and then puts out one command from that source;
lane steering goes with the speed for jamming. Under the mapping in `ControlLoop`,
`DecideSteering` is `Choose`, `PublishCmd` is `Emit`, everything else is a change of the
flag or a stutter.

### PathSelection

The steps of one planning cycle in the order of the code: `Sample` (goals, transform,
candidates), `Evaluate` (validity and costs), `SelectBlocked` / `SelectBest`
(`selectBestPath`), `Measure` (`calculatePathValidityRatiosVA` in mode 3, nothing
otherwise), `SetSpeed`. A cycle runs under the mutex on one thread; what is checked is
what lasts from one to the next. Each cycle sees a *scene* of the constant `Scenes`:
which goals have a lethal path, which layers lie less than 0.1 m ahead, driving mode,
speed class, sampling scale, and a cost per goal that stands for the four terms of the
cost that do not depend on the past. The fifth, the change of offset from the selection
before, is computed as in the code, including its normalisation by the largest change
among valid candidates (`MaxChange`; all costs are multiplied by it, which keeps their
order, so no fractions appear).

Mode constants: `"fixed"` is `StaticLatticePlannerProcess` and `DynamicLDOnlyProcess`
(they differ only in lookahead distances), `"max"` is `MaxHighResProcess`, `"va"` is
`VALatticePlanningProcess`. The hysteresis statics of `selectBestPath` are never written,
so they are not variables. Validity ratios are pairs of counts. `Goals` puts the rows of a
scene's layers (`Row`: offsets from the left edge to the right) one behind the other, which is
how the code indexes candidates; `Reach` is how far to the side any of them lies.

### LidarPipeline

One thread runs `LidarCallback` from `spinOnce` and then publishes; `pc` names the next
stage: `Voxel` (all three filters), `Ransac`, `Euclidean` (with `LShapeFitting`),
`Initialize` and `Mark` (the loop of `Costmap`, one cluster a step), `Return`, `Publish`.
`SpinIdle` is a `spinOnce` without a message. The transform listener has its own thread,
so `Transform` may fall between two clusters; once found, the latest transform stays.
The queues of `/lidar3D` and `/costmap` have length one: a set of at most one element, whose
element is replaced. A scan is the set of objects it shows, and whether it has points
and ground; clouds are the sets of objects in them. `state.baselink_cloud` is rewritten
before every use and left out. `grounded`, and `clusters` and `early` of a costmap, are
history.

### ObstaclePath, LShapeBox, CostmapGrid

A recording is a sequence of scans, a scan a sequence of clusters. The node takes a scan
(`NewScan`), fits one cluster after another (`BeginCluster`, `FitCluster`, `EndCluster`), draws
them (`DrawScan`, `DrawCluster`) and publishes (`PublishMap`); the planner looks once at every map
(`EvaluateAllCandidates`). Here they take turns, and the transform to base_link is there (a
translation, `ToBaselink`): what goes wrong when scans, maps and transforms come at any time is
`LidarPipeline`.

`LShapeBox`: `Lower`, `LowerDone`, `Upper`, `UpperDone` are the two loops of
`Calculate_ConvexHull`, a pass of the inner or the outer loop at a time, with `HullSize` as the
code has it: read off the empty vector and never again. `Fit` is one edge in
`Calculate_Closeness`. An angle is the vector of its edge and extents are scaled by its
length, which keeps them exact. With the ring as it is, its area is zero up to rounding and
with it all scores, so which edge wins is open in the model. `Done` pads the rectangle, leaves
it out when it is long and thin (`LongAndThin`; its corners then stay at the origin), and turns it back.
Only here a root is needed: `Pad` rounds it inwards to `1/Fine` of a unit, so the drawn
rectangle is never larger than the code's. A straight cluster without any width has a
padded width of exactly 1 m, which float rounding may put on either side of the filter; in
exact numbers it passes, and the recordings of the run hold no such cluster.

`CostmapGrid`: coordinates are integers over a common denominator. `GridOf`, `Index`,
`IsPointInPolygon` (with the integer division of C++, towards zero), `Filled` (clamping
included), `NearOrigin` and `GetCostmapCost` are the functions of the code, to the cell. The
inflation is left out of `Filled` because it widens only the box that is searched.

Candidates are given by their headings from sample to sample, whole vectors of length
`Unit`, and `BodyPoints` are the three columns of points of `evaluateAllCandidates`. The unit is
a decimetre, and padding, vehicle width, rows and samples have their real proportions.

### CameraLookup

`Begin` and `Store` are `CameraCostmapCallback`, one field at a time and in any order, since
plain stores may be seen in any order. The reader is `getCameraCost`, one load of a shared
field at a time (`GridX`, `GridY`, `InRange`, `ComputeIndex`, `LoadPointer`, `ReadData`). A field
is its initial zero or the constant of the sender; with a resolution of zero the division
gives an infinity whose conversion to `int` is undefined (`Undefined`: the least int, a large
one, or zero). The timer thread holds the mutex for a whole plan; the model gives it back
after each lookup, which allows more, not fewer, interleavings of a callback that locks.
The deallocation is modelled as what makes it possible: the pointer read is no longer the
one the planner owns (`ReadsOwned`, which TLC refutes). A torn read of one field is not
modelled; for the pointer it would be one more way to the same result.

### CameraNodes, CameraGrid, CameraLane

`CameraGrid` has two nodes. `Inference` is `bev_test.py`: an image is the set of pixels in
which road is found, `GlueAndCut` dilates and erodes it (`Dilate`, `Erode`; at the border of the
image OpenCV's default neither spreads nor cuts), and any exception loses the image
(`InferenceFails`). `ImageCallback` is `camera_costmap.cpp` with its early returns, cell by cell
(`Mapped`, `PixelOf`, `Lethal`), and `GetCameraCost` the planner's lookup. Lengths are integers
with a cell of 10 and a pixel of 16 (8 cm in the code, rows 8.02 cm). Queues of length one are
sets. The costmap is rewritten whole, so the map and the message sent are one variable; `shown`
is history: what was found in the image the costmap is made from.

`CameraLane` has one action for `image_callback`: the histories of both sides, their mean, the
centre from one or both of them, the clipping and the case in which nothing is published. A
fit is the column at which its curve crosses the row looked at, since mean and evaluation
commute. `Look` is what the camera shows next. Centres are in half pixels, which keeps the half
lane width exact.

`CameraNodes` runs the three on one camera. The lane node and the other two share nothing but
that camera, so in any one behaviour the images change on one side only (`side`): a
behaviour of one side is the same whatever the other does, and no property is about both.

### WaypointTracking

`LoadWaypoints` is the reader of the course file, field by field, with its rule that a field
that is no number makes place for the next. `FindClosest` is `findClosestWaypoint` with its
window about the static `last_idx`; `FindLookahead` stands for the three lookahead searches, which
differ in their distances only (`Lookaheads`). `Drive` moves the vehicle and its fix at any
time, also between the two; `gap` bounds how far it goes without a plan, as it does while GPS
is jammed or no costmap has come. `FindClosest` and `FindLookahead` are two actions because the
fix is not under the mutex a plan holds.

`CourseAssumption` is what the safety of the search needs of a course: from wherever a search may
start, the waypoints nearest to the vehicle are those of its place, and they stay nearer than
the farthest layer until the next search. TLC evaluates it on the courses of the run. On the
course file of the repository (4939 waypoints, half a metre apart; computed apart, like the
gaps in section 4) it holds with `Slack` 4 for positions up to 1 m beside the course and 6 for up
to 1.5 m, with any gap the window allows (46 and 44 waypoints: the closest waypoint is then at most
26.5 m behind, the farthest layer of modes 0 and 1 is at 30 m or more). In mode 3 that layer comes
nearer at low speed, and the gap has to be so much shorter.

### CommandBridge

The control loop (`Decide`, `Publish`), the bridge (`Connect`, `SetAutoMode`, `Take`, `Call`,
`CallFails`) and the simulator (`SimDown`, `SimHangs`, `SimUp`, `AnyoneSetsMode`, external). A command is the number
of the decision it carries. Before the subscription messages are not queued; a full queue
drops its oldest. A call that fails loses its command. A simulator that starts again has a new
vehicle, on the keyboard and with no command; `followed` is history: the last command any vehicle
has followed.

### DrivingMode

The window (`OpenWindow`, `Press`, `CloseWindow`), the connection of its publisher (`ConnectWindow`, lost
when either side ends) and the planner: `DrivingModeCallback` in one thread, a cycle in three
steps in another (`StartCycle` copies the mode, `EvaluateAllCandidates` and `GetTargetSpeed` use the
copy). What is published while nobody is connected is gone; the queues of publisher and
subscriber are one queue. The mode with which a window opens is published by a publisher
nobody can be connected to yet: a planner in overtaking mode stays in it though the new window
shows the standard mode. A window without ROS ends with an `AttributeError` in `set_mode`,
which is no state of the planner. `EXPERIMENT_MODE` 3 ignores the mode and is left out.

### GrpcWorld

A `MoraiSimClient` with its `SimulationWorld`, and what of the simulator belongs to its key.
Every adapter call answers None when it fails: a call that is refused or never made changes
nothing and is a stutter, one whose answer is lost changes the simulator only
(`SpawnUnanswered`, `StartUnanswered`, the second disjunct of `SetSynchronousMode`). Clients
crash, the simulator starts again, ids are given again. `Construct` destroys what the key
still owns and does not look whether that worked; `Finalize` and `Destroy` do not look either,
and `Destroy` leaves its entry. `unsure` is history: whose last change was never confirmed. Only
the clients of another key could be in the way; they are not modelled.

## 3. What the runs show

Passing runs:

* `control_loop` - every interleaving over two jamming episodes on a course of four
  places with two turns. `CountBounded`: the episode counter never overcounts, however
  its two reads fall. `StaleBounded`: at most one command per onset is steered by an old
  lane result and one per recovery by an old path. `LatchHolds`: after the stop at the
  end of the course only a cycle that has read the flag raised asks for motion.
  `MotionNeedsInput`: no motion before the first costmap or jamming. `PoseProvenance`:
  coordinates come from places passed.
  `ArbiterSafety`: refinement of `JammingArbiter`. Two episodes are needed (the counter
  and the stale bounds differ only from the second on); four places give a pose torn
  between two fixes that is at none of them.
  Its liveness, under `FairSpec`: the fair arbiter is implemented (`ArbiterSpec`), so jamming
  that stays is answered by lane steering at 40 km/h, even after a latched stop, and GPS that
  stays by the planners.
* `path_selection` - all four modes, each over its scenes in any order, mode 3 with
  near-first and far-first layouts at full and at 60 % sampling. `LeastCost`: the cheapest
  valid candidate of the first two layers, of the next two only if there is none, the
  leftmost of equals. `SlowForCause`: a reduced speed has an obstacle behind it in
  the same cycle. `SelectedCounted`: mode 3 finds the selected path again by its offset and may
  find one of another layer (`SelectedFound` below), but a valid one of the same offset, and the
  ratios about it count the selected path too, even the narrowest. `NoChatter`: the offset moves
  only to a path of lower own cost than that of every candidate of its group that would keep it,
  whatever has come between, blocked cycles included; in an unchanged scene, lower than that of the path
  it leaves. Hence `Settles`: it comes to rest, though the hysteresis is dead code.
* `lidar_pipeline` - `OneScan`: a finished costmap holds the clusters of the last scan with
  ground, never of two scans, whatever stages return early. `Whole`: the planner never sees
  a costmap half drawn; an object is missing only if the transform was.  Two objects: one that stays and one that comes or goes.
  `Follows`: once scans show the same, the planner comes to hold that and nothing else. It
  needs scans with ground: without, the last clusters stay for good.
* `obstacle_path` - `PathBlocked`: no candidate on which the outline of the vehicle comes over a
  point of a cluster stays valid, whichever edge wins the fit, at every angle, beside the
  vehicle, at the edge of the map, for a fence as for a pole. It is what padding, filter,
  clearing, drawing and lookup are for together. `NothingElseSeen`: a point farther than padding
  and rounding (`Margin`, the root of five cells or more) from every rectangle is not lethal, whatever the scan
  before. On the way, though the ring is no hull, it serves as one (`RingServes`): it has every
  corner of the hull and no edge without an angle; and the rectangle covers the cluster at the
  angle it is passed on with (`BoxCovers`).
* `camera_lookup` - `IndexInside`, in any order of stores: it holds because
  all messages have one geometry and a width is checked after it is loaded. `RightCell`: once
  the first message is stored, the cell read is the one asked for; a point up to a cell off
  the near edges reads the cell at the edge, because the code truncates where the other
  lookup rounds down.
* `camera_nodes` - `SeenAsShown`: a point in view costs 100 in the planner's lookup where a patch
  without road, wider than the gaps that are closed, is nearer than what is cut by half a cell, and
  nothing costs 100 unless such a patch is no farther than that, a pixel and half a cell: no axis is
  mirrored, swapped or shifted, no verge is left and no gap is a wall, whatever image came before.
  (Without the half cell on the near side it is false: where the edge of the patch falls on the
  edge of a pixel, the centre of the cell that is looked up may lie in the pixel beyond. The points
  the run looks up include the corners of the pixels for this.) `Settles`: lane lines
  that stay are followed in the end. `Smooth`: with full histories one image moves the centre
  by its share of the mean only.
* `waypoint_tracking` - `OnCourse`: while the vehicle does not outrun the window, each search finds
  the part of the course it is on, on a hairpin whose legs are closer than the window is long
  and with the first row misread as in the file. `Recovers`: however far it drove without a
  plan on a course that only bends, and within the window on the hairpin, the index comes back
  to it. `GoalsReach`: farther layers never
  have nearer goals, and a layer falls back on the closest waypoint only where the course ends.
* `command_bridge` - `InOrder`: no vehicle comes to follow a command older than one followed
  before, by it or by the vehicle of a simulator that has failed, whatever is
  dropped, lost or refused. `Obeyed`: if it stays in AUTO mode, the last decision is followed
  in the end, because the control loop publishes it again and again.
* `driving_mode` - `OneMode`: whenever no cycle is under way, the costs and the speed of the last
  one are of the same mode, though messages come in at any step of it. `SelectionReached`: a mode
  that was sent on a connection that lasts is what cycles plan with in the end, however many
  messages the queue dropped.
* `grpc_world` - `Known`: a client finds every actor the simulator holds for its key, as what it
  is, unless a call about it was never confirmed; also after crashes, and when an id is given
  again whose old entry was never removed. `InStep`: ticks go to a simulator that waits for
  them and to no other, with the same exception.

Runs that refute what the repository says (each is a `finding` with its quotation):

* `latch_stops_vehicle` - jamming after the stop at the end of the course moves the vehicle again.
* `emergency_stop` - with all candidates blocked the command goes on at speed.

What comments say and the code does not do is stated as a property, too, in five more places; no
run is spent on them, but TLC refutes each with the constants of the component's run:

* `OnsetCounted` of `ControlLoop` (`JammingPlanning.cpp:57`): `prev_jamming` is written in jammed cycles
  only (`MarkJamming`), so a second episode is not counted.
* `AllBlocked` of `PathSelection` (`LatticePlanning.cpp:600-602`): `path_groups` ends at `4 * num_offsets`
  candidates (`BestIdx`), so in modes 2 and 3, which lay out more, the path is given up while some of
  those behind are valid.
* `SelectedFound` of `PathSelection` (`VALatticePlanning.cpp:479`): mode 3 measures its ratios about the
  first valid candidate of the selected offset (`Found`), not about the one selected.
  `SelectedCounted` is what holds nevertheless.
* `ReadsOwned` of `CameraLookup` (`main.cpp:48`): with the lock commented out in `CameraCostmapCallback`
  a lookup may read a message that is being replaced.
* `GoneForgotten` of `CameraLane` and `CameraNodes` (`Camera.py:117`): the history of a lane line is never
  empty again (`Remember`), so a line that is gone for good counts for good, where the mean should be
  that of the last five frames (`Centre`).

Other places where code and text part, visible in the modules though no run is spent on them:

* A goal less than 0.1 m ahead becomes a valid candidate without points that is driven at
  full speed (`Passable`, `SetSpeed`); `LatticePlanning.cpp:243` says keep the path or stop.
* The hysteresis statics at `LatticePlanning.cpp:568` and `578` are never written. The offset does
  change in an unchanged scene, but only for the better (`NoChatter`).
* `HullSize` is read off the empty vector once (`Lshapefitting.cpp:56`), so the loops that pop
  points, as line 65 explains, never run (`Drops`). The ring runs through all points there and
  back; its area is zero. `RingServes` is why this does no harm.
* The padding of half a metre on each side makes every rectangle at least a metre wide, so the
  filter of thin long clusters (`Lshapefitting.cpp:307`, width below a metre) never strikes.
  With the width taken before the padding it would, and `PathBlocked` fails (its mutant).
* `driving_mode_ui.py:27` announces a standalone mode without ROS; `set_mode` then publishes
  on None and the window does not open (`OpenWindow`).
* `actor.py:71` says that a destroyed actor should leave the world's list; it does not
  (`Destroy`), nor does `destroy_all_actors`.
* The first row of the course file begins with letters (`RWW-0.352795,-78.650616,29.027353`) and is
  read as the point (-78.65, 29.03), 3.3 m from point 285 of the course (`RowPoint`). Only the
  window of the search keeps it from being chosen there.
* `camera_costmap.cpp:64` says the map is centred left to right; the origin is half of
  `GRID_W` cells to the right, while the extent along y is `GRID_H` cells, so the map reaches 17.5 m
  to the right and 32.5 m to the left (`OriginY`). The nearest row of pixels is outside the image
  (row 237 of 237) and its cells stay free; columns left of the middle are one pixel off,
  because the conversion truncates towards zero (`Row`, `Column`).
* `findStaticLookaheadGoal` and its like use the closest index for "none yet": when the closest
  waypoint is itself beyond the farthest distance, all four layers can fall on one place.
* Curves are taken at 30, 35 or 45 km/h (`CurveVel`); `docs/tuning-notes.md:21` says 40.

### Bounds

| constant | run value | in the code | why enough |
|---|---|---|---|
| `Route` | 4 places | 4939 | only distance to the last and the tearing between two fixes matter; the proofs hold for every route |
| `MaxOnsets` | 2 | unbounded | see above; the proofs hold for every bound |
| `NumOffsets` | 5 | 13 | the layout needs a centre with neighbours and an edge |
| `EgoColumn` | 1 | 4 | left of the centre, as in the code |
| `MaxOffset` | 8 | 8 m | the code's own; offsets of the fixed rows are numbered |
| `MaxSamples` | 6 | 32 | odd-making rounds up, more candidates than `4 * NumOffsets` |
| `BaseSamples` | 9 8 8 8 | 38 33 30 25 | at full scale more than `4 * NumOffsets` candidates, at the smallest exactly as many (60 % here, 40 % in the code) |
| `VehicleCells` | 18 | 54 | half of it is the least that holds a group of candidates, which in the code 27 does for 26 (`WindowAssumption`); and all of it is less than a layout |
| `Objects` | 2 | any number | as above; the proofs hold for every set |
| `Width`, `Height` of `ObstaclePath` | 48 x 40 cells of 1 dm | 2000 x 1000 of 5 cm | the vehicle is in the middle; recordings lie ahead, beside, behind and across the edge of the map |
| `ClearRadius` | 2 (2 dm) | 3 (15 cm) | a rectangle covers the cleared area in part |
| `Padding`, `Thin`, `Long`, `HalfWidth`, `FrontStep` | 5, 10, 30, 10, 5 dm | 0.5, 1, 3, 1, 0.5 m | the code's own |
| `SampleSpacing` | 2 dm | 0.1 m | every other sample: fewer points are looked up than in the code, so a cluster that is seen here is seen there; the proofs hold for every spacing |
| `FrontRows` | 2 (1 m) | 8 (4 m) | rows repeat; the proportions between them stay |
| `Recordings` | every five voxels of 3 x 3 at two places, poles, fences, two scans in a row | any | a rectangle at every angle five voxels can give; a fence along and across; what is left of the first scan |
| `Fine` | 8 | - | corners to an eighth of a decimetre, rounded inwards |
| `Sub`, `Margin` | 1, 3 dm | 5 cm, root of five cells | the least whole margin for which `NothingElseSeen` is proved; the padding is still larger, as in the code |
| `MaxMsgs` | 2 | unbounded | one to be lost to the other; fields only change with the first |
| `IMG_W`, `IMG_H`, `GRID_W`, `GRID_H` | 12 x 9 pixels, 20 x 28 cells | 300 x 237, 700 x 1000 | odd and even ratios of cell to pixel, cells off the image on every side, the same uncentred origin |
| `GLUE_SIZE`, `CUT_SIZE` | 3, 5 | 11, 39 | odd, and more is cut than glued |
| `Images` of `CameraGrid` | 17: roads at either side, straight and across, with gaps narrower and wider than the glue | any | each axis by itself, and edges and gaps of both kinds |
| `Width`, `LANE_WIDTH`, `HistLen` | 12, 6, 3 | the camera's, 320, 5 | the mean truncates, and a one-sided centre falls off the image |
| `Behind`, `Ahead`, `Slack` | 1, 5, 2 | 10, 50, - | same proportions; the window is longer than the way to the other leg |
| `Courses` | 16 and 13 waypoints | 4939 | a hairpin, a corner, and the misread first row |
| `QueueSize`, `MaxDecisions`, `MaxDowns` | 3, 3, 2 | 10, unbounded, unbounded | a queue that holds all three decisions, and overflows by repetition; a failure before and after AUTO |
| `ModeQueueSize` | 3 | 10 | overflows within a few presses, also by the same mode again |
| `Ids`, `Kinds` | 3, 2 | any | two actors at a time and an id free for a third; an id that changes its kind |
| `MapWidth`, `MapHeight` of `CameraLookup` | 3 x 2 cells | 700 x 1000 | points on, before and behind the map; the proofs hold for every geometry |

### Fairness

`FairSpec` assumes `WF(Loop)`: the timer fires and its callback, which has no loop that
waits, returns; and `WF(GpsStore)`: a callback that has begun storing a pose finishes.
Nothing is assumed of GPS messages, costmaps or the vehicle. `PathSelection` needs none:
`Settles` holds of stuttering behaviours too. `LidarPipeline`'s assumes that the sensor goes on
scanning, that the transform (sent by something outside the repository) is received at last,
that the loop of the node turns (`main` waits for nothing but its rate), and that the
planner's spinner delivers a waiting message; weak fairness of the whole `Node` is enough,
since its steps are taken one after another. `WaypointTracking` assumes that the planner runs
again at last (jamming ends, a costmap comes; `WF(Plan)`), `CameraNodes` that images go on being
processed by the lane node (`WF(LaneNode)`), `DrivingMode` that the spinner takes messages and
runs cycles (nobody has to press, open or start anything), `CommandBridge` that the timer publishes (`WF(Publish)`) and that the bridge's thread
goes on, unless it waits for a call: calls have no deadline, so one to a simulator that takes
calls and does not answer (`"hung"`) waits as long as that lasts. Nothing is assumed of the
simulator but what `Obeyed` says itself.

## 4. What is proved

`ControlLoopProofs`, for every `Route` and `MaxOnsets` (assumed: the route is a non-empty
sequence of integer pairs, the bound a natural number): `TypeCorrect`, `CountCorrect`,
`StaleCorrect`, `LatchCorrect`, `MotionCorrect`, `PoseCorrect`, `ArbiterCorrect`,
`InductiveCorrect`.

No property but the type invariant is inductive by itself; `IInv` adds what the timer
thread may rely on between two reads. Two examples. The counter stays below the number
of onsets because, outside the statistics step, a raised flag with `prev_jamming` down
means the current episode is not counted yet; and within it a loaded `FALSE` followed by
a raised flag means an onset happened since the load (`CountInv`). A stale lane command
needs the flag raised after a clear-branch read, and then the onset that raised it has not
been charged for one yet (`StaleInv`). Each part of `IInv` has a step lemma with one case
per action; `ArbiterCorrect` needs `DecidedInv`, that a decided lane command has the
jamming speed, and maps each action to a step or a stutter of the arbiter.

`LidarPipelineProofs`, for every finite set of objects: `TypeCorrect`, `PipelineCorrect`,
`OneScanCorrect`, `WholeCorrect`. `OneScan` speaks of finished costmaps only; `PipelineInv` adds
what each stage keeps on the way there: the ransac cloud is always that of the last scan
with ground, the clusters are too once they are replaced, and a costmap being drawn has
marked every cluster but those the loop has not come to.

`CameraProofs` extends `CameraLookup` and `CameraNodes`.

* `TypeCorrect`, `IndexCorrect` and `CellCorrect` of the lookup, for every geometry, every set of
  points and any number of messages.
  For the index, `LookupInv` says that width and height, once seen, are there to stay, and that the
  coordinates were checked against them; a lemma bounds `y * MapWidth + x`. For the cell,
  `SettledInv` says that coordinates computed after a first message are those of the geometry that
  stays.
* `SeenCorrect`, that `SeenAsShown` holds for all images, odd kernels, sizes of pixel and cell, and
  points. Assumed of the sizes is what the code's satisfy (`GridAssumption`): a cell is no longer
  than a pixel, and the costmap reaches as far as the image. `GridInv` says that what waits between
  the nodes, and the costmap, belong to one image each. The rest is arithmetic, in both directions:
  from a cost to the cell (`SameCell`), its centre (`CellCentre`), the pixel (`RowShows`,
  `ColumnShows`) and something bare within the kernel (`OffMask`, `ReachRow`, `ReachColumn`); and
  from something bare near a point in view to the cell of the point, which is on the map and has a
  pixel (`ViewX`, `ViewY`), and to the kernel about that pixel (`HitRow`, `HitColumn`). The
  directions differ: a row is read a pixel before its centre, a column rounds towards the middle
  of the image, and off the near edge of the map a cell is a cell too long.
* `SmoothCorrect`, for every width of image, length of history and set of places lines can be seen
  at. `LaneInv` says that with a line on either side the centre is that of the two means; the mean
  moves by its share because in a full history the newest takes the place of the oldest
  (`SumShift`, `MeanShift`), and clipping brings closer. The theorem assumes `InImage`, that no line
  crosses the row looked at left of the image. This is needed: `Camera.py:179` writes -1 for "no
  centre", so two lines whose centre comes out as -1 leave the centre published before in place,
  which may be one estimated from a single line, and when they move on the centre jumps.

`PathSelectionProofs`, for every layout (an odd number of offsets, at least three, so that there is
a middle; any samples per layer), all four modes and every set of scenes: `TypeCorrect`,
`LeastCostCorrect`, `SelectedCountedCorrect`, `SlowForCauseCorrect`, `NoChatterCorrect`. A cycle
leaves its candidates, the path it has chosen and the ratios to the next, and each property is
about a later step than the one that makes it true; so `IInv` says, step by step, what the
arrays hold: `LayoutInv`, that candidate `i` is the one the index arithmetic of the planners takes
it for; `EvaluatedInv`, that costs are those of the scene, with one factor for all; `MemoryInv`,
that the path from the cycle before is the candidate that was chosen, while the scene is the
same, and was only chosen from a far layer if no near one was passable; `RatioInv`, that where the
speed is set the ratios are full if nothing is lethal. `SelectedCounted` rests on `LeastCost`: the path
found is the first like the selected one, so it is not behind it, and it is not in the group before,
where nothing can be valid if the selection went past it; and a group fits into half of the
narrowest window. The last is `WindowAssumption`, which relates two constants of the code that know
nothing of each other (26 candidates, 27 cells). `NoChatter` compares a candidate with those that keep
the offset (`KeeperStep`), which cost no change since the offset remembered is that of `best_path`,
emptied or not (`MemoryInv`); and with the path selected in the cycle before, which in an equal scene
is among the candidates again (`NoChatterStep`). `Settles`, which follows from it, is liveness.

`ObstaclePathProofs`, for every recording of clusters of at least five different points (what
`EuclideanClustering` passes on after the voxel filter), every scale and size of the map, and every
padding larger than what rounding takes and no less than half of what counts as thin:
`TypeCorrect`, `RingServesCorrect`, `BoxCoversCorrect`, `ScanBoxedCorrect`, `BoxesShownCorrect`. The
ring is not the hull it is meant to be, and `Fitting` says what it is instead: since `HullSize`
stays 0, all the sorted points to and fro. Hence neighbours on it are different points, across the
seam too, so every edge has a length and an angle; hence every point is on it, whichever edge wins,
and the rectangle kept is the extent of all points along the edge it is kept with. The denominators
of turned corners are positive for the same reason. That points are sorted without losing one is
`SortedEnumerates`. From there `ShownInv` follows a scan through the node: as many boxes as clusters
fitted, each about its own cluster; then the cells with the cost of an obstacle are those of the
boxes drawn so far, and at the end those of all. Hence `ScanBoxed`, about every published scan as a
whole, where `BoxCovers` speaks of the cluster just fitted; and, with the lookup, `BoxesShown`: what
the planner finds lethal is exactly the polygons of the boxes of the last scan, cell by cell, where
they overlap, leave the map or lie about the vehicle, too, though drawing and lookup are two
programs with nothing but the message between them, and one of them clears the cells about the
vehicle. (Both are stated in `ObstaclePathProofs`; TLC has checked `ShownInv` and `BoxesShown` on
the run of `ObstaclePath`.) What the lookup contributes is arithmetic: a cell has one index and an
index one cell (`IndexOnMap`, `IndexOnce`), clamping drops the cells off the map and no others
(`SpanOfCells`), hence what is written of a box is its polygon as far as it is on the map
(`FilledCells`), and of the three costs there are only the obstacle's is lethal (`LethalCell`).

What is left is how the polygon lies to the box, in both directions.
`NothingElseSeenCorrect`: outside nothing is drawn. `ShapeInv` says of every box that it has an
angle, its extents in order, and the padded corners that belong to them. `IsPointInPolygon` counts
crossings of integers, and its division rounds towards zero, so to the right on one side
of zero and to the left on the other; `EdgeNear` and `BetweenEdges` give how far a cell found inside can
then be beyond an edge between two rounded corners, for a linear form with any factors. Corner,
crossing and the point asked for are each rounded, and together that is less than the root of
five cells in every direction (`RoundingBound`), which is `MarginAssumption`. The proof has
corrected a bound here: the run was first made with two cells, and its recordings do not
show that some edges, one along (3, -5) for example, come to 2.03 of them.

`ClustersSeenCorrect`: inside everything is drawn. A point no farther than
`Clearance == Padding - Margin - 1` from a cluster, or from what lies between two of its points,
is lethal, if the map has it or not; with the real lengths, in centimetres, that is 37 of
the 50 padded. The padded sides are farther away than rounding reaches (`PadServes`), so an edge is
crossed only if it lies to the right of the point (`SideCrossed`); the point's row is
between the lowest and the highest corner also after rounding (`CornerRow`), so it leaves the ring of
four edges an odd number of times, and that on the right (`OddCrossing`, `InsidePolygon`). No box is
left out as thin, since twice the padding is as much as the filter asks for. Both are
`PaddingAssumption`. `BodyClearCorrect` takes this to the planner: no body point of a candidate that
is left valid is near a cluster of the scan it was evaluated with, and this stays so while the node
is at work on the next scan. `BodyAssumption` says that body points are whole numbers. Both
properties are stated in `ObstaclePathProofs`; TLC has checked `ShapeInv`, `ClustersSeen` and
`BodyClear` on the run of `ObstaclePath` before they were proved, and finds the last two violated
when `Clearance` is set to 4 instead of 1.

`WaypointTrackingProofs`, for every course file, window and set of distances: `TypeCorrect`,
`OnCourseCorrect`, `GoalsReachCorrect`. Types need that what the loader makes of any row of numbers
and text is a point or nothing (`RowPointType`, `FlattenType`). `OnCourse` is inductive only with
`SinceSearch`, that the vehicle is as many places past the last search as `gap` has counted, since
the window lies about the result of a search that may be that old. `GoalsReach` needs `Within`
besides: a search that stops at the first waypoint beyond the farthest distance has left none
out, unless the closest waypoint is itself beyond it, and it is not, though fixes came in between.
What the course contributes is `CourseAssumption`, a statement about the file and the window and
not about any run.

`RemoteProofs` holds the parts that talk to something remote; it extends the three modules, which
is why names of `DrivingMode` and `GrpcWorld` say what they belong to (`ModeSpec`, `WorldSpec`).
For every size of the queues, any number of decisions and failures, every set of ids and kinds:

* `TypeCorrect` and `OrderCorrect` of `CommandBridge`. `InOrder` speaks of one step; `OrderInv` adds
  why no step goes back: what waits is in the order of decision, nothing that waits is older than
  what is being sent, nothing sent older than what was followed, whether the vehicle that did so
  is still there or not. Two lemmas say what a full and a
  free queue hold after a message has come in.
* `ModeTypeCorrect` and `OneModeCorrect`. `OneMode` speaks of the time between cycles; `CycleInv`
  adds what holds within one: once evaluated, the costs are of the mode the cycle has copied, and
  that copy is what the speed goes by.
* `WorldTypeCorrect`, `KnownCorrect`, `InStepCorrect`. Both properties are inductive with the types,
  because they except what was never confirmed; the lemma `ConstructFresh` says what a new world
  takes over from what an old one has left.

`DataLemmas`: a set of integers with a bound has a least or greatest element (`MinInt`, `MaxInt`), a
loop that takes one value to the next defines a function (`Iteration`), and two small facts more.
They stand in for induction over data: the library's induction rules take an operator, which
cannot be instantiated here, but that numbers do not descend for ever is a statement about
sets, and the least counterexample does what an induction step would.

The inductive invariants were run by TLC before they were proved, each on the run of its
component; they are no properties of the runs, since the proofs say more.

Only model-checked: liveness (`Settles`, `Follows`, `Recovers`, `Obeyed`, `SelectionReached`) and the
refinement of the fair arbiter, which are out of the prover's reach; and `PathBlocked`. Of that,
`BodyClear` is the part that holds for all constants. The rest is not arithmetic: with columns a metre
apart and rows of half a metre, a point of the outline may be 5.6 dm from the nearest point
that is looked up, more than the padding. That nothing in between is missed is due to the
points of one sample lying between those of others, and to clusters that are wider than
a point; so it depends on the candidate's bends and on the cluster, and the run checks it for
those it has.

What the window of `WaypointTracking` does on the real course is beyond a small instance, and was
computed apart: of gaps up to 50 m (the window ahead is 25 m long, at half a metre a waypoint)
the search recovers from all; from the very start a gap of 100 m or more may fall to the
misread row, and gaps of 400 m and more may get stuck on the other leg of the course in places.
This is why `Recovers` speaks of a course that only bends and `OnCourse` of gaps inside the
window.

## 5. Not modelled, and the plan

The plan is carried out. What it would take to go on: a statement about how candidates bend and
how far apart the points of a cluster are, from which `PathBlocked` would follow from
`BodyClear`; the code has no such statement, so it would be an assumption about what is
driven and seen.

Left out for good, with the reason:

* Floating-point geometry: transforms with a rotation, polynomials and their curvature, scores
  of a fit, plane fitting. The models take its results as choices or use exact numbers.
* What the networks find in an image, undistortion, warping and curve fitting.
* `SteeringMonitor.cpp`: it adds up statistics of the steering for a log line every 15 s and a
  summary at the end; it runs in the timer thread only and nothing reads it.
* `DataLogger.cpp`, both visualisers: output only.
* `Kalman.cpp` is commented out from end to end; `Hungarian.cpp` is a third-party solver that
  nothing calls.
* The radius of the zones: `isInsideNoLidarZone` is a choice in `ObstaclePath`, that of the camera a
  lookup that costs nothing. (The camera's is asked again for every point of a plan while the pose
  may move on: a plan at the edge of a zone may see part of the camera costmap only.)
* Where the camera sits: `Camera.py:13` names 2.4 m ahead, while the image's metres are used as if
  they were counted from base_link (`camera_costmap.cpp:18`). No code relates the two, so no
  property can.
* Loaders that fail (`main.cpp:199`): the node goes on, and its first plan reads waypoint 0 of an
  empty vector (`LatticePlanning.cpp:169`), which is undefined. A model would show no more.
* Generated protobuf stubs, message definitions, launch files and shell scripts.
