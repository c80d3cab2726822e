-------------------------- MODULE WaypointTracking --------------------------
(***************************************************************************)
(* Where the planners think the vehicle is on its course, and which of the *)
(* waypoints ahead become goals.  findClosestWaypoint looks only a window  *)
(* about the index it found last; findLookaheadGoal and its two variants   *)
(* go on from there.  The vehicle drives on while GPS is jammed or no      *)
(* costmap has come, and none of this runs.                                *)
(*                                                                         *)
(* A waypoint is a pair of integers, distances are compared by their       *)
(* squares.  Indices are those of TLA+ sequences, one more than the code's.*)
(***************************************************************************)
EXTENDS Integers, Sequences, FiniteSets, FiniteSetsExt, SequencesExt

CONSTANTS
  Courses,     \* by name: [rows: the file, road: where it leads, gap: places driven without a plan]
  Text,        \* what std::stod throws at
  Behind,      \* 10: the window of findClosestWaypoint, backwards
  Ahead,       \* 50: and forwards
  Lookaheads,  \* distances of the four layers, at each speed
  Drifts,      \* how far beside the course the vehicle may be
  Slack        \* how far the nearest waypoint may be from that place, in waypoints

ASSUME LookaheadsAssumption ==
  \A ld \in Lookaheads : /\ DOMAIN ld = 1 .. 4
                         /\ \A k \in 1 .. 4 : ld[k] \in Nat
                         /\ \A k \in 1 .. 3 : ld[k] < ld[k + 1]

ASSUME CoursesAssumption ==
  /\ Behind \in Nat /\ Ahead \in Nat /\ Slack \in Nat
  /\ <<0, 0>> \in Drifts /\ Drifts \subseteq Int \X Int
  /\ \A c \in DOMAIN Courses :
       /\ Courses[c].rows \in
            Seq([sep : {"space", "comma"}, fields : Seq(Int \union {Text})])
       /\ Courses[c].road \in Seq(Int \X Int) /\ Courses[c].road # << >>
       /\ Courses[c].gap \in Nat

VARIABLES
  course,      \* the name of the course
  waypoints,
  place,       \* the place on the road the vehicle passes
  ego,         \* its position, as the last fix has it
  gap,         \* history: places passed since the last search
  pc,
  last_idx,    \* static of findClosestWaypoint, and lattice_ctrl.close_idx
  target,      \* target_idx_short .. target_idx_very_long
  seen         \* history: the place at the last search, 0 before
vars == <<course, waypoints, place, ego, gap, pc, last_idx, target, seen>>

----------------------------------------------------------------------------
(* loadWaypoints.  A row is read as "x y" if it can be, else by its commas; *)
(* a field that is no number is passed over and its successor takes its     *)
(* place.                                                                  *)

Numeric(fields) == {k \in DOMAIN fields : fields[k] # Text}

RowPoint(row) ==
  LET read == Numeric(row.fields)
      Point(i, j) == << <<row.fields[i], row.fields[j]>> >>
  IN  IF row.sep = "space"
      THEN IF {1, 2} \subseteq read THEN Point(1, 2) ELSE << >>
      ELSE IF Cardinality(read) >= 2 THEN Point(Min(read), Min(read \ {Min(read)})) ELSE << >>

LoadWaypoints(rows) == FlattenSeq([r \in DOMAIN rows |-> RowPoint(rows[r])])

road == Courses[course].road
max_gap == Courses[course].gap
At(c, p, d) == <<Courses[c].road[p][1] + d[1], Courses[c].road[p][2] + d[2]>>
Beside(p, d) == At(course, p, d)

Init ==
  /\ course \in DOMAIN Courses
  /\ waypoints = LoadWaypoints(Courses[course].rows) /\ Len(waypoints) >= 3
  /\ place = 1 /\ ego = road[1] /\ gap = 0
  /\ pc = "idle"
  /\ last_idx = 1
  /\ target = [k \in 1 .. 4 |-> 1]
  /\ seen = 0

----------------------------------------------------------------------------
\* The square of the distance of two points; and of waypoint i to ego.
Apart2(p, q) == (p[1] - q[1]) * (p[1] - q[1]) + (p[2] - q[2]) * (p[2] - q[2])
Dist2(i) == Apart2(waypoints[i], ego)

Larger(a, b) == IF a > b THEN a ELSE b
Smaller(a, b) == IF a < b THEN a ELSE b

\* Mutants: the whole course is searched; the index is not kept from call to call.
WholeCourse == DOMAIN waypoints
FromTheStart == 1 .. Smaller(Len(waypoints), 1 + Ahead)

Window == Larger(1, last_idx - Behind) .. Smaller(Len(waypoints), last_idx + Ahead)

\* The first of the nearest in S.
Nearest(S) == CHOOSE i \in S : \A j \in S : \/ Dist2(i) < Dist2(j)
                                            \/ Dist2(i) = Dist2(j) /\ i <= j

FindClosest ==
  /\ pc = "idle"
  /\ last_idx' = Nearest(Window)
  /\ seen' = place /\ gap' = 0
  /\ pc' = "goals"
  /\ UNCHANGED <<course, waypoints, place, ego, target>>

\* The loop ends with the first waypoint beyond the farthest distance.
Beyond(d, S) == {i \in S : Dist2(i) >= d * d}
\* Mutant: it ends with the first waypoint beyond the nearest distance.
VisitedToShort(ld) ==
  LET far == Beyond(ld[1], last_idx .. Len(waypoints))
  IN  last_idx .. (IF far = {} THEN Len(waypoints) ELSE Min(far))

Visited(ld) ==
  LET far == Beyond(ld[4], last_idx .. Len(waypoints))
  IN  last_idx .. (IF far = {} THEN Len(waypoints) ELSE Min(far))

\* Mutant: the waypoint after the one that is far enough.
TargetAfter(d, S) ==
  LET found == Beyond(d, S) \ {last_idx}
  IN  IF found = {} THEN last_idx ELSE Min(found) + 1

\* close_idx also stands for "not found yet", so it never counts as found itself.
Target(d, S) ==
  LET found == Beyond(d, S) \ {last_idx}
  IN  IF found = {} THEN last_idx ELSE Min(found)

FindLookahead ==
  /\ pc = "goals"
  /\ \E ld \in Lookaheads :
       target' = [k \in 1 .. 4 |-> Target(ld[k], Visited(ld))]
  /\ pc' = "idle"
  /\ UNCHANGED <<course, waypoints, place, ego, gap, last_idx, seen>>

\* The next place is passed and its fix is stored, whatever the planner is at.
Drive ==
  /\ place < Len(road) /\ gap < max_gap
  /\ place' = place + 1 /\ gap' = gap + 1
  /\ \E d \in Drifts : ego' = Beside(place', d)
  /\ UNCHANGED <<course, waypoints, pc, last_idx, target, seen>>

Plan == FindClosest \/ FindLookahead
Next == Plan \/ Drive
Spec == Init /\ [][Next]_vars
FairSpec == Spec /\ WF_vars(Plan)

----------------------------------------------------------------------------
\* Types; the closest index and every goal are indices of waypoints, also at the end of the
\* course and without a match.
TypeOK ==
  /\ course \in DOMAIN Courses
  /\ place \in DOMAIN road /\ \E d \in Drifts : ego = Beside(place, d)
  /\ gap \in 0 .. max_gap
  /\ pc \in {"idle", "goals"}
  /\ last_idx \in DOMAIN waypoints
  /\ target \in [1 .. 4 -> DOMAIN waypoints]
  /\ seen \in 0 .. Len(road)

Near(i, p) == i - p \in -Slack .. Slack

\* The waypoints nearest to a position, of those a search from index l can look at.
NearestFrom(c, l, ego_at) ==
  LET points == LoadWaypoints(Courses[c].rows)
      S == {i \in DOMAIN points : i - l \in -Behind .. Ahead}
  IN  {i \in S : \A j \in S : Apart2(points[i], ego_at) <= Apart2(points[j], ego_at)}

\* What is asked of a course the vehicle drives with short gaps: from wherever a search
\* may start, the nearest waypoints belong to the place, and until the next search
\* they stay nearer than the farthest goal.
ASSUME CourseAssumption ==
  \A c \in {x \in DOMAIN Courses : Courses[x].gap + Slack <= Ahead} :
    LET points == LoadWaypoints(Courses[c].rows)
        places == DOMAIN Courses[c].road
    IN  \A p \in places, d \in Drifts, l \in DOMAIN points :
          l - p \in -(Slack + Courses[c].gap) .. Slack =>
            \A i \in NearestFrom(c, l, At(c, p, d)) :
              /\ Near(i, p)
              /\ \A q \in places, e \in Drifts, ld \in Lookaheads :
                   q - p \in 0 .. Courses[c].gap =>
                     Apart2(points[i], At(c, q, e)) < ld[4] * ld[4]

\* While the vehicle never outruns the window, every search finds the part of the
\* course it is on: neither another leg that passes close by nor a waypoint misread
\* by the loader draws the index away, wherever beside the course the vehicle is.
OnCourse ==
  max_gap + Slack <= Ahead /\ seen # 0 => Near(last_idx, seen)

\* After the gaps without a plan that its course allows, once the planner runs again the
\* index comes to the vehicle, a window at a time, and stays: gaps of any length where the
\* course only bends, gaps within the window where it has another leg close by.  (Longer
\* ones may leave the index on that leg.  The road ends: the vehicle comes to rest
\* somewhere, as it may anywhere.)
Recovers == <>[](Near(last_idx, place))

\* Of the four goals a farther one is never nearer on the course.  And while the
\* vehicle does not outrun the window, a layer falls back on the closest waypoint
\* only near the end of the course, when none that is left is as far as the layer,
\* although the loop stops at the first match of the farthest layer, although the
\* closest waypoint also means "none yet", and although fixes come in between.
GoalsReach ==
  [][pc = "goals" /\ pc' = "idle" =>
       \A k \in 1 .. 4 :
         /\ \A j \in 1 .. k : target'[k] # last_idx =>
              target'[j] # last_idx /\ target'[j] <= target'[k]
         /\ max_gap + Slack <= Ahead /\ target'[k] = last_idx =>
              \E ld \in Lookaheads :
                \A i \in last_idx + 1 .. Len(waypoints) : Dist2(i) < ld[k] * ld[k]]_vars
=============================================================================
