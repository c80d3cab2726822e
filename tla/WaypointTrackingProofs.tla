----------------------- MODULE WaypointTrackingProofs -----------------------
(* The vehicle's place on its course and its four goals, for every course    *)
(* file, window, set of lookahead distances, and any number of places passed *)
(* between two searches.  Where the course matters, CourseAssumption says    *)
(* what is asked of it.                                                      *)
EXTENDS WaypointTracking, DataLemmas, FiniteSetTheorems

Point2 == Int \X Int
Rows == [sep : {"space", "comma"}, fields : Seq(Int \union {Text})]
Loaded(c) == LoadWaypoints(Courses[c].rows)

----------------------------------------------------------------------------
(* The loader.                                                              *)

(* Sequences put one behind the other are a sequence of the same elements.  *)
LEMMA FlattenType ==
  ASSUME NEW T, NEW seqs \in Seq(Seq(T))
  PROVE  FlattenSeq(seqs) \in Seq(T)
<1> DEFINE n == Len(seqs)
           flatten == CHOOSE f : f = [i \in 1 .. n |-> IF i = 1 THEN seqs[i] ELSE f[i - 1] \o seqs[i]]
<1>1. CASE n = 0
  BY <1>1 DEF FlattenSeq
<1>2. CASE n # 0
  <2>1. n \in Nat /\ 1 <= n /\ seqs \in [1 .. n -> Seq(T)]
    BY <1>2
  <2> HIDE DEF n
  <2> DEFINE step == [i \in 1 + 1 .. n |-> [s \in Seq(T) |-> s \o seqs[i]]]
  <2>2. step \in [1 + 1 .. n -> [Seq(T) -> Seq(T)]]
    BY <2>1
  <2>3. \A i \in 1 + 1 .. n, s \in Seq(T) : step[i][s] = s \o seqs[i]
    OBVIOUS
  <2>4. seqs[1] \in Seq(T)
    BY <2>1
  <2> HIDE DEF step
  <2>5. PICK f \in [1 .. n -> Seq(T)] : Runs(f, 1, n, seqs[1], step)
    <3> DEFINE V == Seq(T)
               a == 1
               v == seqs[1]
    <3>1. a \in Int /\ n \in Int /\ a <= n /\ v \in V /\ step \in [a + 1 .. n -> [V -> V]]
      BY <2>1, <2>2, <2>4
    <3> HIDE DEF V, a, v
    <3>2. \E f \in [a .. n -> V] : Runs(f, a, n, v, step)
      BY <3>1, Iteration
    <3> QED BY <3>2 DEF V, a, v
  <2>6. \A i \in 1 .. n : f[i] = IF i = 1 THEN seqs[i] ELSE f[i - 1] \o seqs[i]
    <3> SUFFICES ASSUME NEW i \in 1 .. n, i # 1 PROVE f[i] = f[i - 1] \o seqs[i]
      BY <2>5 DEF Runs
    <3>1. i \in 1 + 1 .. n /\ i - 1 \in 1 .. n
      BY <2>1
    <3>2. f[i - 1] \in Seq(T)
      BY <3>1
    <3> QED BY <2>3, <2>5, <3>1, <3>2 DEF Runs
  <2>7. f = [i \in 1 .. n |-> IF i = 1 THEN seqs[i] ELSE f[i - 1] \o seqs[i]]
    BY <2>6
  <2>8. flatten = [i \in 1 .. n |-> IF i = 1 THEN seqs[i] ELSE flatten[i - 1] \o seqs[i]]
    BY <2>7
  <2> HIDE DEF flatten
  <2> DEFINE Good == {i \in 1 .. n : flatten[i] \in Seq(T)}
  <2>9. \A i \in 1 .. n : flatten[i] = IF i = 1 THEN seqs[i] ELSE flatten[i - 1] \o seqs[i]
    BY <2>8
  <2>10. 1 .. n \subseteq Good
    <3> DEFINE Bad == {i \in Nat : i \in 1 .. n /\ flatten[i] \notin Seq(T)}
    <3>1. ASSUME Bad # {} PROVE FALSE
      <4>1. PICK i \in Bad : \A j \in Bad : i <= j
        <5> Bad \subseteq Nat
          OBVIOUS
        <5> HIDE DEF Bad
        <5> QED BY <3>1, LeastNat
      <4>2. i \in 1 .. n /\ flatten[i] \notin Seq(T)
        OBVIOUS
      <4>3. CASE i = 1
        BY <2>4, <2>9, <4>2, <4>3
      <4>4. CASE i # 1
        <5>1. i - 1 \in Nat /\ i - 1 \in 1 .. n /\ ~(i <= i - 1)
          BY <4>2, <4>4, <2>1
        <5>2. i - 1 \notin Bad
          <6> HIDE DEF Bad
          <6> QED BY <4>1, <5>1
        <5>3. flatten[i - 1] \in Seq(T)
          BY <5>1, <5>2
        <5>4. seqs[i] \in Seq(T)
          BY <2>1, <4>2
        <5>5. flatten[i] = flatten[i - 1] \o seqs[i]
          BY <2>9, <4>2, <4>4
        <5> QED BY <4>2, <5>3, <5>4, <5>5
      <4> QED BY <4>3, <4>4
    <3> QED BY <3>1
  <2>11. flatten[n] \in Seq(T)
    BY <2>1, <2>10
  <2>12. FlattenSeq(seqs) = flatten[n]
    BY <1>2 DEF FlattenSeq, flatten, n
  <2> QED BY <2>11, <2>12
<1> QED BY <1>1, <1>2

(* What a row is read as is a point, or nothing: text never becomes a       *)
(* coordinate (parameter_loader.cpp:108-112).                               *)
LEMMA RowPointType ==
  ASSUME NEW row \in Rows
  PROVE  RowPoint(row) \in Seq(Point2)
<1> DEFINE fields == row.fields
           n == Len(fields)
           read == Numeric(fields)
<1>1. /\ fields \in [1 .. n -> Int \union {Text}] /\ n \in Nat
      /\ read = {k \in 1 .. n : fields[k] # Text}
  BY DEF Rows, Numeric
<1>2. RowPoint(row) =
        IF row.sep = "space"
        THEN IF {1, 2} \subseteq read THEN << <<fields[1], fields[2]>> >> ELSE << >>
        ELSE IF Cardinality(read) >= 2
             THEN << <<fields[Min(read)], fields[Min(read \ {Min(read)})]>> >> ELSE << >>
  BY DEF RowPoint
<1> HIDE DEF fields, n, read
<1>3. \A i \in read : fields[i] \in Int
  BY <1>1
<1>4. \A i \in read, j \in read : << <<fields[i], fields[j]>> >> \in Seq(Point2)
  <2> SUFFICES ASSUME NEW x \in Int, NEW y \in Int PROVE << <<x, y>> >> \in Seq(Point2)
    BY <1>3
  <2> QED BY DEF Point2
<1>5. ASSUME Cardinality(read) >= 2
      PROVE  Min(read) \in read /\ Min(read \ {Min(read)}) \in read
  <2>1. IsFiniteSet(read)
    <3>1. IsFiniteSet(1 .. n)
      BY <1>1, FS_Interval
    <3> QED BY <1>1, <3>1, FS_Subset
  <2>2. read # {}
    BY <1>5, FS_EmptySet
  <2> DEFINE low == 1
             rest == read \ {Min(read)}
  <2>3. low \in Int /\ read \subseteq Int /\ \A x \in read : low <= x
    BY <1>1
  <2> HIDE DEF low
  <2>4. Min(read) \in read
    BY <2>2, <2>3, MinInt
  <2>5. rest # {}
    <3>1. Cardinality(rest) = Cardinality(read) - 1
      BY <2>1, <2>4, FS_RemoveElement
    <3>2. Cardinality(read) \in Nat
      BY <2>1, FS_CardinalityType
    <3> HIDE DEF rest
    <3> QED BY <1>5, <3>1, <3>2, FS_EmptySet
  <2>6. rest \subseteq Int /\ \A x \in rest : low <= x
    BY <2>3
  <2>7. Min(rest) \in rest
    <3> HIDE DEF rest
    <3> QED BY <2>3, <2>5, <2>6, MinInt
  <2> QED BY <2>4, <2>7
<1>6. << >> \in Seq(Point2)
  OBVIOUS
<1> QED BY <1>2, <1>4, <1>5, <1>6

(* The waypoints of a file are points.                                      *)
LEMMA LoadedType ==
  ASSUME NEW c \in DOMAIN Courses
  PROVE  Loaded(c) \in Seq(Point2)
<1> DEFINE rows == Courses[c].rows
           n == Len(rows)
<1>1. n \in Nat /\ rows \in [1 .. n -> Rows] /\ DOMAIN rows = 1 .. n
  <2>1. rows \in Seq(Rows)
    BY CoursesAssumption DEF Rows
  <2> HIDE DEF rows
  <2> QED BY <2>1
<1> HIDE DEF rows, n
<1> DEFINE seqs == [r \in 1 .. n |-> RowPoint(rows[r])]
<1>2. \A r \in 1 .. n : RowPoint(rows[r]) \in Seq(Point2)
  BY <1>1, RowPointType
<1>3. seqs \in [1 .. n -> Seq(Point2)]
  BY <1>2
<1>4. seqs \in Seq(Seq(Point2))
  <2> HIDE DEF seqs
  <2> QED BY <1>1, <1>3
<1>5. Loaded(c) = FlattenSeq(seqs)
  BY <1>1 DEF Loaded, LoadWaypoints, rows
<1> HIDE DEF seqs
<1> QED BY <1>4, <1>5, FlattenType

----------------------------------------------------------------------------
(* Distances.                                                               *)

(* Of points, a distance squared is a natural number.                       *)
LEMMA Apart2Type ==
  ASSUME NEW p \in Point2, NEW q \in Point2
  PROVE  Apart2(p, q) \in Nat
<1>1. \A x \in Int : x * x \in Nat
  <2> SUFFICES ASSUME NEW x \in Int PROVE x * x >= 0
    OBVIOUS
  <2>1. CASE x >= 0
    BY <2>1
  <2>2. CASE x < 0
    BY <2>2
  <2> QED BY <2>1, <2>2
<1>2. p[1] - q[1] \in Int /\ p[2] - q[2] \in Int
  BY DEF Point2
<1> DEFINE x == (p[1] - q[1]) * (p[1] - q[1])
           y == (p[2] - q[2]) * (p[2] - q[2])
<1>3. x \in Nat /\ y \in Nat
  BY <1>1, <1>2
<1>4. Apart2(p, q) = x + y
  BY DEF Apart2
<1> HIDE DEF x, y
<1> QED BY <1>3, <1>4

(* A longer distance has a larger square.                                   *)
LEMMA SquareGrows ==
  ASSUME NEW x \in Nat, NEW y \in Nat, x <= y
  PROVE  x * x \in Nat /\ x * x <= y * y
<1>1. PICK z \in Nat : y = x + z
  <2>1. y - x \in Nat /\ y = x + (y - x)
    OBVIOUS
  <2> QED BY <2>1
<1>2. y * y = x * x + (2 * (x * z) + z * z)
  BY <1>1
<1>3. x * x \in Nat /\ x * z \in Nat /\ z * z \in Nat
  OBVIOUS
<1> QED BY <1>2, <1>3

(* A farther layer looks farther.                                           *)
LEMMA LayersInOrder ==
  ASSUME NEW ld \in Lookaheads, NEW j \in 1 .. 4, NEW k \in 1 .. 4, j <= k
  PROVE  ld[j] \in Nat /\ ld[k] \in Nat /\ ld[j] <= ld[k]
<1>1. /\ ld[1] \in Nat /\ ld[2] \in Nat /\ ld[3] \in Nat /\ ld[4] \in Nat
      /\ ld[1] < ld[2] /\ ld[2] < ld[3] /\ ld[3] < ld[4]
  <2>1. 1 + 1 = 2 /\ 2 + 1 = 3 /\ 3 + 1 = 4
    OBVIOUS
  <2> QED BY <2>1, LookaheadsAssumption
<1>2. j \in {1, 2, 3, 4} /\ k \in {1, 2, 3, 4}
  OBVIOUS
<1> QED BY <1>1, <1>2

(* Where the vehicle passes a place is a point.                             *)
LEMMA AtType ==
  ASSUME NEW c \in DOMAIN Courses, NEW p \in DOMAIN Courses[c].road, NEW d \in Drifts
  PROVE  At(c, p, d) \in Point2
<1> DEFINE way == Courses[c].road
           n == Len(way)
<1>1. n \in Nat /\ way \in [1 .. n -> Int \X Int] /\ p \in 1 .. n /\ d \in Int \X Int
  BY CoursesAssumption
<1>2. At(c, p, d) = <<way[p][1] + d[1], way[p][2] + d[2]>>
  BY DEF At
<1> HIDE DEF way, n
<1>3. way[p] \in Int \X Int
  BY <1>1
<1> QED BY <1>1, <1>2, <1>3 DEF Point2

----------------------------------------------------------------------------
(* The inductive invariant.                                                 *)

Tracked ==
  /\ TypeOK
  /\ waypoints = Loaded(course) /\ Len(waypoints) >= 3

\* Before the first search the index is that of the course's beginning; after it the
\* vehicle is as far from where that search was as it has counted.
SinceSearch ==
  IF seen = 0 THEN place = 1 + gap /\ last_idx = 1 /\ pc = "idle"
              ELSE seen \in DOMAIN road /\ place = seen + gap

\* Wherever the vehicle is between two searches, the closest waypoint is no goal of the
\* farthest layer.
Within ==
  max_gap + Slack <= Ahead /\ seen # 0 =>
    \A q \in DOMAIN road, e \in Drifts, ld \in Lookaheads :
      q - seen \in 0 .. max_gap =>
        Apart2(waypoints[last_idx], At(course, q, e)) < ld[4] * ld[4]

IInv == Tracked /\ SinceSearch /\ OnCourse /\ Within

(* What the invariant says of the state's values.                           *)
LEMMA Values ==
  ASSUME Tracked
  PROVE  /\ course \in DOMAIN Courses /\ max_gap \in Nat /\ gap \in 0 .. max_gap
         /\ DOMAIN road = 1 .. Len(road) /\ Len(road) \in Nat /\ Len(road) >= 1
         /\ place \in 1 .. Len(road) /\ seen \in 0 .. Len(road)
         /\ Len(waypoints) \in Nat /\ Len(waypoints) >= 3
         /\ DOMAIN waypoints = 1 .. Len(waypoints)
         /\ \A i \in 1 .. Len(waypoints) : waypoints[i] \in Point2
         /\ last_idx \in 1 .. Len(waypoints)
         /\ ego \in Point2
<1>1. course \in DOMAIN Courses /\ place \in DOMAIN road
      /\ gap \in 0 .. max_gap /\ seen \in 0 .. Len(road)
      /\ last_idx \in DOMAIN waypoints /\ Len(waypoints) >= 3
  BY DEF Tracked, TypeOK
<1>2. max_gap \in Nat /\ road \in Seq(Int \X Int) /\ road # << >>
  BY <1>1, CoursesAssumption DEF max_gap, road
<1>3. DOMAIN road = 1 .. Len(road) /\ Len(road) \in Nat /\ Len(road) >= 1
  BY <1>2
<1>4. waypoints \in Seq(Point2)
  BY <1>1, LoadedType DEF Tracked
<1>5. ego \in Point2
  <2>1. PICK d \in Drifts : ego = Beside(place, d)
    BY DEF Tracked, TypeOK
  <2> QED BY <1>1, <2>1, AtType DEF Beside, road
<1> QED BY <1>1, <1>2, <1>3, <1>4, <1>5

(* Distances of waypoints to the vehicle are natural numbers.               *)
LEMMA Dist2Type ==
  ASSUME Tracked, NEW i \in 1 .. Len(waypoints)
  PROVE  Dist2(i) \in Nat
BY Values, Apart2Type DEF Dist2

(* The window in set terms.                                                 *)
LEMMA WindowIs ==
  ASSUME Tracked
  PROVE  /\ Window = {i \in DOMAIN waypoints : i - last_idx \in -Behind .. Ahead}
         /\ last_idx \in Window
<1> DEFINE n == Len(waypoints)
<1>1. /\ n \in Nat /\ DOMAIN waypoints = 1 .. n /\ last_idx \in 1 .. n
      /\ Behind \in Nat /\ Ahead \in Nat
  BY Values, CoursesAssumption
<1>2. Window = Larger(1, last_idx - Behind) .. Smaller(n, last_idx + Ahead)
  BY DEF Window
<1> HIDE DEF n
<1>3. \A i \in Int : (Larger(1, last_idx - Behind) <= i <=> 1 <= i /\ last_idx - Behind <= i)
                     /\ (i <= Smaller(n, last_idx + Ahead) <=> i <= n /\ i <= last_idx + Ahead)
  BY <1>1 DEF Larger, Smaller
<1>4. Larger(1, last_idx - Behind) \in Int /\ Smaller(n, last_idx + Ahead) \in Int
  BY <1>1 DEF Larger, Smaller
<1>5. \A i \in Int : i \in Window <=>
        1 <= i /\ i <= n /\ last_idx - Behind <= i /\ i <= last_idx + Ahead
  BY <1>2, <1>3, <1>4
<1>6. Window \subseteq Int
  BY <1>2, <1>4
<1>7. Window = {i \in 1 .. n : i - last_idx \in -Behind .. Ahead}
  <2>1. \A i \in 1 .. n : i \in Window <=> i - last_idx \in -Behind .. Ahead
    BY <1>1, <1>5
  <2>2. \A i \in Window : i \in 1 .. n
    BY <1>1, <1>5, <1>6
  <2> QED BY <2>1, <2>2
<1>8. last_idx \in Window
  BY <1>1, <1>5
<1> QED BY <1>1, <1>7, <1>8

(* findClosestWaypoint returns a waypoint of the window, and none of the     *)
(* window is nearer (LatticePlanning.cpp:96-106).                           *)
LEMMA NearestIs ==
  ASSUME Tracked
  PROVE  Nearest(Window) \in Window /\ \A j \in Window : Dist2(Nearest(Window)) <= Dist2(j)
<1> DEFINE W == Window
           distances == {Dist2(i) : i \in W}
<1>1. W \subseteq Nat /\ last_idx \in W /\ \A i \in W : Dist2(i) \in Nat
  BY Values, WindowIs, Dist2Type
<1> HIDE DEF W
<1>2. PICK d \in distances : \A e \in distances : d <= e
  <2>1. distances \subseteq Nat /\ distances # {}
    BY <1>1
  <2> HIDE DEF distances
  <2> QED BY <2>1, LeastNat
<1> DEFINE ties == {i \in W : Dist2(i) = d}
<1>3. PICK i \in ties : \A j \in ties : i <= j
  <2>1. ties \subseteq Nat /\ ties # {}
    BY <1>1, <1>2
  <2> HIDE DEF ties
  <2> QED BY <2>1, LeastNat
<1>4. i \in W /\ Dist2(i) = d /\ d \in Nat
  BY <1>1, <1>3
<1>5. ASSUME NEW j \in W PROVE Dist2(i) < Dist2(j) \/ (Dist2(i) = Dist2(j) /\ i <= j)
  <2>1. d <= Dist2(j) /\ Dist2(j) \in Nat
    BY <1>1, <1>2
  <2>2. CASE Dist2(j) = d
    BY <1>3, <1>4, <2>2
  <2>3. CASE Dist2(j) # d
    BY <1>4, <2>1, <2>3
  <2> QED BY <2>2, <2>3
<1>6. Nearest(W) \in W /\ \A j \in W : \/ Dist2(Nearest(W)) < Dist2(j)
                                       \/ Dist2(Nearest(W)) = Dist2(j) /\ Nearest(W) <= j
  BY <1>4, <1>5 DEF Nearest
<1>7. \A j \in W : Dist2(Nearest(W)) <= Dist2(j)
  BY <1>1, <1>6
<1> QED BY <1>6, <1>7 DEF W

(* It is one of those the course's assumption speaks of.                    *)
LEMMA FoundNearest ==
  ASSUME Tracked
  PROVE  Nearest(Window) \in NearestFrom(course, last_idx, ego)
BY NearestIs, WindowIs DEF NearestFrom, Tracked, Loaded, Dist2

(* What the assumption on a course says of a search that starts in reach.   *)
LEMMA FoundOnCourse ==
  ASSUME Tracked, max_gap + Slack <= Ahead, last_idx - place \in -(Slack + max_gap) .. Slack
  PROVE  /\ Near(Nearest(Window), place)
         /\ \A q \in DOMAIN road, e \in Drifts, ld \in Lookaheads :
              q - place \in 0 .. max_gap =>
                Apart2(waypoints[Nearest(Window)], At(course, q, e)) < ld[4] * ld[4]
<1> DEFINE i == Nearest(Window)
<1>1. PICK d \in Drifts : ego = At(course, place, d)
  BY DEF Tracked, TypeOK, Beside
<1>2. i \in NearestFrom(course, last_idx, At(course, place, d))
  BY <1>1, FoundNearest
<1>3. /\ course \in {x \in DOMAIN Courses : Courses[x].gap + Slack <= Ahead}
      /\ place \in DOMAIN Courses[course].road
      /\ last_idx \in DOMAIN LoadWaypoints(Courses[course].rows)
      /\ waypoints = LoadWaypoints(Courses[course].rows)
      /\ last_idx - place \in -(Slack + Courses[course].gap) .. Slack
  BY Values DEF Tracked, Loaded, max_gap, road
<1> HIDE DEF i
<1>4. /\ Near(i, place)
      /\ \A q \in DOMAIN Courses[course].road, e \in Drifts, ld \in Lookaheads :
           q - place \in 0 .. Courses[course].gap =>
             Apart2(LoadWaypoints(Courses[course].rows)[i], At(course, q, e)) < ld[4] * ld[4]
  BY <1>2, <1>3, CourseAssumption
<1> QED BY <1>3, <1>4 DEF max_gap, road, i

----------------------------------------------------------------------------
(* The goals of a call of findLookaheadGoal.                                *)

(* The loop visits the waypoints from the closest one on.                   *)
LEMMA VisitedIs ==
  ASSUME Tracked, NEW ld \in Lookaheads
  PROVE  /\ Visited(ld) \subseteq last_idx .. Len(waypoints) /\ last_idx \in Visited(ld)
         /\ \/ Visited(ld) = last_idx .. Len(waypoints)
            \/ \E i \in Visited(ld) : Dist2(i) >= ld[4] * ld[4]
<1> DEFINE n == Len(waypoints)
           low == last_idx
           far == Beyond(ld[4], low .. n)
<1>1. low \in Int /\ n \in Nat /\ low <= n
  BY Values
<1>2. far \subseteq Int /\ \A x \in far : low <= x /\ x <= n /\ Dist2(x) >= ld[4] * ld[4]
  BY <1>1 DEF Beyond
<1>3. Visited(ld) = low .. (IF far = {} THEN n ELSE Min(far))
  BY DEF Visited
<1> HIDE DEF n, low, far
<1>4. CASE far = {}
  BY <1>1, <1>3, <1>4 DEF n, low
<1>5. CASE far # {}
  <2>1. Min(far) \in far
    BY <1>1, <1>2, <1>5, MinInt
  <2>2. Min(far) \in Int /\ low <= Min(far) /\ Min(far) <= n /\ Dist2(Min(far)) >= ld[4] * ld[4]
    BY <1>2, <2>1
  <2>3. Visited(ld) = low .. Min(far)
    BY <1>3, <1>5
  <2>4. Visited(ld) \subseteq low .. n /\ low \in Visited(ld) /\ Min(far) \in Visited(ld)
    BY <1>1, <2>2, <2>3
  <2> QED BY <2>2, <2>4 DEF n, low
<1> QED BY <1>4, <1>5

(* A goal is the first visited waypoint that is far enough, other than the  *)
(* closest one, or else that.                                               *)
LEMMA TargetIs ==
  ASSUME Tracked, NEW S \in SUBSET (last_idx .. Len(waypoints)), NEW d
  PROVE  \/ /\ Target(d, S) = last_idx
            /\ Beyond(d, S) \subseteq {last_idx}
         \/ /\ Target(d, S) # last_idx
            /\ Target(d, S) \in Beyond(d, S)
            /\ \A i \in Beyond(d, S) \ {last_idx} : Target(d, S) <= i
<1> DEFINE low == last_idx
           found == Beyond(d, S) \ {last_idx}
<1>1. low \in Int /\ found \subseteq Int /\ \A x \in found : low <= x
  <2>1. last_idx \in Int /\ Len(waypoints) \in Int
    BY Values
  <2>2. found \subseteq last_idx .. Len(waypoints)
    BY DEF Beyond
  <2> HIDE DEF found
  <2> QED BY <2>1, <2>2
<1>2. Target(d, S) = IF found = {} THEN last_idx ELSE Min(found)
  BY DEF Target
<1>3. found \subseteq Beyond(d, S) /\ last_idx \notin found
      /\ (found = {} => Beyond(d, S) \subseteq {last_idx})
  OBVIOUS
<1>4. CASE found # {}
  <2>1. Min(found) \in found /\ \A i \in found : Min(found) <= i
    <3> HIDE DEF found, low
    <3> QED BY <1>1, <1>4, MinInt
  <2> QED BY <1>2, <1>3, <1>4, <2>1
<1>5. CASE found = {}
  BY <1>2, <1>3, <1>5
<1> QED BY <1>4, <1>5

(* A goal is one of the waypoints visited.                                  *)
LEMMA TargetType ==
  ASSUME Tracked, NEW ld \in Lookaheads, NEW k \in 1 .. 4
  PROVE  Target(ld[k], Visited(ld)) \in DOMAIN waypoints
<1> DEFINE S == Visited(ld)
<1>1. S \subseteq last_idx .. Len(waypoints) /\ last_idx \in S
  BY VisitedIs
<1> HIDE DEF S
<1>2. Target(ld[k], S) \in S
  BY <1>1, TargetIs DEF Beyond
<1>3. S \subseteq DOMAIN waypoints
  BY <1>1, Values
<1> QED BY <1>2, <1>3 DEF S

(* The goal of a farther layer is never nearer on the course.               *)
LEMMA GoalsInOrder ==
  ASSUME Tracked, NEW ld \in Lookaheads, NEW j \in 1 .. 4, NEW k \in 1 .. 4, j <= k,
         Target(ld[k], Visited(ld)) # last_idx
  PROVE  Target(ld[j], Visited(ld)) # last_idx
         /\ Target(ld[j], Visited(ld)) <= Target(ld[k], Visited(ld))
<1> DEFINE S == Visited(ld)
           goal == Target(ld[k], S)
<1>1. S \in SUBSET (last_idx .. Len(waypoints)) /\ S \subseteq 1 .. Len(waypoints)
  BY VisitedIs, Values
<1>2. ld[j] * ld[j] \in Nat /\ ld[k] * ld[k] \in Nat /\ ld[j] * ld[j] <= ld[k] * ld[k]
  BY LayersInOrder, SquareGrows
<1> HIDE DEF S
<1>3. goal \in Beyond(ld[k], S) /\ goal # last_idx
  BY <1>1, TargetIs DEF S
<1> HIDE DEF goal
<1>4. goal \in S /\ Dist2(goal) >= ld[k] * ld[k] /\ Dist2(goal) \in Nat
  BY <1>1, <1>3, Dist2Type DEF Beyond
<1>5. goal \in Beyond(ld[j], S) \ {last_idx}
  BY <1>2, <1>3, <1>4 DEF Beyond
<1>6. Target(ld[j], S) # last_idx /\ Target(ld[j], S) <= goal
  BY <1>1, <1>5, TargetIs
<1> QED BY <1>6 DEF S, goal

(* A layer without a goal has none left on the course, if the closest       *)
(* waypoint is none of the farthest layer.                                  *)
LEMMA NoGoalLeft ==
  ASSUME Tracked, NEW ld \in Lookaheads, NEW k \in 1 .. 4,
         Dist2(last_idx) < ld[4] * ld[4],
         Target(ld[k], Visited(ld)) = last_idx
  PROVE  \A i \in last_idx + 1 .. Len(waypoints) : Dist2(i) < ld[k] * ld[k]
<1> DEFINE S == Visited(ld)
           n == Len(waypoints)
<1>1. /\ S \in SUBSET (last_idx .. n) /\ n \in Nat /\ last_idx \in 1 .. n
      /\ \A i \in 1 .. n : Dist2(i) \in Nat
  BY VisitedIs, Values, Dist2Type
<1>2. ld[k] * ld[k] \in Nat /\ ld[4] * ld[4] \in Nat /\ ld[k] * ld[k] <= ld[4] * ld[4]
  <2>1. 4 \in 1 .. 4 /\ k <= 4
    OBVIOUS
  <2> QED BY <2>1, LayersInOrder, SquareGrows
<1>3. Beyond(ld[k], S) \subseteq {last_idx}
  BY <1>1, TargetIs
<1>4. S = last_idx .. n \/ \E i \in S : Dist2(i) >= ld[4] * ld[4]
  BY VisitedIs
<1> HIDE DEF S, n
<1>5. ASSUME NEW i \in S, Dist2(i) >= ld[4] * ld[4] PROVE FALSE
  <2>1. i \in 1 .. n /\ Dist2(i) \in Nat
    BY <1>1
  <2>2. Dist2(i) >= ld[k] * ld[k]
    BY <1>2, <1>5, <2>1
  <2>3. i = last_idx
    BY <1>3, <2>2 DEF Beyond
  <2> QED BY <1>2, <1>5, <2>1, <2>3
<1>6. S = last_idx .. n
  BY <1>4, <1>5
<1>7. ASSUME NEW i \in last_idx + 1 .. n PROVE Dist2(i) < ld[k] * ld[k]
  <2>1. i \in S /\ i # last_idx /\ i \in 1 .. n
    BY <1>1, <1>6
  <2>2. ~(Dist2(i) >= ld[k] * ld[k])
    BY <1>3, <2>1 DEF Beyond
  <2> QED BY <1>1, <1>2, <2>1, <2>2
<1> QED BY <1>7 DEF n

----------------------------------------------------------------------------
(* The invariant holds before the first search.                             *)
LEMMA InitInv == Init => IInv
<1> SUFFICES ASSUME Init PROVE IInv
  OBVIOUS
<1>1. /\ course \in DOMAIN Courses /\ waypoints = Loaded(course) /\ Len(waypoints) >= 3
      /\ place = 1 /\ ego = road[1] /\ gap = 0 /\ pc = "idle" /\ last_idx = 1
      /\ target = [k \in 1 .. 4 |-> 1] /\ seen = 0
  BY DEF Init, Loaded
<1>2. max_gap \in Nat /\ road \in Seq(Int \X Int) /\ road # << >>
  BY <1>1, CoursesAssumption DEF max_gap, road
<1>3. 1 \in DOMAIN road /\ Len(road) \in Nat /\ road[1] \in Int \X Int
  BY <1>2
<1>4. waypoints \in Seq(Point2)
  BY <1>1, LoadedType
<1>5. 1 \in DOMAIN waypoints
  BY <1>1, <1>4
<1>6. \E d \in Drifts : ego = Beside(place, d)
  <2>1. \A p \in Int \X Int : p = <<p[1] + 0, p[2] + 0>>
    OBVIOUS
  <2>2. road[1] = <<road[1][1] + 0, road[1][2] + 0>>
    BY <1>3, <2>1
  <2>3. Beside(1, <<0, 0>>) = <<road[1][1] + 0, road[1][2] + 0>>
    BY DEF Beside, At, road
  <2> QED BY <1>1, <2>2, <2>3, CoursesAssumption
<1>7. TypeOK
  BY <1>1, <1>2, <1>3, <1>5, <1>6 DEF TypeOK
<1> QED BY <1>1, <1>7 DEF IInv, Tracked, SinceSearch, OnCourse, Within

(* findClosestWaypoint keeps it: where the course is as assumed, the search  *)
(* starts from the place of the last one, or from the course's beginning.   *)
LEMMA FindClosestInv ==
  ASSUME IInv, FindClosest
  PROVE  IInv'
<1>1. /\ last_idx' = Nearest(Window) /\ seen' = place /\ gap' = 0 /\ pc' = "goals"
      /\ course' = course /\ waypoints' = waypoints /\ place' = place /\ ego' = ego
      /\ target' = target
  BY DEF FindClosest
<1>2. Tracked /\ TypeOK
  BY DEF IInv, Tracked
<1>3. last_idx' \in DOMAIN waypoints
  BY <1>1, <1>2, NearestIs, WindowIs
<1>4. max_gap' = max_gap /\ road' = road
  BY <1>1 DEF max_gap, road
<1>5. TypeOK'
  <2>1. /\ course' \in DOMAIN Courses /\ place' \in DOMAIN road'
        /\ gap' \in 0 .. max_gap' /\ pc' \in {"idle", "goals"}
        /\ last_idx' \in DOMAIN waypoints' /\ target' \in [1 .. 4 -> DOMAIN waypoints']
        /\ seen' \in 0 .. Len(road')
    BY <1>1, <1>2, <1>3, <1>4, Values DEF TypeOK
  <2>2. \E d \in Drifts : ego' = Beside(place, d)'
    BY <1>1, <1>2 DEF TypeOK, Beside
  <2> QED BY <2>1, <2>2 DEF TypeOK
<1>6. Tracked'
  BY <1>1, <1>2, <1>5 DEF Tracked, Loaded
<1>7. SinceSearch'
  BY <1>1, <1>2, <1>4, Values DEF SinceSearch
<1>8. ASSUME max_gap + Slack <= Ahead
      PROVE  last_idx - place \in -(Slack + max_gap) .. Slack
  <2>1. place \in Nat /\ gap \in 0 .. max_gap /\ max_gap \in Nat /\ Slack \in Nat /\ last_idx \in Nat
    BY <1>2, Values, CoursesAssumption
  <2>2. CASE seen = 0
    BY <2>1, <2>2 DEF IInv, SinceSearch
  <2>3. CASE seen # 0
    <3>1. Near(last_idx, seen) /\ place = seen + gap /\ seen \in Nat
      BY <1>2, <1>8, <2>3, Values DEF IInv, SinceSearch, OnCourse
    <3> QED BY <2>1, <3>1 DEF Near
  <2> QED BY <2>2, <2>3
<1>9. OnCourse'
  BY <1>1, <1>2, <1>4, <1>8, FoundOnCourse DEF OnCourse, Near
<1>10. Within'
  <2> SUFFICES ASSUME max_gap + Slack <= Ahead,
                      NEW q \in DOMAIN road, NEW e \in Drifts, NEW ld \in Lookaheads,
                      q - place \in 0 .. max_gap
               PROVE  Apart2(waypoints[Nearest(Window)], At(course, q, e)) < ld[4] * ld[4]
    BY <1>1, <1>4 DEF Within
  <2> QED BY <1>2, <1>8, FoundOnCourse
<1> QED BY <1>6, <1>7, <1>9, <1>10 DEF IInv

(* findLookaheadGoal moves only the goals.                                  *)
LEMMA FindLookaheadInv ==
  ASSUME IInv, FindLookahead
  PROVE  IInv'
<1>1. PICK ld \in Lookaheads : target' = [k \in 1 .. 4 |-> Target(ld[k], Visited(ld))]
  BY DEF FindLookahead
<1>2. /\ pc' = "idle" /\ pc = "goals" /\ course' = course /\ waypoints' = waypoints
      /\ place' = place /\ ego' = ego /\ gap' = gap /\ last_idx' = last_idx /\ seen' = seen
  BY DEF FindLookahead
<1>3. Tracked /\ TypeOK /\ SinceSearch
  BY DEF IInv, Tracked
<1>4. target' \in [1 .. 4 -> DOMAIN waypoints]
  BY <1>1, <1>3, TargetType
<1>5. max_gap' = max_gap /\ road' = road
  BY <1>2 DEF max_gap, road
<1>6. TypeOK'
  <2>1. \E d \in Drifts : ego' = Beside(place, d)'
    BY <1>2, <1>3 DEF TypeOK, Beside
  <2> QED BY <1>2, <1>3, <1>4, <1>5, <2>1 DEF TypeOK
<1>7. Tracked'
  BY <1>2, <1>3, <1>6 DEF Tracked, Loaded
<1>8. SinceSearch'
  BY <1>2, <1>3, <1>5 DEF SinceSearch
<1>9. OnCourse' /\ Within'
  BY <1>2, <1>5 DEF IInv, OnCourse, Within, Near
<1> QED BY <1>7, <1>8, <1>9 DEF IInv

(* A fix between search and goals moves only the vehicle.                   *)
LEMMA DriveInv ==
  ASSUME IInv, Drive
  PROVE  IInv'
<1>1. /\ place < Len(road) /\ gap < max_gap /\ place' = place + 1 /\ gap' = gap + 1
      /\ course' = course /\ waypoints' = waypoints /\ pc' = pc /\ last_idx' = last_idx
      /\ target' = target /\ seen' = seen
  BY DEF Drive
<1>2. PICK d \in Drifts : ego' = Beside(place', d)
  BY DEF Drive
<1>3. Tracked /\ TypeOK /\ SinceSearch
  BY DEF IInv, Tracked
<1>4. max_gap' = max_gap /\ road' = road
  BY <1>1 DEF max_gap, road
<1>5. /\ place' \in DOMAIN road /\ gap' \in 0 .. max_gap
  BY <1>1, <1>3, Values
<1>6. TypeOK'
  <2>1. ego' = Beside(place, d)'
    BY <1>1, <1>2 DEF Beside
  <2> QED BY <1>1, <1>3, <1>4, <1>5, <2>1 DEF TypeOK
<1>7. Tracked'
  BY <1>1, <1>3, <1>6 DEF Tracked, Loaded
<1>8. SinceSearch'
  BY <1>1, <1>3, <1>4, Values DEF SinceSearch
<1>9. OnCourse' /\ Within'
  BY <1>1, <1>4 DEF IInv, OnCourse, Within, Near
<1> QED BY <1>7, <1>8, <1>9 DEF IInv

(* Every step keeps the invariant.                                          *)
LEMMA StepInv == IInv /\ [Next]_vars => IInv'
<1> SUFFICES ASSUME IInv, [Next]_vars PROVE IInv'
  OBVIOUS
<1>1. CASE Plan
  BY <1>1, FindClosestInv, FindLookaheadInv DEF Plan
<1>2. CASE Drive
  BY <1>2, DriveInv
<1>3. CASE UNCHANGED vars
  BY <1>3 DEF vars, IInv, Tracked, SinceSearch, OnCourse, Within, TypeOK, Near, Loaded,
              max_gap, road, Beside
<1> QED BY <1>1, <1>2, <1>3 DEF Next

(* When the goals are found, the vehicle has not left the search's place by  *)
(* more than a gap, so the closest waypoint is no goal of the farthest layer. *)
LEMMA ClosestIsWithin ==
  ASSUME IInv, pc = "goals", max_gap + Slack <= Ahead, NEW ld \in Lookaheads
  PROVE  Dist2(last_idx) < ld[4] * ld[4]
<1>1. Tracked /\ SinceSearch /\ Within
  BY DEF IInv
<1>2. seen # 0 /\ seen \in Nat /\ place = seen + gap /\ gap \in 0 .. max_gap /\ max_gap \in Nat
      /\ place \in DOMAIN road
  BY <1>1, Values DEF SinceSearch
<1>3. PICK d \in Drifts : ego = At(course, place, d)
  BY <1>1 DEF Tracked, TypeOK, Beside
<1>4. place - seen \in 0 .. max_gap
  BY <1>2
<1> QED BY <1>1, <1>2, <1>3, <1>4 DEF Within, Dist2

(* The goals a step finds are in order, and none falls back without cause.  *)
LEMMA GoalsStep ==
  ASSUME IInv, Next, pc = "goals", pc' = "idle", NEW k \in 1 .. 4
  PROVE  /\ \A j \in 1 .. k : target'[k] # last_idx =>
              target'[j] # last_idx /\ target'[j] <= target'[k]
         /\ max_gap + Slack <= Ahead /\ target'[k] = last_idx =>
              \E ld \in Lookaheads :
                \A i \in last_idx + 1 .. Len(waypoints) : Dist2(i) < ld[k] * ld[k]
<1>1. FindLookahead
  BY DEF Next, Plan, FindClosest, Drive
<1>2. PICK ld \in Lookaheads : target' = [l \in 1 .. 4 |-> Target(ld[l], Visited(ld))]
  BY <1>1 DEF FindLookahead
<1>3. \A l \in 1 .. 4 : target'[l] = Target(ld[l], Visited(ld))
  BY <1>2
<1>4. Tracked
  BY DEF IInv
<1>5. ASSUME NEW j \in 1 .. k, target'[k] # last_idx
      PROVE  target'[j] # last_idx /\ target'[j] <= target'[k]
  <2>1. j \in 1 .. 4 /\ j <= k
    OBVIOUS
  <2> QED BY <1>3, <1>4, <1>5, <2>1, GoalsInOrder
<1>6. ASSUME max_gap + Slack <= Ahead, target'[k] = last_idx
      PROVE  \A i \in last_idx + 1 .. Len(waypoints) : Dist2(i) < ld[k] * ld[k]
  BY <1>3, <1>4, <1>6, ClosestIsWithin, NoGoalLeft
<1> QED BY <1>5, <1>6

----------------------------------------------------------------------------
(* The inductive invariant, for every course, window and gap.               *)
THEOREM InductiveCorrect == Spec => []IInv
BY InitInv, StepInv, PTL DEF Spec

(* The closest waypoint and all goals are waypoints, whatever the course     *)
(* file holds and however far the vehicle goes without a plan.              *)
THEOREM TypeCorrect == Spec => []TypeOK
<1>1. IInv => TypeOK
  BY DEF IInv, Tracked
<1> QED BY <1>1, InductiveCorrect, PTL

(* On every course that is as CourseAssumption asks, each search finds the   *)
(* part of the course the vehicle is on, although it looks only at a window  *)
(* about its own last result (LatticePlanning.cpp:93-94).                    *)
THEOREM OnCourseCorrect == Spec => []OnCourse
<1>1. IInv => OnCourse
  BY DEF IInv
<1> QED BY <1>1, InductiveCorrect, PTL

(* The goals are in the order of their layers, and a layer falls back on the *)
(* closest waypoint only where none that is left is far enough, although the *)
(* vehicle may pass places between the search and the goals.                *)
THEOREM GoalsReachCorrect == Spec => GoalsReach
<1>1. IInv /\ [Next]_vars =>
        [pc = "goals" /\ pc' = "idle" =>
           \A k \in 1 .. 4 :
             /\ \A j \in 1 .. k : target'[k] # last_idx =>
                  target'[j] # last_idx /\ target'[j] <= target'[k]
             /\ max_gap + Slack <= Ahead /\ target'[k] = last_idx =>
                  \E ld \in Lookaheads :
                    \A i \in last_idx + 1 .. Len(waypoints) : Dist2(i) < ld[k] * ld[k]]_vars
  <2> SUFFICES ASSUME IInv, Next, pc = "goals", pc' = "idle", NEW k \in 1 .. 4
               PROVE  /\ \A j \in 1 .. k : target'[k] # last_idx =>
                           target'[j] # last_idx /\ target'[j] <= target'[k]
                      /\ max_gap + Slack <= Ahead /\ target'[k] = last_idx =>
                           \E ld \in Lookaheads :
                             \A i \in last_idx + 1 .. Len(waypoints) : Dist2(i) < ld[k] * ld[k]
    OBVIOUS
  <2> QED BY GoalsStep
<1> QED BY <1>1, InductiveCorrect, PTL DEF Spec, GoalsReach
=============================================================================
