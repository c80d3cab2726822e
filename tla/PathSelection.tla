--------------------------- MODULE PathSelection ---------------------------
(***************************************************************************)
(* One planning cycle after another of the lattice planners: which goals   *)
(* are laid out, which candidates survive evaluateAllCandidates, which one *)
(* selectBestPath takes, which validity ratios it leaves behind and which  *)
(* target speed follows from them.  A cycle runs under costmap_mutex on    *)
(* the timer thread, so nothing happens between its steps; what lasts from *)
(* one cycle to the next is best_path, last_selected_offset and the three  *)
(* ratios.                                                                 *)
(*                                                                         *)
(* Kept: the order of the candidates in each experiment mode, the window   *)
(* of indices selectBestPath looks at, the term of the cost that depends   *)
(* on the previous selection, the arithmetic of the ratios.  Abstracted:   *)
(* polynomials and costmap cells (a candidate is lethal, or it has a cost  *)
(* of its own), offsets and speeds (integers).                             *)
(***************************************************************************)
EXTENDS Integers, FiniteSets, SequencesExt

CONSTANTS
  Modes,         \* of EXPERIMENT_MODE: "fixed" (0 and 1), "max" (2), "va" (3)
  NumOffsets,    \* planner_params.num_offsets, 13
  EgoColumn,     \* the column of selectBestPath:665, 4
  MaxSamples,    \* MAX_NUM_SAMPLES of mode 2, 32
  BaseSamples,   \* va_params.base_samples by layer
  MaxOffset,     \* MAX_OFFSET and D_max, 8 m
  VehicleCells,  \* vehicle_width_cells, 54
  Scenes         \* what a cycle may find around the vehicle, by mode and name

Layers == {"short", "medium", "long", "very_long"}

ASSUME LayoutAssumption ==
  /\ Modes \subseteq {"fixed", "max", "va"}
  /\ NumOffsets \in Nat /\ NumOffsets % 2 = 1 /\ NumOffsets >= 3
  /\ EgoColumn \in 0 .. NumOffsets - 1
  /\ MaxSamples \in Nat /\ MaxSamples >= 2
  /\ BaseSamples \in [Layers -> Nat]
  /\ MaxOffset \in Nat /\ VehicleCells \in Nat
  \* selectBestPath looks at three columns in the middle of num_offsets, and no layer of
  \* the other modes has fewer than three samples.
  /\ Modes = {"fixed"} \/ NumOffsets \div 2 + 1 < 12

\* A group of selectBestPath, 26 candidates, lies within the narrowest window of mode 3,
\* 27 to each side: two constants that the code never relates to each other.
ASSUME WindowAssumption == 2 * NumOffsets - 1 <= VehicleCells \div 2

\* How far to the side a goal can lie, in any mode.
Reach == IF MaxOffset > NumOffsets \div 2 THEN MaxOffset ELSE NumOffsets \div 2

\* lethal: goals whose path meets a cell of 90 or more; own: the cost terms of
\* a goal's path that do not depend on the past; behind: layers whose goals lie less
\* than 0.1 m ahead; scale: computeSpeedScaleFactor in percent; fast: 8.5 m/s.
ASSUME ScenesAssumption ==
  \A m \in Modes : \A n \in DOMAIN Scenes[m] : LET s == Scenes[m][n] IN
    /\ s.lethal \subseteq Layers \X Int /\ s.behind \subseteq Layers
    /\ Layers \X (-Reach .. Reach) \subseteq DOMAIN s.own
    /\ \A g \in DOMAIN s.own : s.own[g] \in Nat
    /\ s.overtaking \in BOOLEAN /\ s.fast \in BOOLEAN /\ s.scale \in 1 .. 100

VARIABLES
  mode,                   \* EXPERIMENT_MODE, the same for ever
  pc,
  scene,                  \* the name of what this cycle sees
  same,                   \* history: it is what the cycle before has seen
  candidates,             \* by index, from 0
  best_path,
  chosen,                 \* best_idx of selectBestPath; -1 if all were blocked
  last_selected_offset,
  ratios,                 \* ego_, valid_ and very_long_path_ratio as fractions
  target_vel              \* km/h
vars == <<mode, pc, scene, same, candidates, best_path, chosen, last_selected_offset,
          ratios, target_vel>>

Seen == Scenes[mode][scene]

----------------------------------------------------------------------------
(* The layout of the candidates. *)

FinalSampleCount(base, scale) ==
  LET scaled == (base * scale) \div 100
  IN  IF scaled < 2 THEN 3 ELSE 2 * (scaled \div 2) + 1

SampleCount(layer, s) ==
  CASE mode = "fixed" -> NumOffsets
    [] mode = "max"   -> IF MaxSamples % 2 = 0 THEN MaxSamples + 1 ELSE MaxSamples
    [] mode = "va"    -> FinalSampleCount(BaseSamples[layer], s.scale)

\* Column i of n: one metre apart in the fixed layout, else spread over MaxOffset.
LateralOffset(i, n) ==
  LET half == (n - 1) \div 2
  IN  IF mode = "fixed" THEN i - half ELSE (MaxOffset * (i - half)) \div half

LayerOrder(s) ==
  CASE mode = "fixed"           -> <<"very_long", "medium", "long", "short">>
    [] mode = "va" /\ s.fast    -> <<"very_long", "long", "medium", "short">>
    [] mode = "max" \/ (mode = "va" /\ ~s.fast)
                                -> <<"short", "medium", "long", "very_long">>

\* offset_goals: the layers one after the other, each from left to right.
Row(layer, n) ==
  [i \in 1 .. n |-> [layer |-> layer, offset |-> LateralOffset(i - 1, n)]]
Goals(s) ==
  LET row(k) == Row(LayerOrder(s)[k], SampleCount(LayerOrder(s)[k], s))
  IN  row(1) \o row(2) \o row(3) \o row(4)

\* A CandidatePath as its constructor leaves it.
NoPath == [layer |-> "none", offset |-> 0, points |-> FALSE, valid |-> TRUE,
           own |-> 0, cost |-> 0]

Indices == DOMAIN candidates
Valid(i) == candidates[i].valid
Abs(x) == IF x < 0 THEN -x ELSE x

----------------------------------------------------------------------------
Init ==
  /\ mode \in Modes
  /\ pc = "sample"
  /\ scene \in DOMAIN Scenes[mode] /\ same = FALSE
  /\ candidates = << >>
  /\ best_path = NoPath /\ chosen = -1
  /\ last_selected_offset = 0
  /\ ratios = [ego |-> <<1, 1>>, valid |-> <<1, 1>>, very_long |-> <<1, 1>>]
  /\ target_vel = 0

\* The goals are laid out, and each becomes a candidate, with points or without.
Sample ==
  /\ pc = "sample"
  /\ \E n \in DOMAIN Scenes[mode] : \E s \in {Scenes[mode][n]} : \E goals \in {Goals(s)} :
       /\ scene' = n
       /\ same' = (n = scene)
       /\ candidates' = [i \in 0 .. Len(goals) - 1 |->
            [NoPath EXCEPT !.layer  = goals[i + 1].layer,
                           !.offset = goals[i + 1].offset,
                           !.points = goals[i + 1].layer \notin s.behind]]
  /\ pc' = "evaluate"
  /\ UNCHANGED <<mode, best_path, chosen, last_selected_offset, ratios, target_vel>>

\* A candidate without points meets nothing.
Passable(c) == c.points => <<c.layer, c.offset>> \notin Seen.lethal

\* offset_change_cost, and the largest of the valid candidates.
Change(c) == Abs(c.offset - last_selected_offset)
MaxChange ==
  LET changes == {Change(candidates[i]) : i \in {j \in Indices : Passable(candidates[j])}}
  IN  IF changes \subseteq {0} THEN 1 ELSE Max(changes)

\* Its weight; only evaluateAllCandidates knows of overtaking.
ChangeWeight == IF Seen.overtaking /\ mode # "va" THEN 60 ELSE 30

\* Mutant: a change of offset is rewarded.
EvaluateRewardsChange ==
  /\ pc = "evaluate"
  /\ LET widest == MaxChange IN
     candidates' = [i \in Indices |->
       LET c == candidates[i]
           own == Seen.own[<<c.layer, c.offset>>] IN
       [c EXCEPT !.valid = Passable(c),
                 !.own   = own,
                 !.cost  = own * widest + ChangeWeight * (widest - Change(c))]]
  /\ pc' = "select"
  /\ UNCHANGED <<mode, scene, same, best_path, chosen, last_selected_offset, ratios, target_vel>>

\* Costs are multiplied by MaxChange, which leaves their order alone.
Evaluate ==
  /\ pc = "evaluate"
  /\ LET widest == MaxChange IN
     candidates' = [i \in Indices |->
       LET c == candidates[i]
           own == Seen.own[<<c.layer, c.offset>>] IN
       [c EXCEPT !.valid = Passable(c),
                 !.own   = own,
                 !.cost  = own * widest + ChangeWeight * Change(c)]]
  /\ pc' = "select"
  /\ UNCHANGED <<mode, scene, same, best_path, chosen, last_selected_offset, ratios, target_vel>>

----------------------------------------------------------------------------
(* selectBestPath. *)

\* The first index of least cost among the valid ones of first .. last - 1, or -1.
\* (The statics of the hysteresis are never written: last_selected_idx stays -1.)
LeastOf(first, last) ==
  LET top == IF last > Cardinality(Indices) THEN Cardinality(Indices) ELSE last
      scan[i \in first - 1 .. top - 1] ==
        IF i < first THEN -1
        ELSE LET best == scan[i - 1] IN
             IF Valid(i) /\ (best = -1 \/ candidates[i].cost < candidates[best].cost)
             THEN i ELSE best
  IN  IF top <= first THEN -1 ELSE scan[top - 1]

\* Mutant: all four layers are one group.
BestIdxOfAll == LeastOf(0, 4 * NumOffsets)

\* path_groups: the second is looked at only if the first has nothing.
BestIdx ==
  LET far == LeastOf(0, 2 * NumOffsets)
  IN  IF far # -1 THEN far ELSE LeastOf(2 * NumOffsets, 4 * NumOffsets)

Share(S) == <<Cardinality({i \in S : Valid(i)}), Cardinality(S)>>

Around(i, radius) == {j \in Indices : Abs(j - i) <= radius}

\* ego_path_ratio: three columns of each layer of NumOffsets, about EgoColumn.
EgoLane ==
  {j \in Indices : \E i \in Indices :
     i % NumOffsets = EgoColumn /\ Abs(j - i) <= 1 /\ j \div NumOffsets = i \div NumOffsets}

\* Mutants: the centre with two neighbours on each side, or with none.
FarCentreWide ==
  <<Cardinality({i \in 0 .. NumOffsets - 1 : Abs(i - NumOffsets \div 2) <= 2 /\ Valid(i)}), 3>>
FarCentreAlone ==
  <<Cardinality({i \in 0 .. NumOffsets - 1 : Abs(i - NumOffsets \div 2) < 1 /\ Valid(i)}), 3>>

\* very_long_path_ratio: out of three, whatever the layout holds there.
FarCentre ==
  <<Cardinality({i \in 0 .. NumOffsets - 1 : Abs(i - NumOffsets \div 2) <= 1 /\ Valid(i)}), 3>>

\* Mutant: a cycle that finds nothing forgets the offset.
SelectBlockedForgets ==
  /\ pc = "select"
  /\ BestIdx = -1
  /\ chosen' = -1
  /\ best_path' = [best_path EXCEPT !.points = FALSE, !.valid = FALSE]
  /\ last_selected_offset' = 0
  /\ pc' = "measure"
  /\ UNCHANGED <<mode, scene, same, candidates, ratios, target_vel>>

\* Nothing valid: the path is emptied, its offset and the ratios stay.
SelectBlocked ==
  /\ pc = "select"
  /\ BestIdx = -1
  /\ chosen' = -1
  /\ best_path' = [best_path EXCEPT !.points = FALSE, !.valid = FALSE]
  /\ pc' = "measure"
  /\ UNCHANGED <<mode, scene, same, candidates, last_selected_offset, ratios, target_vel>>

SelectBest ==
  /\ pc = "select"
  /\ BestIdx # -1
  /\ chosen' = BestIdx
  /\ best_path' = candidates[BestIdx]
  /\ last_selected_offset' = candidates[BestIdx].offset
  /\ ratios' = [ego |-> IF EgoLane = {} THEN <<0, 1>> ELSE Share(EgoLane),
                valid |-> Share(Around(BestIdx, 2)),
                very_long |-> FarCentre]
  /\ pc' = "measure"
  /\ UNCHANGED <<mode, scene, same, candidates, target_vel>>

----------------------------------------------------------------------------
\* Mutant: the path is looked for by its offset only.
FoundByOffset ==
  LET alike == {i \in Indices : candidates[i].offset = best_path.offset}
  IN  IF alike = {} THEN -1 ELSE Min(alike)

\* calculatePathValidityRatiosVA looks for best_path by offset and validity.
Found ==
  LET alike == {i \in Indices : /\ candidates[i].offset = best_path.offset
                                /\ Valid(i) = best_path.valid}
  IN  IF alike = {} THEN -1 ELSE Min(alike)

RatiosAbout(k) ==
  [ego       |-> Share(Around(k, VehicleCells)),
   valid     |-> Share(Around(k, (VehicleCells * 3) \div 4)),
   very_long |-> Share(Around(k, VehicleCells \div 2))]

\* Mode 3 replaces the ratios, blocked or not; the other modes keep them.
Measure ==
  /\ pc = "measure"
  /\ ratios' = IF mode # "va" THEN ratios
               ELSE IF Found = -1 THEN [ego |-> <<0, 1>>, valid |-> <<0, 1>>, very_long |-> <<0, 1>>]
               ELSE RatiosAbout(Found)
  /\ pc' = "speed"
  /\ UNCHANGED <<mode, scene, same, candidates, best_path, chosen, last_selected_offset, target_vel>>

Below(r, percent) == 100 * r[1] < percent * r[2]

Curves == {"straight", "mild", "medium", "sharp"}
CurveVel == [mild |-> 45, medium |-> 35, sharp |-> 30]
TARGET_VEL == 60
CurveLimit(c) == IF c = "sharp" THEN 40 ELSE TARGET_VEL   \* min(target_vel, v_lim)

\* getTargetSpeed after applyPathEndStop has let it through; c is max_curvature.
TargetSpeed(c) ==
  IF c # "straight" THEN CurveVel[c]
  ELSE IF ~Seen.overtaking THEN TARGET_VEL
  ELSE IF Below(ratios.very_long, 70) THEN 60 ELSE 70

\* getTargetSpeedVA: the three ratios in order of distance.
ObstacleFactor ==
  IF Below(ratios.ego, 70) THEN 60
  ELSE IF Below(ratios.valid, 50) THEN 70
  ELSE IF Below(ratios.very_long, 80) THEN 80
  ELSE 100
TargetSpeedVA(c) == (CurveLimit(c) * ObstacleFactor) \div 100

PathEndVel == {0, 15}     \* applyPathEndStop answers first near the end of the course

SetSpeed ==
  /\ pc = "speed"
  /\ \E c \in IF best_path.points THEN Curves ELSE {"straight"} :
       target_vel' \in {IF mode = "va" THEN TargetSpeedVA(c) ELSE TargetSpeed(c)}
                          \union PathEndVel
  /\ pc' = "sample"
  /\ UNCHANGED <<mode, scene, same, candidates, best_path, chosen, last_selected_offset, ratios>>

Next == Sample \/ Evaluate \/ SelectBlocked \/ SelectBest \/ Measure \/ SetSpeed
Spec == Init /\ [][Next]_vars

----------------------------------------------------------------------------
(* What the planners must keep true. *)

Candidate == [layer : Layers \union {"none"}, offset : Int, points : BOOLEAN,
              valid : BOOLEAN, own : Nat, cost : Nat]

Selected == pc \in {"measure", "speed"}

\* Types; every validity ratio is one of a part to a whole that is not empty: no quotient
\* has a zero below.
TypeOK ==
  /\ pc \in {"sample", "evaluate", "select", "measure", "speed"}
  /\ mode \in Modes /\ scene \in DOMAIN Scenes[mode] /\ same \in BOOLEAN
  /\ \A i \in Indices : candidates[i] \in Candidate
  /\ best_path \in Candidate
  /\ chosen \in -1 .. 4 * NumOffsets - 1
  /\ Selected => chosen \in Indices \union {-1}
  /\ last_selected_offset \in Int
  /\ \A r \in DOMAIN ratios : ratios[r][2] > 0 /\ ratios[r][1] \in 0 .. ratios[r][2]
  /\ target_vel \in 0 .. 70

(* The selection is the cheapest valid candidate of the first two layers   *)
(* of NumOffsets, the leftmost of equals; one of the next two only if none *)
(* of the first is valid; and only if none of all four is valid is the     *)
(* path given up (LatticePlanning.cpp:551-606).                            *)
LeastCost ==
  LET near(i) == i < 2 * NumOffsets
      examined == {i \in Indices : i < 4 * NumOffsets /\ Valid(i)}
      better(i, j) == \/ near(i) /\ ~near(j)
                      \/ /\ near(i) = near(j)
                         /\ \/ candidates[i].cost < candidates[j].cost
                            \/ candidates[i].cost = candidates[j].cost /\ i < j
  IN  Selected => IF examined = {} THEN chosen = -1
                  ELSE chosen \in examined /\ \A j \in examined \ {chosen} : better(chosen, j)

(* Mode 3 looks for the selected path again by its offset and validity,    *)
(* over all the layers (VALatticePlanning.cpp:479-487).  What it finds may *)
(* be a path of another layer, but it is a valid one of the same offset    *)
(* and so near the selected one that each of the three ratios counts both. *)
SelectedCounted ==
  pc = "speed" /\ mode = "va" /\ chosen # -1 =>
    \E k \in Indices :
      /\ Valid(k) /\ candidates[k].offset = candidates[chosen].offset
      /\ ratios = RatiosAbout(k)
      /\ chosen \in Around(k, VehicleCells \div 2)

(* A target speed is reduced for obstacles only in a cycle that has found  *)
(* one, though a blocked cycle of modes 0 to 2 goes by ratios that an      *)
(* earlier one has left (LatticePlanning.cpp:601-606, 885).                *)
FullVels == PathEndVel \union {30, 35, 45, 70} \union
            (IF Seen.overtaking /\ mode # "va" THEN {} ELSE {TARGET_VEL, 40})
SlowForCause ==
  pc = "sample" /\ target_vel \notin FullVels => \E i \in Indices : ~Valid(i)

\* The candidates examined that would keep the offset.
Keepers == {i \in Indices : /\ i < 4 * NumOffsets /\ Valid(i)
                            /\ candidates[i].offset = best_path.offset}

(* The selection moves to another offset only for lower costs of those     *)
(* that do not depend on the past: lower than those of the path selected   *)
(* before, if the scene is unchanged, and lower, whatever has come between *)
(* (a blocked cycle, another scene), than those of every candidate that    *)
(* would keep the offset, in the same group of layers: it cannot chatter   *)
(* (LatticePlanning.cpp:456, 497, 594-606).                                *)
NoChatter ==
  [][pc = "select" /\ chosen' # -1 /\ best_path'.offset # best_path.offset =>
       /\ same /\ chosen # -1 => best_path'.own < best_path.own
       /\ \A i \in Keepers : (i < 2 * NumOffsets <=> chosen' < 2 * NumOffsets)
                             => best_path'.own < candidates[i].own]_vars

(* So when the scene stays, the selected offset comes to rest. *)
Settles ==
  <>[](pc = "select" => same)
    => <>[][last_selected_offset' = last_selected_offset]_vars

----------------------------------------------------------------------------
(* What a comment of the code says, and the code does not do.               *)

(* The path is given up when all paths are blocked (LatticePlanning.cpp:    *)
(* 600-602).  selectBestPath looks at the first four times num_offsets     *)
(* candidates only; modes 2 and 3 lay out more.                            *)
AllBlocked == Selected /\ chosen = -1 => \A i \in Indices : ~Valid(i)

(* The ratios of mode 3 are those about the index of the path that          *)
(* selectBestPath has selected (VALatticePlanning.cpp:479).  The path is    *)
(* looked for by offset and validity, which another layer may share.       *)
SelectedFound == pc = "measure" /\ mode = "va" /\ chosen # -1 => Found = chosen
=============================================================================
