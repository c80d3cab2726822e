-------------------------- MODULE ControlLoopProofs --------------------------
(***************************************************************************)
(* Proofs about ControlLoop for every Route and every MaxOnsets.  The      *)
(* invariants the runs check are not inductive; each part of IInv says     *)
(* what the timer thread may rely on between two of its reads.             *)
(***************************************************************************)
EXTENDS ControlLoop, TLAPS

(* The course is a non-empty sequence of pairs of integers. *)
LEMMA RouteType ==
  /\ Len(Route) \in Nat /\ Len(Route) >= 1
  /\ \A i \in 1 .. Len(Route) : Route[i] \in Int \X Int
BY RouteAssumption

(* The type invariant holds of every behaviour. *)
THEOREM TypeCorrect == Spec => []TypeOK
<1>1. Init => TypeOK
  <2>. SUFFICES ASSUME Init PROVE TypeOK
    OBVIOUS
  <2>1. at \in 1 .. Len(Route)
    BY RouteType DEF Init
  <2>2. best_path \in [valid : BOOLEAN, points : Ages] /\ cmd \in [steering : Steers, vel : Vels]
    BY DEF Init, Ages, Steers, Vels
  <2>3. ego \in Int \X Int /\ fix \in Int \X Int /\ pend \in SUBSET Coords
    BY DEF Init
  <2>4. /\ gps_jamming_perception \in BOOLEAN /\ costmap \in BOOLEAN
        /\ path_end_latched \in BOOLEAN /\ prev_jamming \in BOOLEAN
        /\ seen \in SUBSET BOOLEAN
    BY DEF Init
  <2>5. /\ pc = "idle" /\ branch = "clear" /\ gps_steering \in Ages
        /\ steering \in Steers /\ target_vel \in Vels
    BY DEF Init, Ages, Vels, Steers
  <2>6. /\ onsets \in Nat /\ recoveries \in Nat /\ jamming_count \in Nat
        /\ staleLane \in Nat /\ stalePath \in Nat
    BY DEF Init
  <2>. QED
    BY <2>1, <2>2, <2>3, <2>4, <2>5, <2>6 DEF TypeOK
<1>2. ASSUME TypeOK, [Next]_vars
      PROVE  TypeOK'
  <2>. USE DEF TypeOK, Coords, Ages, Vels, Steers, planVars, gpsVars, statVars,
               flagVars, staleVars, env, loopVars
  <2>1. CASE GpsJammed
    BY <1>2, <2>1 DEF GpsJammed
  <2>2. CASE GpsClear
    <3>1. fix' \in Int \X Int /\ pend' \in SUBSET Coords
      BY <1>2, <2>2, RouteType DEF GpsClear
    <3>2. recoveries' \in Nat
      BY <1>2, <2>2 DEF GpsClear
    <3>3. gps_jamming_perception' \in BOOLEAN
      BY <2>2, Zenon DEF GpsClear
    <3>4. UNCHANGED <<onsets, ego, costmap, loopVars, at>>
      BY <2>2 DEF GpsClear
    <3>. QED
      BY <1>2, <3>1, <3>2, <3>3, <3>4
  <2>3. CASE GpsStore
    BY <1>2, <2>3 DEF GpsStore
  <2>4. CASE CostmapCallback
    BY <1>2, <2>4 DEF CostmapCallback
  <2>5. CASE Drive
    BY <1>2, <2>5, RouteType DEF Drive
  <2>6. CASE LoopStart
    BY <1>2, <2>6 DEF LoopStart
  <2>7. CASE PlanWaiting
    BY <1>2, <2>7 DEF PlanWaiting
  <2>8. CASE Plan
    <3>1. best_path' \in [valid : BOOLEAN, points : Ages]
      <4>1. \/ best_path' = [valid |-> FALSE, points |-> "none"]
            \/ best_path' = [valid |-> TRUE, points |-> "none"]
            \/ best_path' = [valid |-> TRUE, points |-> "fresh"]
        BY <2>8, Zenon DEF Plan
      <4>2. /\ [valid |-> FALSE, points |-> "none"] \in [valid : BOOLEAN, points : Ages]
            /\ [valid |-> TRUE, points |-> "none"] \in [valid : BOOLEAN, points : Ages]
            /\ [valid |-> TRUE, points |-> "fresh"] \in [valid : BOOLEAN, points : Ages]
        OBVIOUS
      <4>. QED
        BY <4>1, <4>2, Zenon
    <3>2. target_vel' \in Vels
      BY <2>8 DEF Plan, PlannedVel
    <3>3. path_end_latched' \in BOOLEAN
      <4>1. path_end_latched' = (PlannedVel = "stop")
        BY <2>8, Zenon DEF Plan
      <4>. QED
        BY <4>1, Zenon
    <3>4. pc' = "control" /\ UNCHANGED <<env, branch, gps_steering, statVars, steering, cmd, staleVars>>
      BY <2>8 DEF Plan
    <3>. QED
      BY <1>2, <3>1, <3>2, <3>3, <3>4
  <2>9. CASE PlanLane
    BY <1>2, <2>9 DEF PlanLane
  <2>10. CASE CountJamming
    BY <1>2, <2>10 DEF CountJamming
  <2>11. CASE MarkJamming
    BY <1>2, <2>11 DEF MarkJamming
  <2>12. CASE DecideSteering
    BY <1>2, <2>12 DEF DecideSteering
  <2>13. CASE PublishCmd
    BY <1>2, <2>13 DEF PublishCmd, Aged
  <2>14. CASE UNCHANGED vars
    BY <1>2, <2>14 DEF vars
  <2>. QED
    BY <1>2, <2>1, <2>2, <2>3, <2>4, <2>5, <2>6, <2>7, <2>8, <2>9, <2>10,
       <2>11, <2>12, <2>13, <2>14 DEF Next, Gps, Loop
<1>. QED
  BY <1>1, <1>2, PTL DEF Spec

(* Every step keeps the counter below the onsets. *)
LEMMA CountStep == ASSUME TypeOK, CountInv, [Next]_vars PROVE CountInv'
<1>. USE DEF TypeOK, CountInv, CountBounded, planVars, gpsVars, statVars,
            flagVars, staleVars, env, loopVars
<1>1. CASE GpsJammed
  <2>1. CASE gps_jamming_perception
    BY <1>1, <2>1 DEF GpsJammed
  <2>2. CASE ~gps_jamming_perception
    <3>1. onsets' = onsets + 1 /\ UNCHANGED <<pc, prev_jamming, seen, jamming_count>>
      BY <1>1, <2>2 DEF GpsJammed
    <3>2. jamming_count' < onsets' /\ jamming_count' <= onsets'
      BY <3>1
    <3>3. pc' = "mark" /\ seen' = {} => prev_jamming'
      BY <3>1
    <3>. QED
      BY <3>2, <3>3, Zenon
  <2>. QED
    BY <2>1, <2>2
<1>2. CASE GpsClear
  BY <1>2 DEF GpsClear
<1>3. CASE GpsStore
  BY <1>3 DEF GpsStore
<1>4. CASE CostmapCallback
  BY <1>4 DEF CostmapCallback
<1>5. CASE Drive
  BY <1>5 DEF Drive
<1>6. CASE LoopStart
  BY <1>6 DEF LoopStart
<1>7. CASE PlanWaiting
  BY <1>7 DEF PlanWaiting
<1>8. CASE Plan
  BY <1>8 DEF Plan
<1>9. CASE PlanLane
  BY <1>9 DEF PlanLane
<1>10. CASE CountJamming
  <2>0. pc = "count" /\ pc' = "mark" /\ UNCHANGED <<gps_jamming_perception, onsets, prev_jamming>>
    BY <1>10 DEF CountJamming
  <2>1. CASE prev_jamming
    <3>1. seen' = {} /\ jamming_count' = jamming_count
      BY <1>10, <2>1 DEF CountJamming
    <3>. QED
      BY <2>0, <2>1, <3>1
  <2>2. CASE ~prev_jamming /\ gps_jamming_perception
    <3>1. seen' = {TRUE} /\ jamming_count' = jamming_count + 1
      <4>1. seen' = {gps_jamming_perception}
        BY <1>10, <2>2, Zenon DEF CountJamming
      <4>2. gps_jamming_perception = TRUE
        BY <2>2
      <4>3. jamming_count' = jamming_count + 1
        BY <1>10, <2>2 DEF CountJamming
      <4>. QED
        BY <4>1, <4>2, <4>3, Zenon
    <3>2. jamming_count' <= onsets'
      BY <2>0, <2>2, <3>1
    <3>3. seen' # {} /\ FALSE \notin seen'
      BY <3>1
    <3>. QED
      BY <2>0, <3>2, <3>3
  <2>3. CASE ~prev_jamming /\ ~gps_jamming_perception
    <3>1. seen' # {} /\ jamming_count' = jamming_count
      BY <1>10, <2>3 DEF CountJamming
    <3>. QED
      BY <2>0, <2>3, <3>1
  <2>. QED
    BY <2>1, <2>2, <2>3
<1>11. CASE MarkJamming
  <2>1. pc = "mark" /\ pc' = "control" /\ UNCHANGED <<gps_jamming_perception, onsets, jamming_count>>
    BY <1>11 DEF MarkJamming
  <2>2. ~prev_jamming' /\ gps_jamming_perception => FALSE \in seen
    <3>1. prev_jamming' \in {gps_jamming_perception} \union seen
      BY <1>11, Zenon DEF MarkJamming
    <3>. QED
      BY <3>1
  <2>. QED
    BY <2>1, <2>2
<1>12. CASE DecideSteering
  BY <1>12 DEF DecideSteering
<1>13. CASE PublishCmd
  BY <1>13 DEF PublishCmd
<1>14. CASE UNCHANGED vars
  BY <1>14 DEF vars
<1>. QED
  BY <1>1, <1>2, <1>3, <1>4, <1>5, <1>6, <1>7, <1>8, <1>9, <1>10, <1>11, <1>12, <1>13, <1>14 DEF Next, Gps, Loop

(* Every step keeps the bound on commands steered by an old result. *)
LEMMA StaleStep == ASSUME TypeOK, StaleInv, [Next]_vars PROVE StaleInv'
<1>. USE DEF TypeOK, StaleInv, StaleBounded, Ages, planVars, gpsVars, statVars,
            flagVars, staleVars, env, loopVars
<1>1. CASE GpsJammed
  BY <1>1 DEF GpsJammed
<1>2. CASE GpsClear
  BY <1>2 DEF GpsClear
<1>3. CASE GpsStore
  BY <1>3 DEF GpsStore
<1>4. CASE CostmapCallback
  BY <1>4 DEF CostmapCallback
<1>5. CASE Drive
  BY <1>5 DEF Drive
<1>6. CASE LoopStart
  BY <1>6 DEF LoopStart
<1>7. CASE PlanWaiting
  BY <1>7 DEF PlanWaiting
<1>8. CASE Plan
  BY <1>8 DEF Plan
<1>9. CASE PlanLane
  BY <1>9 DEF PlanLane
<1>10. CASE CountJamming
  BY <1>10 DEF CountJamming
<1>11. CASE MarkJamming
  BY <1>11 DEF MarkJamming
<1>12. CASE DecideSteering
  BY <1>12 DEF DecideSteering
<1>13. CASE PublishCmd
  <2>1. /\ pc' = "idle"
        /\ UNCHANGED <<flagVars, costmap, staleVars>>
    BY <1>13 DEF PublishCmd
  <2>2. best_path.points = "none" => best_path'.points = "none"
    BY <1>13 DEF PublishCmd, Aged
  <2>. QED
    BY <2>1, <2>2
<1>14. CASE UNCHANGED vars
  BY <1>14 DEF vars
<1>. QED
  BY <1>1, <1>2, <1>3, <1>4, <1>5, <1>6, <1>7, <1>8, <1>9, <1>10, <1>11, <1>12, <1>13, <1>14 DEF Next, Gps, Loop

(* Every step keeps what the latch promises. *)
LEMMA LatchStep == ASSUME TypeOK, LatchInv, [Next]_vars PROVE LatchInv'
<1>. USE DEF TypeOK, LatchInv, LatchHolds, planVars, gpsVars, statVars,
            flagVars, staleVars, env, loopVars
<1>1. CASE GpsJammed
  BY <1>1 DEF GpsJammed
<1>2. CASE GpsClear
  BY <1>2 DEF GpsClear
<1>3. CASE GpsStore
  BY <1>3 DEF GpsStore
<1>4. CASE CostmapCallback
  BY <1>4 DEF CostmapCallback
<1>5. CASE Drive
  BY <1>5 DEF Drive
<1>6. CASE LoopStart
  BY <1>6 DEF LoopStart
<1>7. CASE PlanWaiting
  BY <1>7 DEF PlanWaiting
<1>8. CASE Plan
  BY <1>8 DEF Plan
<1>9. CASE PlanLane
  BY <1>9 DEF PlanLane
<1>10. CASE CountJamming
  BY <1>10 DEF CountJamming
<1>11. CASE MarkJamming
  BY <1>11 DEF MarkJamming
<1>12. CASE DecideSteering
  BY <1>12 DEF DecideSteering
<1>13. CASE PublishCmd
  BY <1>13 DEF PublishCmd
<1>14. CASE UNCHANGED vars
  BY <1>14 DEF vars
<1>. QED
  BY <1>1, <1>2, <1>3, <1>4, <1>5, <1>6, <1>7, <1>8, <1>9, <1>10, <1>11, <1>12, <1>13, <1>14 DEF Next, Gps, Loop

(* Every step keeps the vehicle still until there is input. *)
LEMMA MotionStep == ASSUME TypeOK, MotionInv, [Next]_vars PROVE MotionInv'
<1>. USE DEF TypeOK, MotionInv, MotionNeedsInput, planVars, gpsVars, statVars,
            flagVars, staleVars, env, loopVars
<1>1. CASE GpsJammed
  BY <1>1 DEF GpsJammed
<1>2. CASE GpsClear
  BY <1>2 DEF GpsClear
<1>3. CASE GpsStore
  BY <1>3 DEF GpsStore
<1>4. CASE CostmapCallback
  BY <1>4 DEF CostmapCallback
<1>5. CASE Drive
  BY <1>5 DEF Drive
<1>6. CASE LoopStart
  BY <1>6 DEF LoopStart
<1>7. CASE PlanWaiting
  BY <1>7 DEF PlanWaiting
<1>8. CASE Plan
  BY <1>8 DEF Plan
<1>9. CASE PlanLane
  BY <1>9 DEF PlanLane
<1>10. CASE CountJamming
  BY <1>10 DEF CountJamming
<1>11. CASE MarkJamming
  BY <1>11 DEF MarkJamming
<1>12. CASE DecideSteering
  BY <1>12 DEF DecideSteering
<1>13. CASE PublishCmd
  BY <1>13 DEF PublishCmd
<1>14. CASE UNCHANGED vars
  BY <1>14 DEF vars
<1>. QED
  BY <1>1, <1>2, <1>3, <1>4, <1>5, <1>6, <1>7, <1>8, <1>9, <1>10, <1>11, <1>12, <1>13, <1>14 DEF Next, Gps, Loop

(* Every step stores only coordinates of places the vehicle has been at. *)
LEMMA PoseStep == ASSUME TypeOK, PoseInv, [Next]_vars PROVE PoseInv'
<1>. USE DEF PoseInv, PoseProvenance, gpsVars, env, loopVars
<1>1. CASE GpsJammed
  BY <1>1 DEF GpsJammed
<1>2. CASE GpsClear
  <2>1. fix' = Route[at] /\ pend' = Coords /\ at \in 1 .. at /\ UNCHANGED <<ego, at>>
    BY <1>2, RouteType DEF GpsClear, TypeOK
  <2>. QED
    BY <2>1
<1>3. CASE GpsStore
  <2>1. PICK c \in pend : ego' = [ego EXCEPT ![c] = fix[c]] /\ pend' = pend \ {c}
    BY <1>3 DEF GpsStore
  <2>2. UNCHANGED <<fix, at>>
    BY <1>3 DEF GpsStore
  <2>3. c \in Coords /\ ego'[c] = fix[c] /\ \A d \in Coords \ {c} : ego'[d] = ego[d]
    BY <2>1 DEF TypeOK, Coords
  <2>. QED
    BY <2>1, <2>2, <2>3
<1>4. CASE Drive
  <2>1. at' = at + 1 /\ at \in Nat /\ UNCHANGED <<ego, fix, pend>>
    BY <1>4, RouteType DEF Drive, TypeOK
  <2>2. 1 .. at \subseteq 1 .. at'
    BY <2>1
  <2>. QED
    BY <2>1, <2>2
<1>5. CASE UNCHANGED <<ego, fix, pend, at>>
  BY <1>5
<1>. QED
  <2>1. CASE CostmapCallback
    BY <2>1, <1>5 DEF CostmapCallback
  <2>2. CASE Loop
    <3>1. UNCHANGED <<ego, fix, pend, at>>
      BY <2>2 DEF Loop, LoopStart, PlanWaiting, Plan, PlanLane, CountJamming, MarkJamming, DecideSteering, PublishCmd
    <3>. QED
      BY <3>1, <1>5
  <2>3. CASE UNCHANGED vars
    BY <2>3, <1>5 DEF vars
  <2>. QED
    BY <1>1, <1>2, <1>3, <1>4, <2>1, <2>2, <2>3 DEF Next, Gps

(* The counter of jamming never exceeds the number of times jamming began. *)
THEOREM CountCorrect == Spec => []CountBounded
<1>1. Init => CountInv
  BY DEF Init, CountInv, CountBounded
<1>2. CountInv => CountBounded
  BY DEF CountInv
<1>. QED
  BY <1>1, <1>2, TypeCorrect, CountStep, PTL DEF Spec

(* At most one command steered by an old result goes out for each change   *)
(* of the jamming flag, and in each direction.                             *)
THEOREM StaleCorrect == Spec => []StaleBounded
<1>1. Init => StaleInv
  BY DEF Init, StaleInv, StaleBounded
<1>2. StaleInv => StaleBounded
  BY DEF StaleInv
<1>. QED
  BY <1>1, <1>2, TypeCorrect, StaleStep, PTL DEF Spec

(* A latched path end is left only by a cycle that has seen jamming. *)
THEOREM LatchCorrect == Spec => []LatchHolds
<1>1. Init => LatchInv
  BY DEF Init, LatchInv, LatchHolds
<1>2. LatchInv => LatchHolds
  BY DEF LatchInv
<1>. QED
  BY <1>1, <1>2, TypeCorrect, LatchStep, PTL DEF Spec

(* No motion is asked for without a costmap or jamming. *)
THEOREM MotionCorrect == Spec => []MotionNeedsInput
<1>1. Init => MotionInv
  BY DEF Init, MotionInv, MotionNeedsInput
<1>2. MotionInv => MotionNeedsInput
  BY DEF MotionInv
<1>. QED
  BY <1>1, <1>2, TypeCorrect, MotionStep, PTL DEF Spec

(* The planner reads only coordinates of places the vehicle has been at. *)
THEOREM PoseCorrect == Spec => []PoseProvenance
<1>1. Init => PoseInv
  <2>1. ASSUME Init, NEW c \in Coords PROVE ego[c] = 0
    BY <2>1 DEF Init, Coords
  <2>. QED
    BY <2>1 DEF Init, PoseInv, PoseProvenance
<1>2. PoseInv => PoseProvenance
  BY DEF PoseInv
<1>. QED
  BY <1>1, <1>2, TypeCorrect, PoseStep, PTL DEF Spec

(* What is published is what was decided. *)
LEMMA DecidedStep == ASSUME TypeOK, DecidedInv, [Next]_vars PROVE DecidedInv'
<1>. USE DEF DecidedInv, env, loopVars
<1>1. CASE Gps \/ CostmapCallback \/ Drive
  BY <1>1 DEF Gps, GpsJammed, GpsClear, GpsStore, CostmapCallback, Drive
<1>2. CASE DecideSteering
  BY <1>2 DEF DecideSteering
<1>3. CASE Loop /\ ~DecideSteering
  <2>1. pc' # "publish"
    BY <1>3 DEF Loop, LoopStart, PlanWaiting, Plan, PlanLane, CountJamming,
                MarkJamming, PublishCmd
  <2>. QED
    BY <2>1
<1>4. CASE UNCHANGED vars
  BY <1>4 DEF vars
<1>. QED
  BY <1>1, <1>2, <1>3, <1>4 DEF Next

(* The node implements JammingArbiter: a write of the flag is a Change or  *)
(* a stutter, DecideSteering is Choose, PublishCmd is Emit.                *)
THEOREM ArbiterCorrect == Spec => ArbiterSafety
<1>1. Init => Arbiter!Init
  BY DEF Init, Arbiter!Init
<1>2. Init => DecidedInv
  BY DEF Init, DecidedInv
<1>3. ASSUME TypeOK, DecidedInv, [Next]_vars PROVE [Arbiter!Next]_(Arbiter!vars)
  <2>. USE DEF env, loopVars, flagVars, Arbiter!vars
  <2>1. CASE UNCHANGED <<gps_jamming_perception, pc, steering, cmd>>
    BY <2>1
  <2>2. CASE GpsJammed \/ GpsClear
    <3>1. UNCHANGED <<pc, steering, cmd>>
      BY <2>2 DEF GpsJammed, GpsClear
    <3>2. CASE gps_jamming_perception' = gps_jamming_perception
      BY <2>1, <3>1, <3>2
    <3>3. CASE gps_jamming_perception' # gps_jamming_perception
      <4>1. gps_jamming_perception' = ~gps_jamming_perception
        <5>1. gps_jamming_perception' = TRUE \/ gps_jamming_perception' = FALSE
          BY <2>2, Zenon DEF GpsJammed, GpsClear
        <5>2. gps_jamming_perception \in BOOLEAN
          BY <1>3 DEF TypeOK
        <5>. QED
          BY <3>3, <5>1, <5>2, Zenon
      <4>. QED
        BY <3>1, <4>1 DEF Arbiter!Next, Arbiter!Change
    <3>. QED
      BY <3>2, <3>3
  <2>3. CASE DecideSteering
    <3>1. pc = "control" /\ pc' = "publish" /\ UNCHANGED <<gps_jamming_perception, cmd>>
      BY <2>3 DEF DecideSteering
    <3>2. IF gps_jamming_perception THEN steering' = "lane" ELSE steering' # "lane"
      BY <2>3 DEF DecideSteering
    <3>. QED
      BY <3>1, <3>2 DEF Arbiter!Next, Arbiter!Choose
  <2>4. CASE PublishCmd
    <3>1. /\ pc = "publish" /\ pc' = "idle"
          /\ cmd' = [steering |-> steering, vel |-> target_vel]
          /\ UNCHANGED gps_jamming_perception
      BY <2>4 DEF PublishCmd
    <3>2. steering # "none" /\ (steering = "lane" => target_vel = "jam")
      BY <1>3, <3>1 DEF DecidedInv
    <3>. QED
      BY <3>1, <3>2 DEF Arbiter!Next, Arbiter!Emit
  <2>5. CASE LoopStart \/ PlanWaiting \/ Plan \/ PlanLane \/ CountJamming \/ MarkJamming
    <3>1. pc # "publish" /\ pc' # "publish" /\ UNCHANGED <<gps_jamming_perception, cmd>>
      BY <2>5 DEF LoopStart, PlanWaiting, Plan, PlanLane, CountJamming, MarkJamming
    <3>. QED
      BY <3>1
  <2>6. CASE GpsStore \/ CostmapCallback \/ Drive
    BY <2>1, <2>6 DEF GpsStore, CostmapCallback, Drive
  <2>7. CASE UNCHANGED vars
    BY <2>1, <2>7 DEF vars
  <2>. QED
    BY <1>3, <2>2, <2>3, <2>4, <2>5, <2>6, <2>7, Zenon DEF Next, Gps, Loop
<1>. QED
  BY <1>1, <1>2, <1>3, TypeCorrect, DecidedStep, PTL DEF Spec, ArbiterSafety, Arbiter!Spec

(* The inductive invariant the runs check holds of every behaviour. *)
THEOREM InductiveCorrect == Spec => []IInv
<1>1. Init => CountInv /\ StaleInv /\ LatchInv /\ MotionInv /\ DecidedInv
  BY DEF Init, CountInv, CountBounded, StaleInv, StaleBounded, LatchInv, LatchHolds,
         MotionInv, MotionNeedsInput, DecidedInv
<1>2. Init => PoseInv
  <2>1. ASSUME Init, NEW c \in Coords PROVE ego[c] = 0
    BY <2>1 DEF Init, Coords
  <2>. QED
    BY <2>1 DEF Init, PoseInv, PoseProvenance
<1>. QED
  BY <1>1, <1>2, TypeCorrect, CountStep, StaleStep, LatchStep, MotionStep, PoseStep,
     DecidedStep, PTL DEF Spec, IInv
=============================================================================
