--------------------------- MODULE JammingArbiter ---------------------------
(***************************************************************************)
(* What mainControlLoop promises of GPS jamming: the environment raises    *)
(* and lowers a flag, and again and again the node chooses its source of   *)
(* steering by the value the flag has at that moment, then puts out one    *)
(* command from that source.  Lane steering always goes with the speed for *)
(* jamming.  Planning, waypoints, costmaps and counters are absent.        *)
(***************************************************************************)
VARIABLES
  jammed,   \* GPS is reported jammed
  choice,   \* the source chosen for the command under way, or "none"
  output,   \* the source of the last command, or "none"
  speed     \* its speed: the one for jamming, or another

vars == <<jammed, choice, output, speed>>

Init == jammed = FALSE /\ choice = "none" /\ output = "none" /\ speed = "planned"

Change == jammed' = ~jammed /\ UNCHANGED <<choice, output, speed>>

Choose ==
  /\ choice = "none"
  /\ choice' = IF jammed THEN "lane" ELSE "path"
  /\ UNCHANGED <<jammed, output, speed>>

\* The planner's speed may be one left behind by a jammed cycle.
Emit ==
  /\ choice # "none"
  /\ output' = choice
  /\ speed' \in IF choice = "lane" THEN {"jam"} ELSE {"jam", "planned"}
  /\ choice' = "none"
  /\ UNCHANGED jammed

Next == Change \/ Choose \/ Emit

Spec == Init /\ [][Next]_vars
FairSpec == Spec /\ WF_vars(Choose) /\ WF_vars(Emit)
=============================================================================
