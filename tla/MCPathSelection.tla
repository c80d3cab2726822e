-------------------------- MODULE MCPathSelection --------------------------
(* PathSelection for TLC: obstacles that block layers on one side, on the   *)
(* centre line or everywhere.                                              *)
EXTENDS PathSelection

\* f @@ << >> is f; it makes TLC compute the values of f once.

Columns == -8 .. 8
Right == {o \in Columns : o >= 0}
NearGoals == {"short", "medium", "long"}
Obstacle ==
  << {}, {"very_long"} \X {0}, {"very_long"} \X Right, NearGoals \X Columns,
     NearGoals \X Right, Layers \X Columns, Layers \X {0} >>

\* Costs in percent: a slope towards the right, an obstacle in the middle, and
\* a centre line that is smoother for the near goals.
Goal == Layers \X Columns
Own ==
  [slope  |-> [g \in Goal |-> IF g[2] <= 0 THEN 30 - g[2] ELSE IF g[2] = 1 THEN 12 ELSE 0] @@ << >>,
   apart  |-> [g \in Goal |-> IF g[2] = 0 THEN 45 ELSE Abs(g[2])] @@ << >>,
   centre |-> [g \in Goal |-> 10 * Abs(g[2]) +
     (CASE g[1] = "very_long" -> 5 [] g[1] = "medium" -> 3 [] OTHER -> 0)] @@ << >>]

Scene(n, overtaking, behind, scale, fast) ==
  [lethal |-> Obstacle[n[1]], own |-> Own[n[2]], overtaking |-> overtaking,
   behind |-> behind, scale |-> scale, fast |-> fast]

\* Modes 0 and 1: the road ahead, or the last metres with the far goal reached.
MCScenesFixed ==
  [n \in (DOMAIN Obstacle) \X 
         {<<"slope", TRUE>>, <<"slope", FALSE>>, <<"apart", FALSE>>, <<"centre", FALSE>>} |->
     Scene(<<n[1], n[2][1]>>, n[2][2], IF n[2][1] = "centre" THEN {"very_long"} ELSE {},
           100, FALSE)] @@ << >>

\* Mode 3: every sample, or at most 60 percent of them, near or far goals first.
MCScenesVA ==
  [n \in (DOMAIN Obstacle) \X ({"apart"} \X {<<60, FALSE>>, <<100, TRUE>>} \union
                               {"centre"} \X {<<60, TRUE>>, <<100, FALSE>>}) |->
     Scene(<<n[1], n[2][1]>>, FALSE, {}, n[2][2][1], n[2][2][2])] @@ << >>

\* Mode 2 in miniature: seven samples a layer, of which the first twenty are examined.
MCScenesMax == [n \in (DOMAIN Obstacle) \X {"centre"} |-> Scene(n, FALSE, {}, 100, FALSE)]

MCScenes == [fixed |-> MCScenesFixed, va |-> MCScenesVA, max |-> MCScenesMax]

MCBaseSamples == [short |-> 9, medium |-> 8, long |-> 8, very_long |-> 8]
=============================================================================
