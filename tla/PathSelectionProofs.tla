------------------------ MODULE PathSelectionProofs ------------------------
(* The safety of PathSelection for every layout, every set of scenes and    *)
(* every course of cycles.                                                 *)
EXTENDS PathSelection, DataLemmas, FiniteSetTheorems, TLAPS

\* The candidates are those of the scene at hand; there are none before the first cycle.
AsLaidOut(i) ==
  LET g == Goals(Seen)[i + 1] IN
    /\ candidates[i].layer = g.layer /\ candidates[i].offset = g.offset
    /\ candidates[i].points = (g.layer \notin Seen.behind)
LayoutInv ==
  \/ Indices = {} /\ pc = "sample" /\ chosen = -1
  \/ Indices = 0 .. Len(Goals(Seen)) - 1 /\ \A i \in Indices : AsLaidOut(i)

OwnCost(c) == Seen.own[<<c.layer, c.offset>>]

\* Once evaluated, validity and costs go by the scene; until the selection the cost is
\* that of a change from the last selected offset.
EvaluatedInv ==
  /\ pc # "evaluate" => \A i \in Indices :
       candidates[i].own = OwnCost(candidates[i]) /\ Valid(i) = Passable(candidates[i])
  /\ pc = "select" => \E widest \in Nat \ {0} : \A i \in Indices :
       candidates[i].cost = candidates[i].own * widest + ChangeWeight * Change(candidates[i])

Near(i) == i < 2 * NumOffsets

\* The selection is remembered until the scene changes: the path and why it was taken.
Remembered ==
  /\ chosen \in Indices
  /\ best_path.layer = candidates[chosen].layer
  /\ best_path.offset = candidates[chosen].offset
  /\ best_path.points = candidates[chosen].points
  /\ best_path.own = OwnCost(best_path) /\ Passable(best_path)
  /\ ~Near(chosen) => \A i \in Indices : Near(i) => ~Passable(candidates[i])

MemoryInv ==
  /\ last_selected_offset = best_path.offset
  /\ chosen # -1 /\ (pc \notin {"evaluate", "select"} \/ same) => Remembered

AllValid == \A i \in Indices : Valid(i)

\* What the ratios say before and after they are measured again.
RatioInv ==
  /\ DOMAIN ratios = {"ego", "valid", "very_long"}
  /\ \A r \in DOMAIN ratios : ratios[r] \in Nat \X Nat
  /\ Selected /\ chosen = -1 => ~AllValid
  /\ pc = "measure" /\ chosen # -1 => best_path = candidates[chosen] /\ Valid(chosen)
  /\ Selected /\ AllValid /\ mode # "va" => ratios.very_long[1] = ratios.very_long[2]
  /\ pc = "speed" /\ AllValid /\ mode = "va" =>
       \A r \in {ratios.ego, ratios.valid, ratios.very_long} : r[1] = r[2]

IInv ==
  /\ TypeOK /\ LayoutInv /\ EvaluatedInv /\ MemoryInv
  /\ LeastCost /\ RatioInv /\ SelectedCounted /\ SlowForCause

----------------------------------------------------------------------------
(* selectBestPath: the loop over a group of candidates (LatticePlanning.cpp *)
(* 557-591).                                                               *)

\* The valid candidates of first .. last - 1.
Window(first, last) == {i \in Indices : first <= i /\ i < last /\ Valid(i)}

\* k is the first of the cheapest in W, or -1 if W is empty.
IsLeast(k, W) ==
  \/ k = -1 /\ W = {}
  \/ k \in W /\ \A j \in W : \/ candidates[k].cost < candidates[j].cost
                             \/ candidates[k].cost = candidates[j].cost /\ k <= j

(* The loop finds the first of the cheapest valid candidates of its group,  *)
(* wherever the layout ends.                                               *)
LEMMA LeastOfIsLeast ==
  ASSUME NEW n \in Nat, Indices = 0 .. n - 1,
         \A i \in Indices : candidates[i].cost \in Int /\ candidates[i].valid \in BOOLEAN,
         NEW first \in Nat, NEW last \in Nat
  PROVE  IsLeast(LeastOf(first, last), Window(first, last))
<1> DEFINE top == IF last > n THEN n ELSE last
<1>1. Cardinality(Indices) = n
  BY FS_Interval
<1>2. top \in Nat /\ top <= n /\ top <= last
  OBVIOUS
<1>3. Window(first, last) = Window(first, top)
  BY DEF Window
<1> HIDE DEF top
<1>4. CASE top <= first
  <2>1. Window(first, top) = {}
    BY <1>2, <1>4 DEF Window
  <2>2. LeastOf(first, last) = -1
    BY <1>1, <1>4 DEF LeastOf, top
  <2> QED BY <1>3, <2>1, <2>2 DEF IsLeast
<1>5. CASE ~(top <= first)
  <2> DEFINE Pick(k, w) == IF Valid(k) /\ (w = -1 \/ candidates[k].cost < candidates[w].cost)
                           THEN k ELSE w
             Body(f) == [i \in first - 1 .. top - 1 |->
                           IF i < first THEN -1 ELSE LET best == f[i - 1] IN Pick(i, best)]
             V == {-1} \union first .. top - 1
             step == [k \in first .. top - 1 |-> [w \in V |-> Pick(k, w)]]
  <2>1. PICK g : g = Body(g)
    <3>1. step \in [first .. top - 1 -> [V -> V]]
      OBVIOUS
    <3>2. first - 1 \in Int /\ top - 1 \in Int /\ first - 1 <= top - 1 /\ first - 1 + 1 = first
      BY <1>2, <1>5
    <3>3. PICK f \in [first - 1 .. top - 1 -> V] : Runs(f, first - 1, top - 1, -1, step)
      <4> DEFINE a == first - 1
                 b == top - 1
                 none == -1
      <4>1. none \in V
        OBVIOUS
      <4>2. a \in Int /\ b \in Int /\ a <= b
        BY <3>2
      <4>3. step \in [a + 1 .. b -> [V -> V]]
        BY <3>1, <3>2
      <4> HIDE DEF V, step, a, b, none
      <4>4. \E f \in [a .. b -> V] : Runs(f, a, b, none, step)
        BY <4>1, <4>2, <4>3, Iteration
      <4> QED BY <4>4 DEF a, b, none
    <3>4. ASSUME NEW k \in first - 1 .. top - 1
          PROVE  f[k] = IF k < first THEN -1 ELSE Pick(k, f[k - 1])
      <4>1. CASE k = first - 1
        <5> HIDE DEF V, step, Pick
        <5>1. f[k] = -1
          BY <3>3, <4>1 DEF Runs
        <5>2. k < first
          BY <3>2, <4>1
        <5> QED BY <5>1, <5>2
      <4>2. CASE k # first - 1
        <5>1. k \in first .. top - 1 /\ k - 1 \in first - 1 .. top - 1 /\ ~(k < first)
          <6> HIDE DEF V, step, Pick
          <6> QED BY <4>2, <3>2, <1>2
        <5>2. f[k - 1] \in V
          BY <5>1, <3>3
        <5>3. f[k] = step[k][f[k - 1]]
          <6> HIDE DEF V, step, Pick
          <6> QED BY <3>2, <3>3, <5>1 DEF Runs
        <5> HIDE DEF V, Pick
        <5>4. f[k] = Pick(k, f[k - 1])
          BY <5>1, <5>2, <5>3
        <5> QED BY <5>1, <5>4
      <4> QED BY <4>1, <4>2
    <3>5. f = Body(f)
      <4> HIDE DEF Pick, V, step
      <4> QED BY <3>3, <3>4
    <3> QED BY <3>5
  <2> DEFINE scan == CHOOSE f : f = Body(f)
  <2>2. scan = Body(scan)
    <3> HIDE DEF Body
    <3> QED BY <2>1
  <2>3. LeastOf(first, last) = scan[top - 1]
    BY <1>1, <1>5 DEF LeastOf, top
  <2>4. ASSUME NEW k \in first - 1 .. top - 1
        PROVE  scan[k] = IF k < first THEN -1 ELSE Pick(k, scan[k - 1])
    <3> HIDE DEF scan, Pick
    <3> QED BY <2>2
  <2> HIDE DEF scan
  <2> DEFINE Wrong == {m \in Nat : first - 1 + m <= top - 1 /\
                                   ~IsLeast(scan[first - 1 + m], Window(first, first + m))}
  <2>5. ASSUME Wrong # {} PROVE FALSE
    <3>1. PICK m \in Wrong : \A l \in Wrong : m <= l
      <4> Wrong \subseteq Nat
        OBVIOUS
      <4> HIDE DEF Wrong
      <4> QED BY <2>5, LeastNat
    <3>2. m \in Nat /\ first - 1 + m <= top - 1
          /\ ~IsLeast(scan[first - 1 + m], Window(first, first + m))
      OBVIOUS
    <3>3. CASE m = 0
      <4>1. Window(first, first + m) = {}
        BY <3>3 DEF Window
      <4>2. scan[first - 1 + m] = -1
        BY <2>4, <3>2, <3>3
      <4> QED BY <3>2, <4>1, <4>2 DEF IsLeast
    <3>4. CASE m # 0
      <4> DEFINE k == first - 1 + m
      <4>1. k \in first .. top - 1 /\ k \in Indices /\ k - 1 \in first - 1 .. top - 1
        BY <3>2, <3>4, <1>2
      <4>2. scan[k] = Pick(k, scan[k - 1])
        <5> HIDE DEF k, Pick
        <5> QED BY <2>4, <4>1
      <4>3. IsLeast(scan[k - 1], Window(first, k))
        <5>1. m - 1 \in Nat /\ first - 1 + (m - 1) = k - 1 /\ k - 1 <= top - 1
              /\ first + (m - 1) = k
          BY <3>2, <3>4, <1>2
        <5>2. m - 1 \notin Wrong
          <6> HIDE DEF Wrong
          <6> QED BY <3>1, <3>2
        <5> HIDE DEF k
        <5> QED BY <5>1, <5>2
      <4>4. k + 1 = first + m
        BY <3>2
      <4> HIDE DEF k
      <4>5. Window(first, k + 1) = Window(first, k) \union (IF Valid(k) THEN {k} ELSE {})
        BY <4>1 DEF Window
      <4>6. \A j \in Window(first, k) : j \in Indices /\ j \in Int /\ j < k /\ j >= 0
        BY DEF Window
      <4>7. CASE ~Valid(k)
        BY <4>2, <4>3, <4>4, <4>5, <4>7, <3>2 DEF k
      <4>8. CASE Valid(k) /\ scan[k - 1] = -1
        <5>1. Window(first, k) = {}
          BY <4>3, <4>6, <4>8 DEF IsLeast
        <5>2. scan[k] = k
          BY <4>2, <4>8
        <5>3. IsLeast(k, {k})
          BY <4>1 DEF IsLeast
        <5> QED BY <5>1, <5>2, <5>3, <4>4, <4>5, <4>8, <3>2 DEF k
      <4>9. CASE Valid(k) /\ scan[k - 1] # -1
        <5>1. scan[k - 1] \in Window(first, k) /\ \A j \in Window(first, k) :
                \/ candidates[scan[k - 1]].cost < candidates[j].cost
                \/ candidates[scan[k - 1]].cost = candidates[j].cost /\ scan[k - 1] <= j
          BY <4>3, <4>9 DEF IsLeast
        <5>2. candidates[k].cost \in Int /\ candidates[scan[k - 1]].cost \in Int
              /\ scan[k - 1] \in Int /\ scan[k - 1] < k /\ k \in Int
          BY <4>1, <4>6, <5>1
        <5>3. \A j \in Window(first, k) : candidates[j].cost \in Int /\ j \in Int /\ j < k
          BY <4>6
        <5>4. Window(first, k + 1) = Window(first, k) \union {k}
          BY <4>5, <4>9
        <5>5. CASE candidates[k].cost < candidates[scan[k - 1]].cost
          <6>1. scan[k] = k
            BY <4>2, <4>9, <5>5
          <6>2. \A j \in Window(first, k) : candidates[k].cost < candidates[j].cost
            BY <5>1, <5>2, <5>3, <5>5
          <6>3. IsLeast(k, Window(first, k) \union {k})
            BY <6>2, <5>2 DEF IsLeast
          <6> QED BY <6>1, <6>3, <5>4, <4>4, <3>2 DEF k
        <5>6. CASE ~(candidates[k].cost < candidates[scan[k - 1]].cost)
          <6>1. scan[k] = scan[k - 1]
            BY <4>2, <4>9, <5>6
          <6>2. IsLeast(scan[k - 1], Window(first, k) \union {k})
            BY <5>1, <5>2, <5>6 DEF IsLeast
          <6> QED BY <6>1, <6>2, <5>4, <4>4, <3>2 DEF k
        <5> QED BY <5>5, <5>6
      <4> QED BY <4>7, <4>8, <4>9
    <3> QED BY <3>3, <3>4
  <2>6. IsLeast(scan[top - 1], Window(first, top))
    <3>1. top - first \in Nat /\ first - 1 + (top - first) = top - 1 /\ first + (top - first) = top
      BY <1>2, <1>5
    <3>2. top - first \notin Wrong
      BY <2>5
    <3> QED BY <3>1, <3>2
  <2> QED BY <2>3, <2>6, <1>3
<1> QED BY <1>4, <1>5

----------------------------------------------------------------------------
(* The layout: every layer has a middle and two sides.                      *)

(* A quotient is bounded where its dividend is.                             *)
LEMMA QuotientBound ==
  ASSUME NEW a \in Int, NEW b \in Nat \ {0}, NEW m \in Nat, a <= m * b, -(m * b) <= a
  PROVE  a \div b \in -m .. m
<1>1. PICK q \in Int : q = a \div b /\ b * q <= a /\ a < b * q + b
  BY Quotient
<1>2. q <= m
  <2>1. SUFFICES ASSUME q >= m + 1 PROVE FALSE
    OBVIOUS
  <2>2. b * q >= b * (m + 1)
    BY <2>1
  <2> QED BY <1>1, <2>2
<1>3. -m <= q
  <2>1. SUFFICES ASSUME q + 1 <= -m PROVE FALSE
    OBVIOUS
  <2>2. b * (q + 1) <= b * (-m)
    BY <2>1
  <2> QED BY <1>1, <2>2
<1> QED BY <1>1, <1>2, <1>3

(* A product with a bounded factor is bounded.                              *)
LEMMA ProductBound ==
  ASSUME NEW a \in Int, NEW b \in Nat, NEW m \in Nat, a <= b, -b <= a
  PROVE  m * a \in Int /\ m * a <= m * b /\ -(m * b) <= m * a
OBVIOUS

IsScene(s) == \E n \in DOMAIN Scenes[mode] : s = Scenes[mode][n]
IsCount(n) == n \in Nat /\ n >= 3 /\ n % 2 = 1 /\ (mode = "fixed" => n = NumOffsets)

(* Each mode samples an odd number of goals per layer, three or more.       *)
LEMMA SampleCounts ==
  ASSUME mode \in Modes, NEW layer \in Layers, NEW s, IsScene(s)
  PROVE  IsCount(SampleCount(layer, s))
<1>1. mode \in {"fixed", "max", "va"}
  BY LayoutAssumption
<1>2. CASE mode = "fixed"
  BY <1>2, LayoutAssumption DEF SampleCount, IsCount
<1>3. CASE mode = "max"
  BY <1>3, LayoutAssumption DEF SampleCount, IsCount
<1>4. CASE mode = "va"
  <2>1. s.scale \in 1 .. 100 /\ BaseSamples[layer] \in Nat
    BY ScenesAssumption, LayoutAssumption DEF IsScene
  <2>2. PICK scaled \in Int : scaled = (BaseSamples[layer] * s.scale) \div 100
    BY <2>1
  <2>3. SampleCount(layer, s) = IF scaled < 2 THEN 3 ELSE 2 * (scaled \div 2) + 1
    BY <1>4, <2>2 DEF SampleCount, FinalSampleCount
  <2>4. scaled >= 2 => scaled \div 2 >= 1 /\ scaled \div 2 \in Int
    OBVIOUS
  <2> QED BY <1>4, <2>3, <2>4 DEF IsCount
<1> QED BY <1>1, <1>2, <1>3, <1>4

(* No goal lies farther to the side than Reach.                             *)
LEMMA LateralBound ==
  ASSUME mode \in Modes, NEW n, IsCount(n), NEW i \in 0 .. n - 1
  PROVE  LateralOffset(i, n) \in -Reach .. Reach
<1>1. MaxOffset \in Nat /\ NumOffsets \in Nat /\ NumOffsets % 2 = 1 /\ n \in Nat /\ n >= 3 /\ n % 2 = 1
  BY LayoutAssumption DEF IsCount
<1>2. PICK half \in Nat \ {0} : half = (n - 1) \div 2 /\ 2 * half = n - 1 /\ half = n \div 2
  BY <1>1
<1>3. Reach \in Nat /\ Reach >= MaxOffset /\ Reach >= NumOffsets \div 2
  BY <1>1 DEF Reach
<1>4. i - half \in Int /\ i - half <= half /\ -half <= i - half
  BY <1>1, <1>2
<1>5. CASE mode = "fixed"
  <2>1. half <= Reach
    BY <1>2, <1>3, <1>5 DEF IsCount
  <2>2. LateralOffset(i, n) = i - half
    BY <1>2, <1>5 DEF LateralOffset
  <2> QED BY <1>3, <1>4, <2>1, <2>2
<1>6. CASE mode # "fixed"
  <2>1. LateralOffset(i, n) = (MaxOffset * (i - half)) \div half
    BY <1>2, <1>6 DEF LateralOffset
  <2>2. (MaxOffset * (i - half)) \div half \in -MaxOffset .. MaxOffset
    BY <1>1, <1>4, ProductBound, QuotientBound
  <2> QED BY <1>1, <1>3, <2>1, <2>2
<1> QED BY <1>5, <1>6

(* Two sequences one after the other are as long as both.                   *)
LEMMA Concatenation ==
  ASSUME NEW G, NEW s \in Seq(G), NEW u \in Seq(G)
  PROVE  s \o u \in Seq(G) /\ Len(s \o u) = Len(s) + Len(u)
OBVIOUS

Goal == [layer : Layers, offset : -Reach .. Reach]

(* The goals of a scene: twelve or more, in the fixed layout four rows.     *)
LEMMA GoalsType ==
  ASSUME mode \in Modes, NEW s, IsScene(s)
  PROVE  /\ Goals(s) \in Seq(Goal) /\ Len(Goals(s)) \in Nat /\ Len(Goals(s)) >= 12
         /\ mode = "fixed" => Len(Goals(s)) = 4 * NumOffsets
<1> DEFINE layer(k) == LayerOrder(s)[k]
           count(k) == SampleCount(layer(k), s)
           row(k) == Row(layer(k), count(k))
<1>1. \A k \in 1 .. 4 : layer(k) \in Layers
  <2>1. mode \in {"fixed", "max", "va"} /\ s.fast \in BOOLEAN
    BY LayoutAssumption, ScenesAssumption DEF IsScene
  <2> QED BY <2>1 DEF LayerOrder, Layers
<1>2. \A k \in 1 .. 4 : IsCount(count(k))
  <2> HIDE DEF layer
  <2> QED BY <1>1, SampleCounts
<1>3. ASSUME NEW k \in 1 .. 4 PROVE row(k) \in Seq(Goal) /\ Len(row(k)) = count(k)
  <2> HIDE DEF layer
  <2>1. layer(k) \in Layers /\ IsCount(count(k))
    BY <1>1, <1>2
  <2> HIDE DEF count
  <2>2. count(k) \in Nat
    BY <2>1 DEF IsCount
  <2>3. \A i \in 1 .. count(k) : LateralOffset(i - 1, count(k)) \in -Reach .. Reach
    BY <2>1, <2>2, LateralBound
  <2>4. \A i \in 1 .. count(k) :
          [layer |-> layer(k), offset |-> LateralOffset(i - 1, count(k))] \in Goal
    BY <2>1, <2>3 DEF Goal
  <2>5. row(k) \in [1 .. count(k) -> Goal]
    BY <2>4 DEF Row
  <2> HIDE DEF row
  <2> QED BY <2>2, <2>5
<1>4. Goals(s) = row(1) \o row(2) \o row(3) \o row(4)
  BY DEF Goals
<1> HIDE DEF row
<1>5. Goals(s) \in Seq(Goal) /\ Len(Goals(s)) = count(1) + count(2) + count(3) + count(4)
  <2>1. row(1) \in Seq(Goal) /\ row(2) \in Seq(Goal) /\ row(3) \in Seq(Goal) /\ row(4) \in Seq(Goal)
    BY <1>3
  <2>2. Len(row(1)) = count(1) /\ Len(row(2)) = count(2) /\ Len(row(3)) = count(3) /\ Len(row(4)) = count(4)
    BY <1>3
  <2>3. row(1) \o row(2) \in Seq(Goal) /\ Len(row(1) \o row(2)) = Len(row(1)) + Len(row(2))
    BY <2>1, Concatenation
  <2>4. row(1) \o row(2) \o row(3) \in Seq(Goal)
        /\ Len(row(1) \o row(2) \o row(3)) = Len(row(1) \o row(2)) + Len(row(3))
    BY <2>1, <2>3, Concatenation
  <2>5. Goals(s) \in Seq(Goal)
        /\ Len(Goals(s)) = Len(row(1) \o row(2) \o row(3)) + Len(row(4))
    BY <2>1, <2>4, <1>4, Concatenation
  <2> HIDE DEF count
  <2> QED BY <2>2, <2>3, <2>4, <2>5
<1>6. IsCount(count(1)) /\ IsCount(count(2)) /\ IsCount(count(3)) /\ IsCount(count(4))
  BY <1>2
<1> HIDE DEF count
<1>7. \A k \in {1, 2, 3, 4} : count(k) \in Nat /\ count(k) >= 3 /\ (mode = "fixed" => count(k) = NumOffsets)
  BY <1>6 DEF IsCount
<1>8. Len(Goals(s)) \in Nat /\ Len(Goals(s)) >= 12
  BY <1>5, <1>7
<1>9. mode = "fixed" => Len(Goals(s)) = 4 * NumOffsets
  <2> NumOffsets \in Nat
    BY LayoutAssumption
  <2> QED BY <1>5, <1>7
<1> QED BY <1>5, <1>8, <1>9

----------------------------------------------------------------------------
(* The state at hand.                                                       *)

(* A scene has a cost for every goal that can be laid out.                  *)
LEMMA SeenFacts ==
  ASSUME mode \in Modes, scene \in DOMAIN Scenes[mode]
  PROVE  /\ IsScene(Seen) /\ Seen.overtaking \in BOOLEAN
         /\ \A l \in Layers : \A o \in -Reach .. Reach : Seen.own[<<l, o>>] \in Nat
<1>1. IsScene(Seen)
  BY DEF IsScene, Seen
<1>2. /\ Seen.overtaking \in BOOLEAN
      /\ Layers \X (-Reach .. Reach) \subseteq DOMAIN Seen.own
      /\ \A g \in DOMAIN Seen.own : Seen.own[g] \in Nat
  BY ScenesAssumption DEF Seen
<1> QED BY <1>1, <1>2

(* The candidates of a cycle under way are numbered from 0, there are twelve *)
(* or more, and each lies in a layer and within reach.                      *)
LEMMA CandidateFacts ==
  ASSUME TypeOK, LayoutInv
  PROVE  /\ \E n \in Nat : /\ Indices = 0 .. n - 1
                           /\ pc # "sample" \/ chosen # -1 => n >= 12
                           /\ pc # "sample" /\ mode = "fixed" => n = 4 * NumOffsets
         /\ \A i \in Indices : /\ i \in Nat /\ candidates[i] \in Candidate
                               /\ candidates[i].layer \in Layers
                               /\ candidates[i].offset \in -Reach .. Reach
                               /\ OwnCost(candidates[i]) \in Nat
<1>1. CASE Indices = {} /\ pc = "sample" /\ chosen = -1
  <2>1. Indices = 0 .. 0 - 1
    BY <1>1
  <2> QED BY <1>1, <2>1
<1>2. CASE Indices = 0 .. Len(Goals(Seen)) - 1 /\ \A i \in Indices : AsLaidOut(i)
  <2>1. IsScene(Seen) /\ mode \in Modes /\ scene \in DOMAIN Scenes[mode]
    BY SeenFacts DEF TypeOK
  <2> DEFINE goals == Goals(Seen)
             n == Len(goals)
  <2>2. goals \in Seq(Goal) /\ n \in Nat /\ n >= 12 /\ (mode = "fixed" => n = 4 * NumOffsets)
    BY <2>1, GoalsType
  <2>3. ASSUME NEW i \in Indices
        PROVE  /\ i \in Nat /\ candidates[i] \in Candidate
               /\ candidates[i].layer \in Layers /\ candidates[i].offset \in -Reach .. Reach
               /\ OwnCost(candidates[i]) \in Nat
    <3>1. i \in Nat /\ i + 1 \in 1 .. n
      <4> HIDE DEF goals
      <4> QED BY <1>2, <2>2 DEF goals
    <3>2. goals[i + 1] \in Goal
      <4> HIDE DEF goals
      <4> QED BY <2>2, <3>1
    <3>3. candidates[i].layer = goals[i + 1].layer /\ candidates[i].offset = goals[i + 1].offset
      BY <1>2 DEF AsLaidOut
    <3> HIDE DEF goals
    <3>4. candidates[i].layer \in Layers /\ candidates[i].offset \in -Reach .. Reach
      BY <3>2, <3>3 DEF Goal
    <3>5. OwnCost(candidates[i]) \in Nat
      BY <3>4, <2>1, SeenFacts DEF OwnCost
    <3>6. candidates[i] \in Candidate
      BY DEF TypeOK
    <3> QED BY <3>1, <3>4, <3>5, <3>6
  <2>4. Indices = 0 .. n - 1
    BY <1>2
  <2> HIDE DEF n
  <2> QED BY <2>2, <2>3, <2>4
<1> QED BY <1>1, <1>2 DEF LayoutInv

IsFraction(f) == f \in Nat \X Nat /\ f[2] > 0 /\ f[1] \in 0 .. f[2]

(* A share of some candidates is a fraction, whole if all are valid.        *)
LEMMA ShareOfSome ==
  ASSUME NEW n \in Nat, Indices = 0 .. n - 1, NEW S \in SUBSET Indices, NEW i \in S
  PROVE  /\ IsFraction(Share(S))
         /\ (\A j \in S : Valid(j)) => Share(S)[1] = Share(S)[2]
<1> DEFINE Part == {j \in S : Valid(j)}
<1>1. IsFiniteSet(Indices)
  BY FS_Interval
<1>2. IsFiniteSet(S) /\ IsFiniteSet(Part)
  BY <1>1, FS_Subset
<1>3. Cardinality(Part) \in Nat /\ Cardinality(S) \in Nat /\ Cardinality(Part) <= Cardinality(S)
  BY <1>2, FS_Subset, FS_CardinalityType
<1>4. Cardinality(S) # 0
  BY <1>2, FS_EmptySet
<1>5. (\A j \in S : Valid(j)) => Part = S
  OBVIOUS
<1>6. Share(S) = <<Cardinality(Part), Cardinality(S)>>
  BY DEF Share
<1> HIDE DEF Part
<1> QED BY <1>3, <1>4, <1>5, <1>6 DEF IsFraction

(* The three in the middle of the first row are counted out of three.       *)
LEMMA FarCentreIsFraction ==
  ASSUME NEW n \in Nat, Indices = 0 .. n - 1
  PROVE  /\ IsFraction(FarCentre)
         /\ AllValid /\ n > NumOffsets \div 2 + 1 => FarCentre[1] = FarCentre[2]
<1> DEFINE half == NumOffsets \div 2
           Part == {i \in 0 .. NumOffsets - 1 : Abs(i - half) <= 1 /\ Valid(i)}
<1>1. half \in Nat /\ half >= 1 /\ half + 1 <= NumOffsets - 1 /\ NumOffsets \in Nat
  BY LayoutAssumption
<1>2. FarCentre = <<Cardinality(Part), 3>>
  BY DEF FarCentre
<1> HIDE DEF half
<1>3. Part \subseteq half - 1 .. half + 1
  BY <1>1 DEF Abs
<1>4. IsFiniteSet(half - 1 .. half + 1) /\ Cardinality(half - 1 .. half + 1) = 3
  BY <1>1, FS_Interval
<1>5. IsFiniteSet(Part) /\ Cardinality(Part) \in Nat /\ Cardinality(Part) <= 3
  <2> HIDE DEF Part
  <2> QED BY <1>3, <1>4, FS_Subset, FS_CardinalityType
<1>6. ASSUME AllValid, n > half + 1 PROVE Cardinality(Part) = 3
  <2>1. half - 1 .. half + 1 \subseteq Part
    BY <1>1, <1>6 DEF AllValid, Abs
  <2>2. Part = half - 1 .. half + 1
    BY <1>3, <2>1
  <2> HIDE DEF Part
  <2> QED BY <2>2, <1>4
<1> HIDE DEF Part
<1> QED BY <1>2, <1>5, <1>6 DEF IsFraction, half

(* Measured at a candidate, a ratio about it is a fraction, whole if all are *)
(* valid.                                                                   *)
LEMMA AroundIsFraction ==
  ASSUME NEW n \in Nat, Indices = 0 .. n - 1, NEW i \in Indices, NEW radius \in Nat
  PROVE  /\ IsFraction(Share(Around(i, radius)))
         /\ AllValid => Share(Around(i, radius))[1] = Share(Around(i, radius))[2]
<1>1. Around(i, radius) \in SUBSET Indices /\ i \in Around(i, radius)
  BY DEF Around, Abs
<1> HIDE DEF Indices
<1> QED BY <1>1, ShareOfSome DEF AllValid

(* The largest change of offset, by which costs are multiplied, is not zero. *)
LEMMA MaxChangePositive ==
  ASSUME TypeOK, LayoutInv
  PROVE  /\ MaxChange \in Nat \ {0}
         /\ \A i \in Indices : Change(candidates[i]) \in Nat
<1>1. \A i \in Indices : candidates[i].offset \in -Reach .. Reach
  BY CandidateFacts
<1>2. Reach \in Nat /\ last_selected_offset \in Int
  BY LayoutAssumption DEF Reach, TypeOK
<1> DEFINE high == Reach + Abs(last_selected_offset)
<1>3. high \in Nat /\ \A i \in Indices : Change(candidates[i]) \in Nat /\ Change(candidates[i]) <= high
  BY <1>1, <1>2 DEF Change, Abs
<1> DEFINE changes == {Change(candidates[i]) : i \in {j \in Indices : Passable(candidates[j])}}
<1>4. changes \subseteq Nat /\ \A x \in changes : x <= high
  <2> HIDE DEF high
  <2> QED BY <1>3
<1>5. CASE changes \subseteq {0}
  BY <1>3, <1>5 DEF MaxChange
<1>6. CASE ~(changes \subseteq {0})
  <2>1. MaxChange = Max(changes)
    BY <1>6 DEF MaxChange
  <2> HIDE DEF changes, high
  <2>2. changes # {} /\ changes \subseteq Int /\ high \in Int
    BY <1>3, <1>4, <1>6
  <2>3. Max(changes) \in changes /\ \A y \in changes : Max(changes) >= y
    BY <2>2, <1>4, MaxInt
  <2>4. PICK y \in changes : y # 0
    BY <1>6
  <2>5. Max(changes) \in Nat /\ y \in Nat /\ Max(changes) >= y
    BY <2>3, <2>4, <1>4
  <2>6. Max(changes) \in Nat \ {0}
    BY <2>4, <2>5
  <2> QED BY <2>1, <2>6, <1>3
<1> QED BY <1>5, <1>6

(* selectBestPath takes the first of the cheapest of the first two rows, or *)
(* else of the next two, or else nothing.                                   *)
LEMMA BestIdxIsLeast ==
  ASSUME TypeOK, NEW n \in Nat, Indices = 0 .. n - 1
  PROVE  LET near == Window(0, 2 * NumOffsets)
             far  == Window(2 * NumOffsets, 4 * NumOffsets)
         IN  /\ BestIdx = -1 <=> near = {} /\ far = {}
             /\ near # {} => IsLeast(BestIdx, near) /\ BestIdx \in near
             /\ near = {} /\ far # {} => IsLeast(BestIdx, far) /\ BestIdx \in far
<1> DEFINE near == Window(0, 2 * NumOffsets)
           far  == Window(2 * NumOffsets, 4 * NumOffsets)
           first == LeastOf(0, 2 * NumOffsets)
           second == LeastOf(2 * NumOffsets, 4 * NumOffsets)
<1>1. \A i \in Indices : candidates[i].cost \in Int /\ candidates[i].valid \in BOOLEAN
  BY DEF TypeOK, Candidate
<1>2. 0 \in Nat /\ 2 * NumOffsets \in Nat /\ 4 * NumOffsets \in Nat
  BY LayoutAssumption
<1>3. IsLeast(first, near)
  BY <1>1, <1>2, LeastOfIsLeast
<1>4. IsLeast(second, far)
  BY <1>1, <1>2, LeastOfIsLeast
<1>5. BestIdx = IF first # -1 THEN first ELSE second
  BY DEF BestIdx
<1>6. -1 \notin near /\ -1 \notin far
  BY DEF Window
<1> HIDE DEF near, far, first, second
<1>7. (first = -1 <=> near = {}) /\ (near # {} => first \in near)
  BY <1>3, <1>6 DEF IsLeast
<1>8. (second = -1 <=> far = {}) /\ (far # {} => second \in far)
  BY <1>4, <1>6 DEF IsLeast
<1>9. /\ BestIdx = -1 <=> near = {} /\ far = {}
      /\ near # {} => IsLeast(BestIdx, near) /\ BestIdx \in near
      /\ near = {} /\ far # {} => IsLeast(BestIdx, far) /\ BestIdx \in far
  BY <1>3, <1>4, <1>5, <1>7, <1>8
<1> QED BY <1>9 DEF near, far

(* What is looked for by offset and validity is found if it is there, and    *)
(* what is found is the first of its kind.                                  *)
LEMMA FoundIsAlike ==
  ASSUME NEW n \in Nat, Indices = 0 .. n - 1
  PROVE  /\ Found # -1 => /\ Found \in Indices
                          /\ candidates[Found].offset = best_path.offset
                          /\ Valid(Found) = best_path.valid
         /\ \A i \in Indices :
              candidates[i].offset = best_path.offset /\ Valid(i) = best_path.valid
                => Found # -1 /\ Found <= i
<1> DEFINE alike == {i \in Indices : /\ candidates[i].offset = best_path.offset
                                     /\ Valid(i) = best_path.valid}
<1>1. CASE alike = {}
  BY <1>1 DEF Found
<1>2. CASE alike # {}
  <2>1. Found = Min(alike)
    BY <1>2 DEF Found
  <2> DEFINE low == 0
  <2>2. low \in Int /\ alike \subseteq Int /\ \A i \in alike : low <= i
    OBVIOUS
  <2>3. Found \in alike /\ \A i \in alike : Found <= i
    <3> HIDE DEF alike, low
    <3> QED BY <1>2, <2>1, <2>2, MinInt
  <2>4. /\ Found \in Indices /\ candidates[Found].offset = best_path.offset
        /\ Valid(Found) = best_path.valid
    BY <2>3
  <2>5. Found # -1
    BY <2>4
  <2>6. \A i \in Indices :
          candidates[i].offset = best_path.offset /\ Valid(i) = best_path.valid => Found <= i
    BY <2>3
  <2> HIDE DEF alike
  <2> QED BY <2>4, <2>5, <2>6
<1> QED BY <1>1, <1>2

----------------------------------------------------------------------------
(* The steps of a cycle leave the scene alone.                              *)

(* What is seen and laid out depends on the mode and the scene alone.       *)
LEMMA SceneUnchanged ==
  ASSUME mode' = mode, scene' = scene
  PROVE  /\ Seen' = Seen /\ Goals(Seen)' = Goals(Seen) /\ ChangeWeight' = ChangeWeight
<1>1. Seen' = Seen
  BY DEF Seen
<1>2. Goals(Seen)' = Goals(Seen)
  BY <1>1 DEF Goals, Row, SampleCount, LayerOrder, LateralOffset
<1>3. ChangeWeight' = ChangeWeight
  BY <1>1 DEF ChangeWeight
<1> QED BY <1>1, <1>2, <1>3

(* A new cycle lays out the goals of the scene it finds.                    *)
LEMMA SceneFound ==
  ASSUME NEW n, mode' = mode, scene' = n
  PROVE  Seen' = Scenes[mode][n] /\ Goals(Seen)' = Goals(Scenes[mode][n])
<1>1. Seen' = Scenes[mode][n]
  BY DEF Seen
<1>2. Goals(Seen)' = Goals(Scenes[mode][n])
  BY <1>1 DEF Goals, Row, SampleCount, LayerOrder, LateralOffset
<1> QED BY <1>1, <1>2

----------------------------------------------------------------------------
(* Types.                                                                   *)

(* The first state satisfies the inductive invariant.                       *)
LEMMA InitInv == Init => IInv
<1> SUFFICES ASSUME Init PROVE IInv
  OBVIOUS
<1>1. Indices = {}
  BY DEF Init, Indices
<1>2. TypeOK
  <2>1. NumOffsets \in Nat /\ NumOffsets >= 3
    BY LayoutAssumption
  <2>2. best_path \in Candidate
    BY DEF Init, NoPath, Candidate
  <2>3. \A r \in DOMAIN ratios : ratios[r][2] > 0 /\ ratios[r][1] \in 0 .. ratios[r][2]
    BY DEF Init
  <2>4. chosen \in -1 .. 4 * NumOffsets - 1 /\ target_vel \in 0 .. 70 /\ last_selected_offset \in Int
    BY <2>1 DEF Init
  <2>5. mode \in Modes /\ scene \in DOMAIN Scenes[mode] /\ same \in BOOLEAN /\ pc = "sample"
    BY DEF Init
  <2> QED BY <1>1, <2>2, <2>3, <2>4, <2>5 DEF TypeOK, Selected
<1>3. LayoutInv /\ EvaluatedInv
  BY <1>1 DEF Init, LayoutInv, EvaluatedInv
<1>4. MemoryInv
  BY DEF Init, MemoryInv, NoPath
<1>5. LeastCost /\ SelectedCounted /\ SlowForCause
  BY DEF Init, LeastCost, SelectedCounted, SlowForCause, Selected, FullVels, PathEndVel
<1>6. RatioInv
  <2>1. DOMAIN ratios = {"ego", "valid", "very_long"} /\ \A r \in DOMAIN ratios : ratios[r] \in Nat \X Nat
    BY DEF Init
  <2> QED BY <2>1 DEF Init, RatioInv, Selected
<1> QED BY <1>2, <1>3, <1>4, <1>5, <1>6 DEF IInv

(* Ratios that are fractions, as a record.                                  *)
LEMMA RatiosType ==
  ASSUME NEW a, NEW b, NEW c, IsFraction(a), IsFraction(b), IsFraction(c),
         ratios' = [ego |-> a, valid |-> b, very_long |-> c]
  PROVE  /\ (DOMAIN ratios)' = {"ego", "valid", "very_long"}
         /\ ratios.ego' = a /\ ratios.valid' = b /\ ratios.very_long' = c
         /\ \A r \in DOMAIN ratios' : /\ ratios'[r] \in Nat \X Nat
                                      /\ ratios'[r][2] > 0 /\ ratios'[r][1] \in 0 .. ratios'[r][2]
<1>1. \A r \in DOMAIN ratios' : IsFraction(ratios'[r])
  OBVIOUS
<1>2. (DOMAIN ratios)' = {"ego", "valid", "very_long"}
  OBVIOUS
<1>3. ratios.ego' = a /\ ratios.valid' = b /\ ratios.very_long' = c
  OBVIOUS
<1> QED BY <1>1, <1>2, <1>3 DEF IsFraction

(* The selection measures three fractions.                                  *)
LEMMA SelectedRatios ==
  ASSUME TypeOK, LayoutInv, SelectBest
  PROVE  /\ BestIdx \in Indices /\ BestIdx \in 0 .. 4 * NumOffsets - 1 /\ Valid(BestIdx)
         /\ IsFraction(ratios'.ego) /\ IsFraction(ratios'.valid) /\ IsFraction(ratios'.very_long)
         /\ ratios' = [ego |-> ratios'.ego, valid |-> ratios'.valid, very_long |-> ratios'.very_long]
         /\ AllValid /\ mode # "va" => ratios'.very_long[1] = ratios'.very_long[2]
<1>1. PICK n \in Nat : /\ Indices = 0 .. n - 1 /\ n >= 12
                       /\ mode = "fixed" => n = 4 * NumOffsets
  BY CandidateFacts DEF SelectBest
<1>2. NumOffsets \in Nat /\ NumOffsets >= 3 /\ BestIdx # -1
  BY LayoutAssumption DEF SelectBest
<1>3. BestIdx \in Window(0, 2 * NumOffsets) \/ BestIdx \in Window(2 * NumOffsets, 4 * NumOffsets)
  BY <1>1, <1>2, BestIdxIsLeast
<1>4. BestIdx \in Indices /\ BestIdx \in 0 .. 4 * NumOffsets - 1 /\ Valid(BestIdx)
  BY <1>1, <1>2, <1>3 DEF Window
<1> DEFINE ego == IF EgoLane = {} THEN <<0, 1>> ELSE Share(EgoLane)
           valid == Share(Around(BestIdx, 2))
<1>5. ratios' = [ego |-> ego, valid |-> valid, very_long |-> FarCentre]
  BY DEF SelectBest
<1>6. IsFraction(ego)
  <2>1. CASE EgoLane = {}
    BY <2>1 DEF IsFraction
  <2>2. CASE EgoLane # {}
    <3>1. PICK i : i \in EgoLane
      BY <2>2
    <3>2. EgoLane \in SUBSET Indices
      BY DEF EgoLane
    <3>3. IsFraction(Share(EgoLane))
      BY <1>1, <3>1, <3>2, ShareOfSome
    <3> QED BY <2>2, <3>3
  <2> QED BY <2>1, <2>2
<1>7. IsFraction(valid)
  BY <1>1, <1>4, AroundIsFraction
<1>8. IsFraction(FarCentre)
  BY <1>1, FarCentreIsFraction
<1>9. ASSUME AllValid, mode # "va" PROVE FarCentre[1] = FarCentre[2]
  <2>1. n > NumOffsets \div 2 + 1
    <3>1. CASE mode = "fixed"
      BY <1>1, <1>2, <3>1
    <3>2. CASE mode # "fixed"
      <4>1. NumOffsets \div 2 + 1 < 12
        BY <3>2, LayoutAssumption DEF TypeOK
      <4> QED BY <4>1, <1>1, <1>2
    <3> QED BY <3>1, <3>2
  <2> QED BY <1>1, <1>9, <2>1, FarCentreIsFraction
<1> HIDE DEF ego, valid
<1> QED BY <1>4, <1>5, <1>6, <1>7, <1>8, <1>9

(* And so does mode 3 afterwards.                                           *)
LEMMA MeasuredRatios ==
  ASSUME TypeOK, LayoutInv, Measure, mode = "va"
  PROVE  /\ IsFraction(ratios'.ego) /\ IsFraction(ratios'.valid) /\ IsFraction(ratios'.very_long)
         /\ ratios' = [ego |-> ratios'.ego, valid |-> ratios'.valid, very_long |-> ratios'.very_long]
         /\ Found # -1 /\ AllValid => /\ ratios'.ego[1] = ratios'.ego[2]
                                      /\ ratios'.valid[1] = ratios'.valid[2]
                                      /\ ratios'.very_long[1] = ratios'.very_long[2]
<1>1. PICK n \in Nat : Indices = 0 .. n - 1
  BY CandidateFacts
<1>2. CASE Found = -1
  <2>1. IsFraction(<<0, 1>>)
    BY DEF IsFraction
  <2>2. ratios' = [ego |-> <<0, 1>>, valid |-> <<0, 1>>, very_long |-> <<0, 1>>]
    BY <1>2 DEF Measure
  <2> QED BY <1>2, <2>1, <2>2
<1>3. CASE Found # -1
  <2>1. Found \in Indices
    BY <1>1, <1>3, FoundIsAlike
  <2>2. VehicleCells \in Nat /\ (VehicleCells * 3) \div 4 \in Nat /\ VehicleCells \div 2 \in Nat
    BY LayoutAssumption
  <2> DEFINE ego == Share(Around(Found, VehicleCells))
             valid == Share(Around(Found, (VehicleCells * 3) \div 4))
             far == Share(Around(Found, VehicleCells \div 2))
  <2>3. ratios' = [ego |-> ego, valid |-> valid, very_long |-> far]
    BY <1>3 DEF Measure, RatiosAbout
  <2>4. IsFraction(ego) /\ (AllValid => ego[1] = ego[2])
    BY <1>1, <2>1, <2>2, AroundIsFraction
  <2>5. IsFraction(valid) /\ (AllValid => valid[1] = valid[2])
    BY <1>1, <2>1, <2>2, AroundIsFraction
  <2>6. IsFraction(far) /\ (AllValid => far[1] = far[2])
    BY <1>1, <2>1, <2>2, AroundIsFraction
  <2> HIDE DEF ego, valid, far
  <2> QED BY <1>3, <2>3, <2>4, <2>5, <2>6
<1> QED BY <1>2, <1>3

(* A new cycle: one candidate for each goal of the scene that is found.      *)
LEMMA Sampled ==
  ASSUME Sample, mode \in Modes
  PROVE  \E name \in DOMAIN Scenes[mode] :
           /\ scene' = name /\ same' = (name = scene)
           /\ Len(Goals(Scenes[mode][name])) \in Nat /\ Len(Goals(Scenes[mode][name])) >= 12
           /\ Indices' = 0 .. Len(Goals(Scenes[mode][name])) - 1
           /\ \A i \in Indices' : LET g == Goals(Scenes[mode][name])[i + 1] IN
                /\ candidates'[i] \in Candidate
                /\ candidates'[i].layer = g.layer /\ candidates'[i].offset = g.offset
                /\ candidates'[i].points = (g.layer \notin Scenes[mode][name].behind)
<1>1. PICK name \in DOMAIN Scenes[mode] : \E s \in {Scenes[mode][name]} : \E goals \in {Goals(s)} :
          /\ scene' = name /\ same' = (name = scene)
          /\ candidates' = [i \in 0 .. Len(goals) - 1 |->
               [NoPath EXCEPT !.layer  = goals[i + 1].layer,
                              !.offset = goals[i + 1].offset,
                              !.points = goals[i + 1].layer \notin s.behind]]
  BY DEF Sample
<1> DEFINE s == Scenes[mode][name]
           goals == Goals(s)
<1>2. /\ scene' = name /\ same' = (name = scene)
      /\ candidates' = [i \in 0 .. Len(goals) - 1 |->
               [NoPath EXCEPT !.layer  = goals[i + 1].layer,
                              !.offset = goals[i + 1].offset,
                              !.points = goals[i + 1].layer \notin s.behind]]
  BY <1>1
<1>3. goals \in Seq(Goal) /\ Len(goals) \in Nat /\ Len(goals) >= 12
  BY GoalsType DEF IsScene
<1> HIDE DEF goals, s
<1>4. Indices' = 0 .. Len(goals) - 1
  BY <1>2 DEF Indices
<1>5. ASSUME NEW i \in Indices'
      PROVE  /\ candidates'[i] \in Candidate
             /\ candidates'[i].layer = goals[i + 1].layer
             /\ candidates'[i].offset = goals[i + 1].offset
             /\ candidates'[i].points = (goals[i + 1].layer \notin s.behind)
  <2>1. i \in 0 .. Len(goals) - 1 /\ i + 1 \in 1 .. Len(goals)
    BY <1>3, <1>4
  <2> DEFINE g == goals[i + 1]
             behind == g.layer \notin s.behind
  <2>2. g \in Goal
    BY <1>3, <2>1
  <2>3. g.layer \in Layers /\ g.offset \in Int
    BY <2>2, LayoutAssumption DEF Goal, Reach
  <2>4. candidates'[i] = [NoPath EXCEPT !.layer = g.layer, !.offset = g.offset, !.points = behind]
    BY <1>2, <2>1
  <2>5. behind \in BOOLEAN
    OBVIOUS
  <2> HIDE DEF g, behind
  <2>6. candidates'[i] = [layer |-> g.layer, offset |-> g.offset, points |-> behind,
                          valid |-> TRUE, own |-> 0, cost |-> 0]
    BY <2>4 DEF NoPath
  <2>7. candidates'[i] \in Candidate
    BY <2>3, <2>5, <2>6 DEF Candidate
  <2> QED BY <2>6, <2>7 DEF g, behind
<1> QED BY <1>2, <1>3, <1>4, <1>5 DEF goals, s

(* Every step keeps the types: in particular no ratio has a zero below.     *)
LEMMA TypeStep == TypeOK /\ LayoutInv /\ RatioInv /\ [Next]_vars => TypeOK'
<1> SUFFICES ASSUME TypeOK, LayoutInv, RatioInv, [Next]_vars PROVE TypeOK'
  OBVIOUS
<1>1. PICK n \in Nat : Indices = 0 .. n - 1
  BY CandidateFacts
<1>2. CASE Sample
  <2>1. scene' \in DOMAIN Scenes[mode] /\ same' \in BOOLEAN
        /\ \A i \in Indices' : candidates'[i] \in Candidate
    BY <1>2, Sampled DEF TypeOK
  <2> QED BY <1>2, <2>1 DEF TypeOK, Sample, Selected
<1>3. CASE Evaluate
  <2>1. MaxChange \in Nat \ {0} /\ \A i \in Indices : Change(candidates[i]) \in Nat
    BY MaxChangePositive
  <2>2. ChangeWeight \in Nat
    BY DEF ChangeWeight
  <2>3. Indices' = Indices
    BY <1>3 DEF Evaluate, Indices
  <2>4. ASSUME NEW i \in Indices PROVE candidates'[i] \in Candidate
    <3> DEFINE c == candidates[i]
               own == OwnCost(c)
               cost == own * MaxChange + ChangeWeight * Change(c)
    <3>1. candidates'[i] = [c EXCEPT !.valid = Passable(c), !.own = own, !.cost = cost]
      BY <1>3 DEF Evaluate, OwnCost
    <3>2. c \in Candidate /\ own \in Nat
      BY CandidateFacts
    <3>3. cost \in Nat
      <4> HIDE DEF c, own
      <4> QED BY <2>1, <2>2, <3>2 DEF c
    <3>4. Passable(c) \in BOOLEAN
      BY DEF Passable
    <3> HIDE DEF c, own, cost
    <3> QED BY <3>1, <3>2, <3>3, <3>4 DEF Candidate
  <2> QED BY <1>3, <2>3, <2>4 DEF TypeOK, Evaluate, Selected
<1>4. CASE SelectBlocked
  <2>1. best_path' \in Candidate
    BY <1>4 DEF SelectBlocked, TypeOK, Candidate
  <2>2. chosen' = -1 /\ chosen' \in -1 .. 4 * NumOffsets - 1
    BY <1>4, LayoutAssumption DEF SelectBlocked
  <2> QED BY <1>4, <2>1, <2>2 DEF TypeOK, SelectBlocked, Indices
<1>5. CASE SelectBest
  <2>1. BestIdx \in Indices /\ BestIdx \in 0 .. 4 * NumOffsets - 1
    BY <1>5, SelectedRatios
  <2>2. chosen' = BestIdx /\ candidates' = candidates /\ best_path' = candidates[BestIdx]
        /\ last_selected_offset' = candidates[BestIdx].offset
    BY <1>5 DEF SelectBest
  <2>3. best_path' \in Candidate /\ last_selected_offset' \in Int
    BY <2>1, <2>2 DEF TypeOK, Candidate
  <2>4. \A r \in DOMAIN ratios' : ratios'[r][2] > 0 /\ ratios'[r][1] \in 0 .. ratios'[r][2]
    BY <1>5, SelectedRatios, RatiosType
  <2>5. chosen' \in Indices /\ chosen' \in -1 .. 4 * NumOffsets - 1 /\ Indices' = Indices
    BY <2>1, <2>2 DEF Indices
  <2> QED BY <1>5, <2>2, <2>3, <2>4, <2>5 DEF TypeOK, SelectBest
<1>6. CASE Measure
  <2>1. \A r \in DOMAIN ratios' : ratios'[r][2] > 0 /\ ratios'[r][1] \in 0 .. ratios'[r][2]
    <3>1. CASE mode = "va"
      BY <1>6, <3>1, MeasuredRatios, RatiosType
    <3>2. CASE mode # "va"
      BY <1>6, <3>2 DEF Measure, TypeOK
    <3> QED BY <3>1, <3>2
  <2>2. chosen' = chosen /\ (chosen \in Indices \union {-1}) /\ Indices' = Indices
    BY <1>6 DEF Measure, TypeOK, Selected, Indices
  <2> QED BY <1>6, <2>1, <2>2 DEF TypeOK, Measure
<1>7. CASE SetSpeed
  <2>1. target_vel' \in 0 .. 70
    <3>1. PICK c \in Curves : target_vel' \in {IF mode = "va" THEN TargetSpeedVA(c) ELSE TargetSpeed(c)}
                                               \union PathEndVel
      BY <1>7 DEF SetSpeed, Curves
    <3>2. TargetSpeed(c) \in 0 .. 70
      BY <3>1 DEF TargetSpeed, Curves, CurveVel, TARGET_VEL
    <3>3. CurveLimit(c) \in 0 .. 60 /\ ObstacleFactor \in 0 .. 100
      BY DEF CurveLimit, TARGET_VEL, ObstacleFactor
    <3>4. TargetSpeedVA(c) \in 0 .. 70
      BY <3>3 DEF TargetSpeedVA
    <3> QED BY <3>1, <3>2, <3>4 DEF PathEndVel
  <2> QED BY <1>7, <2>1 DEF TypeOK, SetSpeed, Selected, Indices
<1>8. CASE UNCHANGED vars
  BY <1>8 DEF TypeOK, vars, Selected, Indices
<1> QED BY <1>2, <1>3, <1>4, <1>5, <1>6, <1>7, <1>8 DEF Next

----------------------------------------------------------------------------
(* What the candidates are.                                                 *)

(* After the evaluation a cycle leaves its scene and its candidates alone.  *)
LEMMA CandidatesKept ==
  ASSUME SelectBlocked \/ SelectBest \/ Measure \/ SetSpeed
  PROVE  /\ pc \in {"select", "measure", "speed"} /\ pc' \in {"measure", "speed", "sample"}
         /\ mode' = mode /\ scene' = scene /\ same' = same /\ candidates' = candidates
         /\ Seen' = Seen /\ Indices' = Indices /\ (AllValid <=> AllValid')
<1>1. /\ pc \in {"select", "measure", "speed"} /\ pc' \in {"measure", "speed", "sample"}
      /\ mode' = mode /\ scene' = scene /\ same' = same /\ candidates' = candidates
  <2>1. CASE SelectBlocked
    BY <2>1 DEF SelectBlocked
  <2>2. CASE SelectBest
    BY <2>2 DEF SelectBest
  <2>3. CASE Measure
    BY <2>3 DEF Measure
  <2>4. CASE SetSpeed
    BY <2>4 DEF SetSpeed
  <2> QED BY <2>1, <2>2, <2>3, <2>4
<1>2. Seen' = Seen /\ Indices' = Indices
  BY <1>1, SceneUnchanged DEF Indices
<1>3. AllValid <=> AllValid'
  BY <1>1, <1>2 DEF AllValid, Valid
<1> QED BY <1>1, <1>2, <1>3

(* The candidates stay those of the scene at hand.                          *)
LEMMA LayoutStep == TypeOK /\ LayoutInv /\ [Next]_vars => LayoutInv'
<1> SUFFICES ASSUME TypeOK, LayoutInv, [Next]_vars PROVE LayoutInv'
  OBVIOUS
<1>1. CASE Sample
  <2>1. PICK name \in DOMAIN Scenes[mode] :
           /\ scene' = name
           /\ Indices' = 0 .. Len(Goals(Scenes[mode][name])) - 1
           /\ \A i \in Indices' : LET g == Goals(Scenes[mode][name])[i + 1] IN
                /\ candidates'[i].layer = g.layer /\ candidates'[i].offset = g.offset
                /\ candidates'[i].points = (g.layer \notin Scenes[mode][name].behind)
    BY <1>1, Sampled DEF TypeOK
  <2>2. mode' = mode
    BY <1>1 DEF Sample
  <2>3. Seen' = Scenes[mode][name] /\ Goals(Seen)' = Goals(Scenes[mode][name])
    BY <2>1, <2>2, SceneFound
  <2>4. Indices' = 0 .. Len(Goals(Seen)') - 1 /\ \A i \in Indices' : AsLaidOut(i)'
    BY <2>1, <2>3 DEF AsLaidOut
  <2> QED BY <2>4 DEF LayoutInv
<1>2. ASSUME mode' = mode, scene' = scene, Indices' = Indices,
             \A i \in Indices : /\ candidates'[i].layer = candidates[i].layer
                                /\ candidates'[i].offset = candidates[i].offset
                                /\ candidates'[i].points = candidates[i].points,
             pc # "sample" \/ (pc' = "sample" /\ chosen' = chosen)
      PROVE  LayoutInv'
  <2>1. Seen' = Seen /\ Goals(Seen)' = Goals(Seen)
    BY <1>2, SceneUnchanged
  <2>2. CASE Indices = {} /\ pc = "sample" /\ chosen = -1
    BY <1>2, <2>2 DEF LayoutInv
  <2>3. CASE Indices = 0 .. Len(Goals(Seen)) - 1 /\ \A i \in Indices : AsLaidOut(i)
    <3>1. Indices' = 0 .. Len(Goals(Seen)') - 1 /\ \A i \in Indices' : AsLaidOut(i)'
      BY <1>2, <2>1, <2>3 DEF AsLaidOut
    <3> QED BY <3>1 DEF LayoutInv
  <2> QED BY <2>2, <2>3 DEF LayoutInv
<1>3. CASE Evaluate
  <2>1. \A i \in Indices : /\ candidates'[i].layer = candidates[i].layer
                           /\ candidates'[i].offset = candidates[i].offset
                           /\ candidates'[i].points = candidates[i].points
    BY <1>3 DEF Evaluate, TypeOK, Candidate
  <2> QED BY <1>2, <1>3, <2>1 DEF Evaluate, Indices
<1>4. CASE SelectBlocked \/ SelectBest \/ Measure \/ SetSpeed
  <2>1. /\ pc # "sample" /\ mode' = mode /\ scene' = scene
        /\ candidates' = candidates /\ Indices' = Indices
    BY <1>4, CandidatesKept
  <2>2. \A i \in Indices : /\ candidates'[i].layer = candidates[i].layer
                           /\ candidates'[i].offset = candidates[i].offset
                           /\ candidates'[i].points = candidates[i].points
    BY <2>1
  <2>3. pc # "sample" \/ (pc' = "sample" /\ chosen' = chosen)
    BY <2>1
  <2> QED BY <1>2, <2>1, <2>2, <2>3
<1>5. CASE UNCHANGED vars
  BY <1>2, <1>5 DEF vars, Indices
<1> QED BY <1>1, <1>3, <1>4, <1>5 DEF Next

(* Whether a goal can be passed and what its path costs lie in the scene.   *)
LEMMA SceneOnly ==
  ASSUME Seen' = Seen, NEW i \in Indices', Indices' = Indices,
         candidates'[i].layer = candidates[i].layer,
         candidates'[i].offset = candidates[i].offset,
         candidates'[i].points = candidates[i].points
  PROVE  /\ OwnCost(candidates[i])' = OwnCost(candidates[i])
         /\ Passable(candidates[i])' = Passable(candidates[i])
BY DEF OwnCost, Passable

(* Evaluation makes the costs and the validity those of the scene.          *)
LEMMA Evaluated ==
  ASSUME TypeOK, LayoutInv, Evaluate
  PROVE  /\ pc' = "select" /\ mode' = mode /\ scene' = scene /\ same' = same /\ chosen' = chosen
         /\ best_path' = best_path /\ last_selected_offset' = last_selected_offset
         /\ Seen' = Seen /\ Indices' = Indices /\ ChangeWeight' = ChangeWeight
         /\ \A i \in Indices :
              /\ candidates'[i].layer = candidates[i].layer
              /\ candidates'[i].offset = candidates[i].offset
              /\ candidates'[i].points = candidates[i].points
              /\ candidates'[i].own = OwnCost(candidates[i])
              /\ candidates'[i].valid = Passable(candidates[i])
              /\ candidates'[i].cost = candidates'[i].own * MaxChange
                                       + ChangeWeight * Change(candidates[i])
<1>1. \A i \in Indices : candidates[i] \in Candidate
  BY DEF TypeOK
<1>2. /\ pc' = "select" /\ mode' = mode /\ scene' = scene /\ same' = same /\ chosen' = chosen
      /\ best_path' = best_path /\ last_selected_offset' = last_selected_offset
      /\ Indices' = Indices
  BY DEF Evaluate, Indices
<1>3. ASSUME NEW i \in Indices
      PROVE  /\ candidates'[i].layer = candidates[i].layer
             /\ candidates'[i].offset = candidates[i].offset
             /\ candidates'[i].points = candidates[i].points
             /\ candidates'[i].own = OwnCost(candidates[i])
             /\ candidates'[i].valid = Passable(candidates[i])
             /\ candidates'[i].cost = candidates'[i].own * MaxChange
                                      + ChangeWeight * Change(candidates[i])
  <2> DEFINE c == candidates[i]
             own == OwnCost(c)
             cost == own * MaxChange + ChangeWeight * Change(c)
             passable == Passable(c)
  <2>1. candidates'[i] = [c EXCEPT !.valid = passable, !.own = own, !.cost = cost]
    BY DEF Evaluate, OwnCost
  <2>2. c \in Candidate
    BY <1>1
  <2> HIDE DEF c, own, cost, passable
  <2>3. /\ candidates'[i].layer = c.layer /\ candidates'[i].offset = c.offset
        /\ candidates'[i].points = c.points /\ candidates'[i].own = own
        /\ candidates'[i].valid = passable /\ candidates'[i].cost = cost
    BY <2>1, <2>2 DEF Candidate
  <2> QED BY <2>3 DEF c, own, cost, passable
<1> QED BY <1>2, <1>3, SceneUnchanged

(* Costs and validity stay those of the scene until the next cycle.         *)
LEMMA EvaluatedStep == TypeOK /\ LayoutInv /\ EvaluatedInv /\ [Next]_vars => EvaluatedInv'
<1> SUFFICES ASSUME TypeOK, LayoutInv, EvaluatedInv, [Next]_vars PROVE EvaluatedInv'
  OBVIOUS
<1>1. CASE Sample
  BY <1>1 DEF Sample, EvaluatedInv
<1>2. CASE Evaluate
  <2> DEFINE widest == MaxChange
  <2>1. widest \in Nat \ {0}
    BY MaxChangePositive
  <2> HIDE DEF widest
  <2>2. ASSUME NEW i \in Indices'
        PROVE  /\ candidates'[i].own = OwnCost(candidates[i])'
               /\ Valid(i)' = Passable(candidates[i])'
               /\ candidates'[i].cost = candidates'[i].own * widest
                                        + ChangeWeight' * Change(candidates[i])'
    <3>1. OwnCost(candidates[i])' = OwnCost(candidates[i])
          /\ Passable(candidates[i])' = Passable(candidates[i])
      BY <1>2, Evaluated, SceneOnly
    <3>2. Change(candidates[i])' = Change(candidates[i])
      BY <1>2, Evaluated DEF Change
    <3>3. Valid(i)' = candidates'[i].valid
      BY DEF Valid
    <3> QED BY <1>2, <3>1, <3>2, <3>3, Evaluated DEF widest
  <2> QED BY <2>1, <2>2 DEF EvaluatedInv
<1>3. ASSUME pc \in {"sample", "select", "measure", "speed"}, pc' # "select" \/ pc = "select",
             Seen' = Seen, candidates' = candidates, Indices' = Indices,
             ChangeWeight' = ChangeWeight,
             pc' = "select" => last_selected_offset' = last_selected_offset
      PROVE  EvaluatedInv'
  <2>1. ASSUME NEW i \in Indices'
        PROVE  candidates'[i].own = OwnCost(candidates[i])' /\ Valid(i)' = Passable(candidates[i])'
    <3>1. OwnCost(candidates[i])' = OwnCost(candidates[i])
          /\ Passable(candidates[i])' = Passable(candidates[i])
      BY <1>3, SceneOnly
    <3> QED BY <1>3, <3>1 DEF EvaluatedInv, Valid
  <2>2. CASE pc' = "select"
    <3>1. pc = "select"
      BY <1>3, <2>2
    <3>2. PICK widest \in Nat \ {0} : \A i \in Indices :
            candidates[i].cost = candidates[i].own * widest + ChangeWeight * Change(candidates[i])
      BY <3>1 DEF EvaluatedInv
    <3>3. \A i \in Indices' : Change(candidates[i])' = Change(candidates[i])
      BY <1>3, <2>2 DEF Change
    <3>4. \A i \in Indices' :
            candidates'[i].cost = candidates'[i].own * widest + ChangeWeight' * Change(candidates[i])'
      BY <1>3, <3>2, <3>3
    <3> QED BY <2>1, <3>4 DEF EvaluatedInv
  <2>3. CASE pc' # "select"
    BY <2>1, <2>3 DEF EvaluatedInv
  <2> QED BY <2>2, <2>3
<1>4. CASE SelectBlocked \/ SelectBest \/ Measure \/ SetSpeed
  BY <1>3, <1>4, CandidatesKept, SceneUnchanged
<1>5. CASE UNCHANGED vars
  <2>1. CASE pc = "evaluate"
    BY <1>5, <2>1 DEF EvaluatedInv, vars
  <2>2. CASE pc # "evaluate"
    BY <1>3, <1>5, <2>2, SceneUnchanged DEF vars, Indices, TypeOK
  <2> QED BY <2>1, <2>2
<1> QED BY <1>1, <1>2, <1>4, <1>5 DEF Next

----------------------------------------------------------------------------
(* What a cycle remembers of the one before.                                *)

(* In the same scene the same goals are laid out again: what is known of the *)
(* selected path stays true.                                                *)
LEMMA RememberedKept ==
  ASSUME Remembered, Seen' = Seen, Indices' = Indices, chosen' = chosen, best_path' = best_path,
         \A i \in Indices : /\ candidates'[i].layer = candidates[i].layer
                            /\ candidates'[i].offset = candidates[i].offset
                            /\ candidates'[i].points = candidates[i].points
  PROVE  Remembered'
<1>1. \A i \in Indices : Passable(candidates[i])' = Passable(candidates[i])
  BY DEF Passable
<1>2. OwnCost(best_path)' = OwnCost(best_path) /\ Passable(best_path)' = Passable(best_path)
  BY DEF OwnCost, Passable
<1>3. Near(chosen)' = Near(chosen)
  BY DEF Near
<1> QED BY <1>1, <1>2, <1>3 DEF Remembered, Near

(* The selected path is cheapest for a reason that is remembered.           *)
LEMMA MemoryStep == TypeOK /\ LayoutInv /\ EvaluatedInv /\ MemoryInv /\ [Next]_vars => MemoryInv'
<1> SUFFICES ASSUME TypeOK, LayoutInv, EvaluatedInv, MemoryInv, [Next]_vars PROVE MemoryInv'
  OBVIOUS
<1>1. chosen # -1 /\ (pc \notin {"evaluate", "select"} \/ same) => Remembered
  BY DEF MemoryInv
<1>2. ASSUME last_selected_offset' = best_path.offset',
             chosen' # -1 /\ (pc' \notin {"evaluate", "select"} \/ same') => Remembered'
      PROVE  MemoryInv'
  BY <1>2 DEF MemoryInv
<1>3. last_selected_offset = best_path.offset
  BY DEF MemoryInv
<1>4. CASE Sample
  <2>1. /\ last_selected_offset' = last_selected_offset /\ best_path' = best_path
        /\ chosen' = chosen /\ mode' = mode /\ pc = "sample" /\ pc' = "evaluate"
    BY <1>4 DEF Sample
  <2>2. ASSUME chosen # -1, same' PROVE Remembered'
    <3>1. PICK name \in DOMAIN Scenes[mode] :
            /\ scene' = name /\ same' = (name = scene)
            /\ Indices' = 0 .. Len(Goals(Scenes[mode][name])) - 1
            /\ \A i \in Indices' : LET g == Goals(Scenes[mode][name])[i + 1] IN
                 /\ candidates'[i].layer = g.layer /\ candidates'[i].offset = g.offset
                 /\ candidates'[i].points = (g.layer \notin Scenes[mode][name].behind)
      BY <1>4, Sampled DEF TypeOK
    <3>2. Scenes[mode][name] = Seen /\ scene' = scene
      BY <2>2, <3>1 DEF Seen
    <3>3. Indices = 0 .. Len(Goals(Seen)) - 1 /\ \A i \in Indices : AsLaidOut(i)
      BY <2>2 DEF LayoutInv
    <3>4. Indices' = Indices /\ \A i \in Indices :
             /\ candidates'[i].layer = candidates[i].layer
             /\ candidates'[i].offset = candidates[i].offset
             /\ candidates'[i].points = candidates[i].points
      BY <3>1, <3>2, <3>3 DEF AsLaidOut
    <3>5. Seen' = Seen
      BY <2>1, <3>2, SceneUnchanged
    <3>6. Remembered
      BY <1>1, <2>1, <2>2
    <3> QED BY <2>1, <3>4, <3>5, <3>6, RememberedKept
  <2> QED BY <1>2, <1>3, <2>1, <2>2
<1>5. CASE Evaluate
  <2>1. /\ last_selected_offset' = last_selected_offset /\ best_path' = best_path
        /\ chosen' = chosen /\ same' = same /\ pc' = "select" /\ Seen' = Seen /\ Indices' = Indices
        /\ \A i \in Indices : /\ candidates'[i].layer = candidates[i].layer
                              /\ candidates'[i].offset = candidates[i].offset
                              /\ candidates'[i].points = candidates[i].points
    BY <1>5, Evaluated
  <2>2. ASSUME chosen # -1, same PROVE Remembered'
    <3>1. Remembered
      BY <1>1, <2>2
    <3> QED BY <2>1, <3>1, RememberedKept
  <2> QED BY <1>2, <1>3, <2>1, <2>2
<1>6. CASE SelectBlocked
  <2>1. last_selected_offset' = last_selected_offset /\ chosen' = -1
        /\ best_path' = [best_path EXCEPT !.points = FALSE, !.valid = FALSE]
    BY <1>6 DEF SelectBlocked
  <2>2. best_path.offset' = best_path.offset
    BY <2>1 DEF TypeOK, Candidate
  <2> QED BY <1>2, <1>3, <2>1, <2>2
<1>7. CASE SelectBest
  <2>1. PICK n \in Nat : Indices = 0 .. n - 1
    BY CandidateFacts
  <2>2. BestIdx \in Indices /\ Valid(BestIdx) /\ BestIdx # -1 /\ pc = "select"
    BY <1>7, SelectedRatios DEF SelectBest
  <2>3. /\ chosen' = BestIdx /\ best_path' = candidates[BestIdx]
        /\ last_selected_offset' = candidates[BestIdx].offset
    BY <1>7 DEF SelectBest
  <2>4. Seen' = Seen /\ candidates' = candidates /\ Indices' = Indices
    BY <1>7, CandidatesKept
  <2>5. \A i \in Indices : candidates[i].own = OwnCost(candidates[i])
                           /\ Valid(i) = Passable(candidates[i])
    BY <2>2 DEF EvaluatedInv
  <2>6. OwnCost(best_path)' = OwnCost(candidates[BestIdx])
        /\ Passable(best_path)' = Passable(candidates[BestIdx])
    BY <2>3, <2>4 DEF OwnCost, Passable
  <2>7. ASSUME ~Near(BestIdx), NEW i \in Indices, Near(i) PROVE ~Passable(candidates[i])'
    <3>1. NumOffsets \in Nat /\ i >= 0
      BY <2>1, LayoutAssumption
    <3>2. BestIdx \notin Window(0, 2 * NumOffsets)
      BY <2>7 DEF Near, Window
    <3>3. Window(0, 2 * NumOffsets) = {}
      BY <2>1, <3>2, BestIdxIsLeast
    <3>4. ~Valid(i)
      BY <2>7, <3>1, <3>3 DEF Near, Window
    <3>5. Passable(candidates[i])' = Passable(candidates[i])
      BY <2>4 DEF Passable
    <3> QED BY <2>5, <3>4, <3>5
  <2>8. Remembered'
    BY <2>2, <2>3, <2>4, <2>5, <2>6, <2>7 DEF Remembered, Near
  <2>9. last_selected_offset' = best_path.offset'
    BY <2>3
  <2> QED BY <1>2, <2>8, <2>9
<1>8. CASE Measure \/ SetSpeed
  <2>1. /\ last_selected_offset' = last_selected_offset /\ best_path' = best_path
        /\ chosen' = chosen /\ pc \in {"measure", "speed"}
    BY <1>8 DEF Measure, SetSpeed
  <2>2. ASSUME chosen # -1 PROVE Remembered'
    <3>1. Remembered
      BY <1>1, <2>1, <2>2
    <3>2. Seen' = Seen /\ Indices' = Indices /\ candidates' = candidates
      BY <1>8, CandidatesKept
    <3> QED BY <2>1, <3>1, <3>2, RememberedKept
  <2> QED BY <1>2, <1>3, <2>1, <2>2
<1>9. CASE UNCHANGED vars
  <2>1. Seen' = Seen /\ Indices' = Indices /\ candidates' = candidates
    BY <1>9 DEF vars, Seen, Indices
  <2> QED BY <1>1, <1>2, <1>3, <1>9, <2>1, RememberedKept DEF vars
<1> QED BY <1>4, <1>5, <1>6, <1>7, <1>8, <1>9 DEF Next

----------------------------------------------------------------------------
(* The selection, the ratios and the speed.                                 *)

(* What selectBestPath takes is the best of the two groups.                 *)
LEMMA LeastCostStep == TypeOK /\ LayoutInv /\ LeastCost /\ [Next]_vars => LeastCost'
<1> SUFFICES ASSUME TypeOK, LayoutInv, LeastCost, [Next]_vars PROVE LeastCost'
  OBVIOUS
<1>1. PICK n \in Nat : Indices = 0 .. n - 1
  BY CandidateFacts
<1>2. NumOffsets \in Nat
  BY LayoutAssumption
<1> DEFINE near == Window(0, 2 * NumOffsets)
           far  == Window(2 * NumOffsets, 4 * NumOffsets)
           examined == {i \in Indices : i < 4 * NumOffsets /\ Valid(i)}
           better(i, j) == \/ Near(i) /\ ~Near(j)
                           \/ /\ Near(i) = Near(j)
                              /\ \/ candidates[i].cost < candidates[j].cost
                                 \/ candidates[i].cost = candidates[j].cost /\ i < j
<1>3. /\ \A i \in near : i \in examined /\ Near(i) /\ i \in Nat
      /\ \A i \in far : i \in examined /\ ~Near(i) /\ i \in Nat
      /\ \A i \in examined : i \in Nat /\ (Near(i) => i \in near) /\ (~Near(i) => i \in far)
  BY <1>1, <1>2 DEF Window, Near
<1>4. Indices' = Indices /\ candidates' = candidates =>
        (LeastCost' <=> (Selected' => IF examined = {} THEN chosen' = -1
                         ELSE chosen' \in examined /\ \A j \in examined \ {chosen'} : better(chosen', j)))
  BY DEF LeastCost, Near, Valid
<1>5. CASE Sample \/ Evaluate \/ SetSpeed
  BY <1>5 DEF Sample, Evaluate, SetSpeed, LeastCost, Selected
<1>6. CASE SelectBlocked
  <2>1. near = {} /\ far = {} /\ chosen' = -1
    BY <1>6, <1>1, BestIdxIsLeast DEF SelectBlocked
  <2>2. examined = {}
    BY <2>1, <1>3
  <2>3. Indices' = Indices /\ candidates' = candidates
    BY <1>6, CandidatesKept
  <2> HIDE DEF examined, better
  <2> QED BY <1>4, <2>1, <2>2, <2>3
<1>7. CASE SelectBest
  <2>1. BestIdx # -1 /\ chosen' = BestIdx
    BY <1>7 DEF SelectBest
  <2>2. Indices' = Indices /\ candidates' = candidates
    BY <1>7, CandidatesKept
  <2>3. BestIdx \in examined /\ \A j \in examined \ {BestIdx} : better(BestIdx, j)
    <3> HIDE DEF near, far, examined
    <3>1. CASE near # {}
      <4>1. IsLeast(BestIdx, near) /\ BestIdx \in near
        BY <1>1, <3>1, BestIdxIsLeast DEF near
      <4>2. ASSUME NEW j \in near, j # BestIdx
            PROVE  \/ candidates[BestIdx].cost < candidates[j].cost
                   \/ candidates[BestIdx].cost = candidates[j].cost /\ BestIdx < j
        <5>1. BestIdx # -1 /\ BestIdx \in Nat /\ j \in Nat
          BY <1>3, <2>1, <4>1
        <5> QED BY <4>1, <4>2, <5>1 DEF IsLeast
      <4> QED BY <1>3, <4>1, <4>2
    <3>2. CASE near = {}
      <4>1. IsLeast(BestIdx, far) /\ BestIdx \in far
        BY <1>1, <2>1, <3>2, BestIdxIsLeast DEF near, far
      <4>2. ASSUME NEW j \in far, j # BestIdx
            PROVE  \/ candidates[BestIdx].cost < candidates[j].cost
                   \/ candidates[BestIdx].cost = candidates[j].cost /\ BestIdx < j
        <5>1. BestIdx # -1 /\ BestIdx \in Nat /\ j \in Nat
          BY <1>3, <2>1, <4>1
        <5> QED BY <4>1, <4>2, <5>1 DEF IsLeast
      <4>3. BestIdx \in examined /\ ~Near(BestIdx)
        BY <1>3, <4>1
      <4>4. \A j \in examined : j \in far /\ ~Near(j)
        BY <1>3, <3>2
      <4>5. ASSUME NEW j \in examined \ {BestIdx} PROVE better(BestIdx, j)
        <5>1. j \in far /\ ~Near(j) /\ j # BestIdx
          BY <4>4
        <5>2. Near(BestIdx) = Near(j)
          BY <4>3, <5>1 DEF Near
        <5> QED BY <4>2, <5>1, <5>2
      <4> QED BY <4>3, <4>5
    <3> QED BY <3>1, <3>2
  <2> HIDE DEF examined, better
  <2> QED BY <1>4, <2>1, <2>2, <2>3
<1>8. CASE Measure
  <2>1. Selected /\ chosen' = chosen
    BY <1>8 DEF Measure, Selected
  <2>2. Indices' = Indices /\ candidates' = candidates
    BY <1>8, CandidatesKept
  <2> QED BY <2>1, <2>2 DEF LeastCost, Valid
<1>9. CASE UNCHANGED vars
  BY <1>9 DEF vars, LeastCost, Selected, Indices, Valid
<1> QED BY <1>5, <1>6, <1>7, <1>8, <1>9 DEF Next

(* The ratios are whole when nothing is blocked.                            *)
LEMMA RatioStep == TypeOK /\ LayoutInv /\ RatioInv /\ [Next]_vars => RatioInv'
<1> SUFFICES ASSUME TypeOK, LayoutInv, RatioInv, [Next]_vars PROVE RatioInv'
  OBVIOUS
<1>1. CASE Sample \/ Evaluate \/ SetSpeed
  BY <1>1 DEF Sample, Evaluate, SetSpeed, RatioInv, Selected
<1>2. CASE SelectBlocked
  <2>1. ratios' = ratios /\ chosen' = -1 /\ pc = "select" /\ pc' = "measure" /\ mode' = mode
    BY <1>2 DEF SelectBlocked
  <2>2. PICK n \in Nat : Indices = 0 .. n - 1 /\ n >= 12
    BY <2>1, CandidateFacts
  <2>3. Window(0, 2 * NumOffsets) = {}
    BY <1>2, <2>2, BestIdxIsLeast DEF SelectBlocked
  <2>4. 0 \in Indices /\ 0 < 2 * NumOffsets
    BY <2>2, LayoutAssumption
  <2>5. ~AllValid
    BY <2>3, <2>4 DEF Window, AllValid
  <2>6. ~AllValid'
    BY <1>2, <2>5, CandidatesKept
  <2> QED BY <2>1, <2>6 DEF RatioInv
<1>3. CASE SelectBest
  <2>1. /\ chosen' = BestIdx /\ BestIdx # -1 /\ best_path' = candidates[BestIdx]
        /\ pc' = "measure" /\ mode' = mode
    BY <1>3 DEF SelectBest
  <2>2. candidates' = candidates /\ (AllValid <=> AllValid')
    BY <1>3, CandidatesKept
  <2>3. /\ Valid(BestIdx)
        /\ AllValid /\ mode # "va" => ratios'.very_long[1] = ratios'.very_long[2]
    BY <1>3, SelectedRatios
  <2>4. (DOMAIN ratios)' = {"ego", "valid", "very_long"} /\ \A r \in DOMAIN ratios' : ratios'[r] \in Nat \X Nat
    BY <1>3, SelectedRatios, RatiosType
  <2>5. Valid(chosen)' /\ best_path' = candidates'[chosen']
    BY <2>1, <2>2, <2>3 DEF Valid
  <2> QED BY <2>1, <2>2, <2>3, <2>4, <2>5 DEF RatioInv
<1>4. CASE Measure
  <2>1. pc = "measure" /\ pc' = "speed" /\ mode' = mode /\ chosen' = chosen
    BY <1>4 DEF Measure
  <2>2. AllValid <=> AllValid'
    BY <1>4, CandidatesKept
  <2>3. chosen = -1 => ~AllValid'
    BY <2>1, <2>2 DEF RatioInv, Selected
  <2>4. CASE mode # "va"
    <3>1. ratios' = ratios
      BY <1>4, <2>4 DEF Measure
    <3> QED BY <2>1, <2>2, <2>3, <2>4, <3>1 DEF RatioInv, Selected
  <2>5. CASE mode = "va"
    <3>1. PICK n \in Nat : Indices = 0 .. n - 1
      BY CandidateFacts
    <3>2. chosen # -1 => Found # -1 /\ Valid(Found)
      <4> SUFFICES ASSUME chosen # -1 PROVE Found # -1 /\ Valid(Found)
        OBVIOUS
      <4>1. best_path = candidates[chosen] /\ Valid(chosen) /\ chosen \in Indices
        BY <2>1 DEF RatioInv, TypeOK, Selected
      <4> QED BY <3>1, <4>1, FoundIsAlike DEF Valid
    <3>3. (DOMAIN ratios)' = {"ego", "valid", "very_long"} /\ \A r \in DOMAIN ratios' : ratios'[r] \in Nat \X Nat
      BY <1>4, <2>5, MeasuredRatios, RatiosType
    <3>4. AllValid' => /\ ratios'.ego[1] = ratios'.ego[2] /\ ratios'.valid[1] = ratios'.valid[2]
                       /\ ratios'.very_long[1] = ratios'.very_long[2]
      BY <1>4, <2>2, <2>3, <2>5, <3>2, MeasuredRatios
    <3> QED BY <2>1, <2>3, <2>5, <3>3, <3>4 DEF RatioInv, Selected
  <2> QED BY <2>4, <2>5
<1>5. CASE UNCHANGED vars
  BY <1>5 DEF vars, RatioInv, Selected, AllValid, Valid, Indices
<1> QED BY <1>1, <1>2, <1>3, <1>4, <1>5 DEF Next

(* The ratios of mode 3 stay near the path selected: what Found is at lies   *)
(* in the group of the selected path, for in the group before it, if there  *)
(* is one, nothing is valid; and a group fits in the narrowest window.      *)
LEMMA SelectedStep ==
  TypeOK /\ LayoutInv /\ LeastCost /\ RatioInv /\ SelectedCounted /\ [Next]_vars
    => SelectedCounted'
<1> SUFFICES ASSUME TypeOK, LayoutInv, LeastCost, RatioInv, SelectedCounted, [Next]_vars
             PROVE  SelectedCounted'
  OBVIOUS
<1>1. CASE Sample \/ Evaluate \/ SelectBlocked \/ SelectBest \/ SetSpeed
  BY <1>1 DEF Sample, Evaluate, SelectBlocked, SelectBest, SetSpeed, SelectedCounted
<1>2. CASE Measure
  <2>1. /\ pc = "measure" /\ mode' = mode /\ chosen' = chosen
        /\ candidates' = candidates /\ Indices' = Indices
    BY <1>2 DEF Measure, Indices
  <2>2. SUFFICES ASSUME mode = "va", chosen # -1
                 PROVE  \E k \in Indices :
                          /\ Valid(k) /\ candidates[k].offset = candidates[chosen].offset
                          /\ ratios' = RatiosAbout(k)
                          /\ chosen \in Around(k, VehicleCells \div 2)
    BY <2>1 DEF SelectedCounted, RatiosAbout, Share, Around, Valid
  <2>3. PICK n \in Nat : Indices = 0 .. n - 1
    BY CandidateFacts
  <2>4. best_path = candidates[chosen] /\ Valid(chosen) /\ chosen \in Indices /\ candidates[chosen].valid
    BY <2>1, <2>2 DEF RatioInv, TypeOK, Selected, Valid
  <2>5. /\ Found # -1 /\ Found \in Indices /\ Found <= chosen
        /\ candidates[Found].offset = candidates[chosen].offset /\ Valid(Found)
    BY <2>3, <2>4, FoundIsAlike DEF Valid
  <2>6. ratios' = RatiosAbout(Found)
    BY <1>2, <2>2, <2>5 DEF Measure
  <2>7. NumOffsets \in Nat /\ VehicleCells \div 2 \in Nat /\ 2 * NumOffsets - 1 <= VehicleCells \div 2
    BY LayoutAssumption, WindowAssumption
  <2>8. chosen \in Nat /\ Found \in Nat /\ chosen < 4 * NumOffsets /\ Found < 4 * NumOffsets
    BY <2>3, <2>4, <2>5, <2>7 DEF TypeOK
  <2>9. ~Near(chosen) => ~Near(Found)
    <3> DEFINE examined == {i \in Indices : i < 4 * NumOffsets /\ Valid(i)}
    <3>1. chosen \in examined /\ Found \in examined
      BY <2>4, <2>5, <2>8
    <3>2. \A j \in examined \ {chosen} : Near(j) => Near(chosen)
      BY <2>1, <3>1 DEF LeastCost, Selected, Near
    <3> QED BY <3>1, <3>2
  <2>10. chosen - Found <= 2 * NumOffsets - 1
    BY <2>7, <2>8, <2>9 DEF Near
  <2>11. chosen \in Around(Found, VehicleCells \div 2)
    BY <2>4, <2>5, <2>7, <2>8, <2>10 DEF Around, Abs
  <2> QED BY <2>5, <2>6, <2>11
<1>3. CASE UNCHANGED vars
  BY <1>3 DEF vars, SelectedCounted, RatiosAbout, Share, Around, Valid, Indices
<1> QED BY <1>1, <1>2, <1>3 DEF Next

(* When nothing is blocked no target speed is reduced for obstacles.        *)
LEMMA FullSpeed ==
  ASSUME TypeOK, RatioInv, AllValid, pc = "speed", NEW c \in Curves
  PROVE  (IF mode = "va" THEN TargetSpeedVA(c) ELSE TargetSpeed(c)) \in FullVels
<1> DEFINE ego == ratios.ego
           valid == ratios.valid
           far == ratios.very_long
<1>1. /\ ego[1] \in Nat /\ ego[2] \in Nat /\ ego[2] > 0
      /\ valid[1] \in Nat /\ valid[2] \in Nat /\ valid[2] > 0
      /\ far[1] \in Nat /\ far[2] \in Nat /\ far[2] > 0
  <2>1. "ego" \in DOMAIN ratios /\ "valid" \in DOMAIN ratios /\ "very_long" \in DOMAIN ratios
    BY DEF RatioInv
  <2>2. \A r \in DOMAIN ratios : ratios[r][1] \in Nat /\ ratios[r][2] \in Nat /\ ratios[r][2] > 0
    BY DEF RatioInv, TypeOK
  <2> QED BY <2>1, <2>2
<1>2. CASE mode = "va"
  <2>1. ego[1] = ego[2] /\ valid[1] = valid[2] /\ far[1] = far[2]
    BY <1>2 DEF RatioInv
  <2> HIDE DEF ego, valid, far
  <2>2. ~Below(ego, 70) /\ ~Below(valid, 50) /\ ~Below(far, 80)
    BY <1>1, <2>1 DEF Below
  <2>3. ObstacleFactor = 100
    BY <2>2 DEF ObstacleFactor, ego, valid, far
  <2>4. CurveLimit(c) \in {40, 60}
    BY DEF CurveLimit, TARGET_VEL
  <2>5. TargetSpeedVA(c) = CurveLimit(c)
    BY <2>3, <2>4 DEF TargetSpeedVA
  <2> QED BY <1>2, <2>4, <2>5 DEF FullVels, TARGET_VEL
<1>3. CASE mode # "va"
  <2>1. far[1] = far[2]
    BY <1>3 DEF RatioInv, Selected
  <2> HIDE DEF far
  <2>2. ~Below(far, 70)
    BY <1>1, <2>1 DEF Below
  <2>3. CASE c # "straight"
    BY <1>3, <2>3 DEF TargetSpeed, Curves, CurveVel, FullVels
  <2>4. CASE c = "straight" /\ ~Seen.overtaking
    BY <1>3, <2>4 DEF TargetSpeed, FullVels
  <2>5. CASE c = "straight" /\ Seen.overtaking
    BY <1>3, <2>2, <2>5 DEF TargetSpeed, FullVels, far
  <2> QED BY <2>3, <2>4, <2>5
<1> QED BY <1>2, <1>3

(* Only an obstacle reduces a target speed.                                 *)
LEMMA SlowStep == TypeOK /\ LayoutInv /\ RatioInv /\ SlowForCause /\ [Next]_vars => SlowForCause'
<1> SUFFICES ASSUME TypeOK, LayoutInv, RatioInv, SlowForCause, [Next]_vars PROVE SlowForCause'
  OBVIOUS
<1>1. CASE Sample \/ Evaluate \/ SelectBlocked \/ SelectBest \/ Measure
  BY <1>1 DEF Sample, Evaluate, SelectBlocked, SelectBest, Measure, SlowForCause
<1>2. CASE SetSpeed
  <2>1. pc = "speed" /\ mode' = mode /\ Seen' = Seen /\ (AllValid <=> AllValid')
    BY <1>2, CandidatesKept DEF SetSpeed
  <2>2. FullVels' = FullVels
    BY <2>1 DEF FullVels
  <2>3. ASSUME AllValid PROVE target_vel' \in FullVels
    <3>1. PICK c \in Curves : target_vel' \in {IF mode = "va" THEN TargetSpeedVA(c) ELSE TargetSpeed(c)}
                                               \union PathEndVel
      BY <1>2 DEF SetSpeed, Curves
    <3>2. PathEndVel \subseteq FullVels
      BY DEF FullVels
    <3> QED BY <2>1, <2>3, <3>1, <3>2, FullSpeed
  <2> QED BY <2>1, <2>2, <2>3 DEF SlowForCause, AllValid
<1>3. CASE UNCHANGED vars
  BY <1>3 DEF vars, SlowForCause, FullVels, Seen, Indices, Valid
<1> QED BY <1>1, <1>2, <1>3 DEF Next

----------------------------------------------------------------------------
(* The theorems.                                                            *)

(* What is known of a cycle and of the one before it: the inductive          *)
(* invariant from which the others follow.                                  *)
THEOREM InductiveCorrect == Spec => []IInv
<1>1. IInv /\ [Next]_vars => IInv'
  BY TypeStep, LayoutStep, EvaluatedStep, MemoryStep, LeastCostStep, RatioStep, SelectedStep,
     SlowStep DEF IInv
<1> QED BY InitInv, <1>1, PTL DEF Spec

(* The types are kept, and no validity ratio is a quotient by zero           *)
(* (calculatePathValidityRatios, LatticePlanning.cpp:608-760).              *)
THEOREM TypeCorrect == Spec => []TypeOK
<1>1. IInv => TypeOK
  BY DEF IInv
<1> QED BY InductiveCorrect, <1>1, PTL

(* selectBestPath takes the cheapest valid candidate of the first group that *)
(* has one, the leftmost of equals (LatticePlanning.cpp:551-606).           *)
THEOREM LeastCostCorrect == Spec => []LeastCost
<1>1. IInv => LeastCost
  BY DEF IInv
<1> QED BY InductiveCorrect, <1>1, PTL

(* In mode 3 the three ratios are those about a valid candidate of the       *)
(* selected offset, so near the selected one that each counts both          *)
(* (VALatticePlanning.cpp:479-551).                                         *)
THEOREM SelectedCountedCorrect == Spec => []SelectedCounted
<1>1. IInv => SelectedCounted
  BY DEF IInv
<1> QED BY InductiveCorrect, <1>1, PTL

(* A target speed is reduced for obstacles only when one is in the way of a  *)
(* candidate (getTargetSpeed, getTargetSpeedVA).                            *)
THEOREM SlowForCauseCorrect == Spec => []SlowForCause
<1>1. IInv => SlowForCause
  BY DEF IInv
<1> QED BY InductiveCorrect, <1>1, PTL

(* What costs no more than a candidate that would keep the offset, and does  *)
(* not keep it, has lower costs of its own.                                 *)
LEMMA ChangeHasAReason ==
  ASSUME IInv, SelectBest, best_path'.offset # best_path.offset,
         NEW i \in Indices, candidates[i].offset = best_path.offset,
         BestIdx \in Indices, candidates[BestIdx].cost <= candidates[i].cost
  PROVE  best_path'.own < candidates[i].own
<1>1. pc = "select" /\ best_path' = candidates[BestIdx] /\ last_selected_offset = best_path.offset
  BY DEF SelectBest, IInv, MemoryInv
<1>2. PICK widest \in Nat \ {0} : \A j \in Indices :
        candidates[j].cost = candidates[j].own * widest + ChangeWeight * Change(candidates[j])
  BY <1>1 DEF IInv, EvaluatedInv
<1> DEFINE old == candidates[i].own
           new == candidates[BestIdx].own
           change == Change(candidates[BestIdx])
<1>3. Change(candidates[i]) = 0 /\ old \in Nat /\ new \in Nat /\ change \in Nat /\ change >= 1
  <2>1. /\ old \in Nat /\ new \in Nat /\ last_selected_offset \in Int
        /\ candidates[i].offset \in Int /\ candidates[BestIdx].offset \in Int
    BY DEF IInv, TypeOK, Candidate
  <2>2. candidates[BestIdx].offset # last_selected_offset /\ candidates[i].offset = last_selected_offset
    BY <1>1
  <2> QED BY <2>1, <2>2 DEF Change, Abs
<1>4. ChangeWeight \in {30, 60}
  BY DEF ChangeWeight
<1>5. new * widest + ChangeWeight * change <= old * widest + ChangeWeight * 0
  BY <1>2, <1>3
<1> HIDE DEF old, new, change
<1>6. new < old
  <2>1. SUFFICES ASSUME old <= new PROVE FALSE
    BY <1>3
  <2>2. old * widest <= new * widest
    BY <1>3, <2>1
  <2>3. ChangeWeight * change > 0
    BY <1>3, <1>4
  <2>4. old * widest \in Int /\ new * widest \in Int /\ ChangeWeight * change \in Int
    BY <1>3, <1>4
  <2> QED BY <1>4, <1>5, <2>2, <2>3, <2>4
<1> QED BY <1>1, <1>6 DEF old, new

(* In an unchanged scene the selection moves only to lower its own costs:    *)
(* the path selected before is a candidate again, at no cost of change.     *)
LEMMA NoChatterStep ==
  ASSUME IInv, SelectBest, same, chosen # -1, best_path'.offset # best_path.offset
  PROVE  best_path'.own < best_path.own
<1>1. PICK n \in Nat : Indices = 0 .. n - 1
  BY CandidateFacts DEF IInv
<1>2. pc = "select" /\ BestIdx # -1
  BY DEF SelectBest
<1>3. Remembered
  BY DEF IInv, MemoryInv
<1>4. \A i \in Indices : candidates[i].own = OwnCost(candidates[i]) /\ Valid(i) = Passable(candidates[i])
  BY <1>2 DEF IInv, EvaluatedInv
<1>5. /\ chosen \in Indices /\ Valid(chosen) /\ candidates[chosen].own = best_path.own
      /\ candidates[chosen].offset = best_path.offset
  BY <1>3, <1>4 DEF Remembered, OwnCost, Passable
<1>6. NumOffsets \in Nat /\ chosen < 4 * NumOffsets /\ chosen \in Nat
  BY <1>1, <1>5, LayoutAssumption DEF IInv, TypeOK
<1>7. BestIdx \in Indices /\ candidates[BestIdx].cost <= candidates[chosen].cost
  <2>1. \A i \in Indices : candidates[i].cost \in Int
    BY DEF IInv, TypeOK, Candidate
  <2>2. CASE Near(chosen)
    <3>1. chosen \in Window(0, 2 * NumOffsets)
      BY <1>5, <1>6, <2>2 DEF Near, Window
    <3>2. IsLeast(BestIdx, Window(0, 2 * NumOffsets)) /\ BestIdx \in Window(0, 2 * NumOffsets)
      BY <1>1, <3>1, BestIdxIsLeast DEF IInv
    <3>3. BestIdx \in Indices
      BY <3>2 DEF Window
    <3> QED BY <1>2, <1>5, <2>1, <3>1, <3>2, <3>3 DEF IsLeast
  <2>3. CASE ~Near(chosen)
    <3>1. chosen \in Window(2 * NumOffsets, 4 * NumOffsets)
      BY <1>5, <1>6, <2>3 DEF Near, Window
    <3>2. Window(0, 2 * NumOffsets) = {}
      BY <1>3, <1>4, <2>3 DEF Remembered, Window, Near
    <3>3. IsLeast(BestIdx, Window(2 * NumOffsets, 4 * NumOffsets))
          /\ BestIdx \in Window(2 * NumOffsets, 4 * NumOffsets)
      BY <1>1, <3>1, <3>2, BestIdxIsLeast DEF IInv
    <3>4. BestIdx \in Indices
      BY <3>3 DEF Window
    <3> QED BY <1>2, <1>5, <2>1, <3>1, <3>3, <3>4 DEF IsLeast
  <2> QED BY <2>2, <2>3
<1> QED BY <1>5, <1>7, ChangeHasAReason

(* And whatever came before, the selection leaves its offset only for a path *)
(* cheaper in itself than all that keep it in the same group: the offset    *)
(* remembered is that of best_path, emptied or not.                         *)
LEMMA KeeperStep ==
  ASSUME IInv, SelectBest, best_path'.offset # best_path.offset,
         NEW i \in Keepers, i < 2 * NumOffsets <=> chosen' < 2 * NumOffsets
  PROVE  best_path'.own < candidates[i].own
<1>1. PICK n \in Nat : Indices = 0 .. n - 1
  BY CandidateFacts DEF IInv
<1>2. /\ i \in Indices /\ i \in Nat /\ i < 4 * NumOffsets /\ Valid(i)
      /\ candidates[i].offset = best_path.offset /\ NumOffsets \in Nat
  BY <1>1, LayoutAssumption DEF Keepers
<1>3. BestIdx # -1 /\ chosen' = BestIdx
  BY DEF SelectBest
<1> DEFINE near == Window(0, 2 * NumOffsets)
           far  == Window(2 * NumOffsets, 4 * NumOffsets)
<1>4. /\ near # {} => IsLeast(BestIdx, near) /\ BestIdx \in near
      /\ near = {} => IsLeast(BestIdx, far) /\ BestIdx \in far
  BY <1>1, <1>3, BestIdxIsLeast DEF IInv
<1>5. /\ \A j \in near : j \in Indices /\ j < 2 * NumOffsets
      /\ \A j \in far : j \in Indices /\ ~(j < 2 * NumOffsets)
      /\ i \in near \/ i \in far
  BY <1>1, <1>2 DEF Window
<1> HIDE DEF near, far
<1>6. \E W : i \in W /\ IsLeast(BestIdx, W) /\ BestIdx \in Indices
  BY <1>3, <1>4, <1>5
<1>7. \A j \in Indices : candidates[j].cost \in Int
  BY DEF IInv, TypeOK, Candidate
<1>8. BestIdx \in Indices /\ candidates[BestIdx].cost <= candidates[i].cost
  BY <1>2, <1>3, <1>6, <1>7 DEF IsLeast
<1> QED BY <1>2, <1>8, ChangeHasAReason

(* So the selection does not chatter between offsets                         *)
(* (evaluateAllCandidates, LatticePlanning.cpp:456, 497).                   *)
THEOREM NoChatterCorrect == Spec => NoChatter
<1> DEFINE Calm ==
      pc = "select" /\ chosen' # -1 /\ best_path'.offset # best_path.offset =>
        /\ same /\ chosen # -1 => best_path'.own < best_path.own
        /\ \A i \in Keepers : (i < 2 * NumOffsets <=> chosen' < 2 * NumOffsets)
                              => best_path'.own < candidates[i].own
<1>1. IInv /\ [Next]_vars => [Calm]_vars
  <2> SUFFICES ASSUME IInv, [Next]_vars PROVE Calm \/ UNCHANGED vars
    OBVIOUS
  <2>1. CASE Sample \/ Evaluate \/ SelectBlocked \/ Measure \/ SetSpeed
    BY <2>1 DEF Sample, Evaluate, SelectBlocked, Measure, SetSpeed
  <2>2. CASE SelectBest
    BY <2>2, NoChatterStep, KeeperStep
  <2> QED BY <2>1, <2>2 DEF Next
<1> QED BY InductiveCorrect, <1>1, PTL DEF Spec, NoChatter
=============================================================================
