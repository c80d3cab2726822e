---------------------------- MODULE RemoteProofs ----------------------------
(* The parts that talk to something remote: the bridge to the simulator, for *)
(* every size of its queue, any number of decisions and of failures; the     *)
(* window for the driving mode; the world of a simulator's client.           *)
EXTENDS CommandBridge, DrivingMode, GrpcWorld, TLAPS

USE BridgeAssumption DEF BridgeAssumption

(* What appending to a queue and taking from it do to its elements. *)
LEMMA AppendElements ==
  ASSUME NEW S, NEW q \in Seq(S), NEW e \in S
  PROVE  /\ Append(q, e) \in Seq(S) /\ Len(Append(q, e)) = Len(q) + 1
         /\ \A i \in 1 .. Len(q) + 1 :
              Append(q, e)[i] = IF i = Len(q) + 1 THEN e ELSE q[i]
  OBVIOUS

LEMMA TailElements ==
  ASSUME NEW S, NEW q \in Seq(S), q # << >>
  PROVE  /\ Len(q) \in Nat \ {0} /\ Head(q) = q[1] /\ Head(q) \in S
         /\ Tail(q) \in Seq(S) /\ Len(Tail(q)) = Len(q) - 1
         /\ \A i \in 1 .. Len(q) - 1 : Tail(q)[i] = q[i + 1]
  OBVIOUS

LEMMA DropAppendElements ==
  ASSUME NEW S, NEW q \in Seq(S), q # << >>, NEW e \in S
  PROVE  /\ Append(Tail(q), e) \in Seq(S) /\ Len(Append(Tail(q), e)) = Len(q)
         /\ \A i \in 1 .. Len(q) :
              Append(Tail(q), e)[i] = IF i = Len(q) THEN e ELSE q[i + 1]
  <1>1. PICK t : t = Tail(q)
    OBVIOUS
  <1>2. /\ t \in Seq(S) /\ Len(t) = Len(q) - 1 /\ Len(q) \in Nat \ {0}
        /\ \A i \in 1 .. Len(q) - 1 : t[i] = q[i + 1]
    BY <1>1, TailElements
  <1>3. /\ Append(t, e) \in Seq(S) /\ Len(Append(t, e)) = Len(t) + 1
        /\ \A i \in 1 .. Len(t) + 1 : Append(t, e)[i] = IF i = Len(t) + 1 THEN e ELSE t[i]
    BY <1>2, AppendElements
  <1>4. \A i \in 1 .. Len(q) : Append(t, e)[i] = IF i = Len(q) THEN e ELSE q[i + 1]
    BY <1>2, <1>3
  <1>5. Append(t, e) \in Seq(S) /\ Len(Append(t, e)) = Len(q)
    BY <1>2, <1>3
  <1> QED BY <1>1, <1>4, <1>5, Zenon

(* A published command is that of the latest decision, behind all that wait, *)
(* with the oldest dropped if there is no room.                              *)
LEMMA PublishElements ==
  ASSUME TypeOK, Publish
  PROVE  /\ queue' \in Seq(1 .. MaxDecisions) /\ Len(queue') <= QueueSize
         /\ \/ queue' = queue
            \/ \E d \in {0, 1} :
                 /\ Len(queue') = Len(queue) - d + 1
                 /\ \A i \in 1 .. Len(queue') :
                      \/ i = Len(queue') /\ queue'[i] = wanted
                      \/ i + d \in 1 .. Len(queue) /\ queue'[i] = queue[i + d]
  <1> DEFINE C == 1 .. MaxDecisions
  <1>1. wanted \in C /\ queue \in Seq(C) /\ Len(queue) <= QueueSize /\ Len(queue) \in Nat
    BY DEF TypeOK, Publish
  <1>2. CASE queue' = queue
    BY <1>1, <1>2
  <1>3. CASE Len(queue) < QueueSize /\ queue' = Append(queue, wanted)
    <2>1. /\ Append(queue, wanted) \in Seq(C) /\ Len(Append(queue, wanted)) = Len(queue) + 1
          /\ \A i \in 1 .. Len(queue) + 1 :
               Append(queue, wanted)[i] = IF i = Len(queue) + 1 THEN wanted ELSE queue[i]
      BY <1>1, AppendElements
    <2>2. Len(queue') = Len(queue) - 0 + 1 /\ Len(queue') <= QueueSize
      BY <2>1, <1>1, <1>3
    <2>3. \A i \in 1 .. Len(queue') :
            \/ i = Len(queue') /\ queue'[i] = wanted
            \/ i + 0 \in 1 .. Len(queue) /\ queue'[i] = queue[i + 0]
      BY <2>1, <1>1, <1>3
    <2> QED BY <2>1, <2>2, <2>3, <1>3
  <1>4. CASE ~(Len(queue) < QueueSize) /\ queue' = Append(Tail(queue), wanted)
    <2>1. queue # << >> /\ Len(queue) = QueueSize
      BY <1>1, <1>4
    <2>2. /\ queue' \in Seq(C) /\ Len(queue') = Len(queue)
          /\ \A i \in 1 .. Len(queue) :
               queue'[i] = IF i = Len(queue) THEN wanted ELSE queue[i + 1]
      BY <2>1, <1>1, <1>4, DropAppendElements
    <2>3. Len(queue') = Len(queue) - 1 + 1 /\ Len(queue') <= QueueSize
      BY <2>1, <2>2, <1>1
    <2>4. \A i \in 1 .. Len(queue') :
            \/ i = Len(queue') /\ queue'[i] = wanted
            \/ i + 1 \in 1 .. Len(queue) /\ queue'[i] = queue[i + 1]
      BY <2>2, <1>1
    <2> QED BY <2>2, <2>3, <2>4
  <1> QED BY <1>2, <1>3, <1>4 DEF Publish

LEMMA TypeStep == TypeOK /\ [Next]_vars => TypeOK'
  <1> SUFFICES ASSUME TypeOK, [Next]_vars PROVE TypeOK'
    OBVIOUS
  <1> USE DEF TypeOK
  <1>1. CASE Decide
    BY <1>1 DEF Decide
  <1>2. CASE Publish
    <2>1. queue' \in Seq(1 .. MaxDecisions) /\ Len(queue') <= QueueSize
      BY <1>2, PublishElements
    <2> QED BY <2>1, <1>2 DEF Publish
  <1>3. CASE Connect
    BY <1>3 DEF Connect
  <1>4. CASE SetAutoMode
    BY <1>4 DEF SetAutoMode
  <1>5. CASE Take
    <2>1. /\ Head(queue) \in 1 .. MaxDecisions /\ Tail(queue) \in Seq(1 .. MaxDecisions)
          /\ Len(Tail(queue)) = Len(queue) - 1
      BY <1>5, TailElements DEF Take
    <2> QED BY <2>1, <1>5 DEF Take
  <1>6. CASE Call
    BY <1>6 DEF Call
  <1>7. CASE CallFails
    BY <1>7 DEF CallFails
  <1>8. CASE SimDown
    BY <1>8 DEF SimDown
  <1>9. CASE SimHangs
    BY <1>9 DEF SimHangs
  <1>10. CASE SimUp
    BY <1>10 DEF SimUp
  <1>11. CASE AnyoneSetsMode
    BY <1>11 DEF AnyoneSetsMode
  <1>12. CASE UNCHANGED vars
    BY <1>12 DEF vars
  <1> QED
    BY <1>1, <1>2, <1>3, <1>4, <1>5, <1>6, <1>7, <1>8, <1>9, <1>10, <1>11, <1>12
    DEF Next, Bridge

(* The types, for every size of the queue: it never overflows. *)
THEOREM TypeCorrect == Spec => []TypeOK
  <1>1. Init => TypeOK
    BY DEF Init, TypeOK
  <1> QED BY <1>1, TypeStep, PTL DEF Spec

(* One command is sent at a time and taken from the front, and what comes    *)
(* in is the latest decision, so the order is kept.                          *)
LEMMA OrderStep == TypeOK /\ OrderInv /\ [Next]_vars => OrderInv'
  <1> SUFFICES ASSUME TypeOK, OrderInv, [Next]_vars PROVE OrderInv'
    OBVIOUS
  <1>0. /\ wanted \in Nat /\ req \in Nat /\ followed \in Nat /\ Len(queue) \in Nat
        /\ \A i \in 1 .. Len(queue) : queue[i] \in Nat
    BY DEF TypeOK
  <1> USE DEF OrderInv
  <1>1. CASE Decide
    BY <1>0, <1>1 DEF Decide
  <1>2. CASE Publish
    <2>1. UNCHANGED <<wanted, req, followed>>
      BY <1>2 DEF Publish
    <2>2. CASE queue' = queue
      BY <2>1, <2>2
    <2>3. CASE queue' # queue
      <3>1. PICK d \in {0, 1} :
              /\ Len(queue') = Len(queue) - d + 1
              /\ \A i \in 1 .. Len(queue') :
                   \/ i = Len(queue') /\ queue'[i] = wanted
                   \/ i + d \in 1 .. Len(queue) /\ queue'[i] = queue[i + d]
        BY <1>2, <2>3, PublishElements
      <3>2. Len(queue') \in Int
        BY <3>1, <1>0
      <3>3. \A i \in 1 .. Len(queue') : req <= queue'[i] /\ queue'[i] <= wanted
        BY <3>1, <1>0
      <3>4. ASSUME NEW i \in 1 .. Len(queue'), NEW j \in 1 .. Len(queue'), i <= j
            PROVE  queue'[i] <= queue'[j]
        <4>1. CASE queue'[j] = wanted
          BY <4>1, <3>3
        <4>2. CASE queue'[j] # wanted
          <5>1. j # Len(queue') /\ j + d \in 1 .. Len(queue) /\ queue'[j] = queue[j + d]
            BY <4>2, <3>1
          <5>2. i + d \in 1 .. Len(queue) /\ queue'[i] = queue[i + d]
            BY <5>1, <3>1, <3>2, <3>4
          <5> QED BY <5>1, <5>2, <3>4
        <4> QED BY <4>1, <4>2
      <3> QED BY <3>3, <3>4, <2>1
    <2> QED BY <2>2, <2>3
  <1>3. CASE Connect
    BY <1>3 DEF Connect
  <1>4. CASE SetAutoMode
    BY <1>4 DEF SetAutoMode
  <1>5. CASE Take
    <2>1. /\ Len(queue) \in Nat \ {0} /\ req' = queue[1]
          /\ Len(queue') = Len(queue) - 1
          /\ \A i \in 1 .. Len(queue) - 1 : queue'[i] = queue[i + 1]
      BY <1>5, TailElements DEF Take, TypeOK
    <2>2. UNCHANGED <<wanted, followed>>
      BY <1>5 DEF Take
    <2>3. \A i \in 1 .. Len(queue') : req' <= queue'[i] /\ queue'[i] <= wanted
      BY <2>1, <1>0
    <2>4. \A i, j \in 1 .. Len(queue') : i <= j => queue'[i] <= queue'[j]
      <3> SUFFICES ASSUME NEW i \in 1 .. Len(queue'), NEW j \in 1 .. Len(queue'), i <= j
                   PROVE  queue'[i] <= queue'[j]
        OBVIOUS
      <3>1. queue'[i] = queue[i + 1] /\ queue'[j] = queue[j + 1]
        BY <2>1
      <3>2. i + 1 \in 1 .. Len(queue) /\ j + 1 \in 1 .. Len(queue) /\ i + 1 <= j + 1
        BY <2>1
      <3> QED BY <3>1, <3>2
    <2>5. followed <= req' /\ req' <= wanted
      BY <2>1, <1>0
    <2> QED BY <2>2, <2>3, <2>4, <2>5
  <1>6. CASE Call
    BY <1>0, <1>6 DEF Call
  <1>7. CASE CallFails
    BY <1>7 DEF CallFails
  <1>8. CASE SimDown
    BY <1>8 DEF SimDown
  <1>9. CASE SimHangs
    BY <1>9 DEF SimHangs
  <1>10. CASE SimUp
    BY <1>10 DEF SimUp
  <1>11. CASE AnyoneSetsMode
    BY <1>11 DEF AnyoneSetsMode
  <1>12. CASE UNCHANGED vars
    BY <1>12 DEF vars
  <1> QED
    BY <1>1, <1>2, <1>3, <1>4, <1>5, <1>6, <1>7, <1>8, <1>9, <1>10, <1>11, <1>12
    DEF Next, Bridge

(* Only Call gives the vehicle a command, and what it sends is no older than *)
(* any that was followed.                                                    *)
LEMMA NeverBack ==
  TypeOK /\ OrderInv /\ [Next]_vars
    => [sim' # "down" => applied' = applied \/ applied' >= followed]_vars
  <1> SUFFICES ASSUME TypeOK, OrderInv, [Next]_vars, sim' # "down"
               PROVE  applied' = applied \/ applied' >= followed
    OBVIOUS
  <1>1. followed \in Int /\ req \in Int /\ followed <= req
    BY DEF TypeOK, OrderInv
  <1>2. CASE Call
    BY <1>1, <1>2 DEF Call
  <1>3. CASE applied' = applied
    BY <1>3
  <1> QED
    BY <1>2, <1>3 DEF Next, Bridge, Decide, Publish, Connect, SetAutoMode, Take, CallFails,
       SimDown, SimHangs, SimUp, AnyoneSetsMode, vars

(* Whatever is dropped, lost or refused, no vehicle comes to follow an older *)
(* command than one followed before, for every size of the queue (InOrder).  *)
THEOREM OrderCorrect == Spec => InOrder
  <1>1. Init => OrderInv
    BY DEF Init, OrderInv
  <1> QED BY <1>1, TypeCorrect, OrderStep, NeverBack, PTL DEF Spec, InOrder

----------------------------------------------------------------------------
(* driving_mode_ui.py and the cycles that plan with its mode.               *)

\* Where a cycle has come to says what its costs were made with.
CycleInv == planner = "evaluated" => cost = current_mode
ModeInv == OneMode /\ CycleInv

----------------------------------------------------------------------------
(* A message more, whether the queue was full or not, leaves a queue of     *)
(* modes no longer than before or than its size (driving_mode_ui.py:22).    *)
LEMMA EnqueueKeepsType ==
  ASSUME NEW q \in Seq(Modes), Len(q) <= ModeQueueSize, NEW m \in Modes
  PROVE  Enqueue(q, m) \in Seq(Modes) /\ Len(Enqueue(q, m)) <= ModeQueueSize
<1>1. CASE Len(q) < ModeQueueSize
  BY <1>1, ModeQueueAssumption DEF Enqueue
<1>2. CASE ~(Len(q) < ModeQueueSize)
  <2>1. Len(q) = ModeQueueSize /\ q # << >>
    BY <1>2, ModeQueueAssumption
  <2>2. Tail(q) \in Seq(Modes) /\ Len(Tail(q)) = Len(q) - 1
    BY <2>1
  <2>3. Enqueue(q, m) = Append(Tail(q), m)
    BY <1>2 DEF Enqueue
  <2> QED BY <2>1, <2>2, <2>3
<1> QED BY <1>1, <1>2

(* What a window that closes leaves of the queue is a part of it.           *)
LEMMA RestOfQueue ==
  ASSUME NEW q \in Seq(Modes), NEW n \in 0 .. Len(q)
  PROVE  SubSeq(q, 1, n) \in Seq(Modes) /\ Len(SubSeq(q, 1, n)) = n
OBVIOUS

(* Every step of window, connection and planner keeps the types.            *)
LEMMA ModeTypeStep ==
  ASSUME ModeTypeOK, [ModeNext]_mode_vars
  PROVE  ModeTypeOK'
<1> USE NoModeAssumption DEF ModeTypeOK
<1>1. ASSUME NEW m \in Modes, SetMode(m)
      PROVE  window' = m /\ mode_queue' \in Seq(Modes) /\ Len(mode_queue') <= ModeQueueSize
             /\ sent' \in Modes \union {NoMode}
  BY <1>1, EnqueueKeepsType DEF SetMode
<1>2. CASE OpenWindow
  <2>1. SetMode(0) /\ 0 \in Modes
    BY <1>2 DEF OpenWindow, Modes
  <2>2. window' = 0 /\ mode_queue' \in Seq(Modes) /\ Len(mode_queue') <= ModeQueueSize
        /\ sent' \in Modes \union {NoMode}
    BY <1>1, <2>1
  <2>3. connected' => window' # NoMode /\ planner' # "down"
    BY <1>2, <2>2 DEF OpenWindow
  <2> QED BY <1>2, <2>1, <2>2, <2>3 DEF OpenWindow
<1>3. CASE Press
  <2>1. PICK m \in Modes : SetMode(m)
    BY <1>3 DEF Press
  <2>2. window' = m /\ mode_queue' \in Seq(Modes) /\ Len(mode_queue') <= ModeQueueSize
        /\ sent' \in Modes \union {NoMode}
    BY <1>1, <2>1
  <2>3. connected' => window' # NoMode /\ planner' # "down"
    BY <1>3, <2>2 DEF Press, Modes
  <2> QED BY <1>3, <2>2, <2>3 DEF Press
<1>4. CASE CloseWindow
  <2>1. PICK n \in 0 .. Len(mode_queue) : mode_queue' = SubSeq(mode_queue, 1, n)
    BY <1>4 DEF CloseWindow
  <2>2. mode_queue' \in Seq(Modes) /\ Len(mode_queue') <= ModeQueueSize
    <3>1. mode_queue' \in Seq(Modes) /\ Len(mode_queue') = n
      BY <2>1, RestOfQueue
    <3> QED BY <2>1, <3>1, ModeQueueAssumption
  <2> QED BY <1>4, <2>2 DEF CloseWindow, Disconnect
<1>5. CASE ConnectWindow
  BY <1>5 DEF ConnectWindow
<1>6. CASE StartPlanner
  <2>1. 0 \in Modes
    BY DEF Modes
  <2>2. ~connected'
    BY <1>6 DEF StartPlanner
  <2> QED BY <1>6, <2>1, <2>2 DEF StartPlanner
<1>7. CASE StopPlanner
  <2>1. mode_queue' \in Seq(Modes) /\ Len(mode_queue') <= ModeQueueSize
    BY <1>7, ModeQueueAssumption DEF StopPlanner
  <2>2. ~connected'
    BY <1>7 DEF StopPlanner, Disconnect
  <2> QED BY <1>7, <2>1, <2>2 DEF StopPlanner, Disconnect
<1>8. CASE DrivingModeCallback
  <2>1. mode_queue \in Seq(Modes) /\ mode_queue # << >>
    BY <1>8 DEF DrivingModeCallback
  <2>2. Head(mode_queue) \in Modes /\ Tail(mode_queue) \in Seq(Modes)
        /\ Len(Tail(mode_queue)) = Len(mode_queue) - 1
    BY <2>1
  <2>3. Len(mode_queue') <= ModeQueueSize
    BY <1>8, <2>2, ModeQueueAssumption DEF DrivingModeCallback
  <2> QED BY <1>8, <2>2, <2>3 DEF DrivingModeCallback
<1>9. CASE Cycle
  BY <1>9 DEF Cycle, StartCycle, EvaluateAllCandidates, GetTargetSpeed
<1>10. CASE UNCHANGED mode_vars
  BY <1>10 DEF mode_vars
<1> QED
  BY <1>2, <1>3, <1>4, <1>5, <1>6, <1>7, <1>8, <1>9, <1>10 DEF ModeNext

(* No step mixes two modes: only StartCycle reads the mode, and no cycle    *)
(* starts before the last one has set its speed.                            *)
LEMMA ModeStep == ModeInv /\ [ModeNext]_mode_vars => ModeInv'
<1> SUFFICES ASSUME ModeInv, [ModeNext]_mode_vars PROVE ModeInv'
  OBVIOUS
<1> USE DEF ModeInv, OneMode, CycleInv
<1>1. CASE OpenWindow \/ Press \/ CloseWindow \/ ConnectWindow
  BY <1>1 DEF OpenWindow, Press, SetMode, CloseWindow, Disconnect, ConnectWindow
<1>2. CASE StartPlanner \/ StopPlanner
  BY <1>2 DEF StartPlanner, StopPlanner, Disconnect
<1>3. CASE DrivingModeCallback
  BY <1>3 DEF DrivingModeCallback
<1>4. CASE StartCycle
  BY <1>4 DEF StartCycle
<1>5. CASE EvaluateAllCandidates
  BY <1>5 DEF EvaluateAllCandidates
<1>6. CASE GetTargetSpeed
  BY <1>6 DEF GetTargetSpeed
<1>7. CASE UNCHANGED mode_vars
  BY <1>7 DEF mode_vars
<1> QED
  BY <1>1, <1>2, <1>3, <1>4, <1>5, <1>6, <1>7 DEF ModeNext, Cycle

----------------------------------------------------------------------------
(* The types, for every size of the queue: it is never longer than its      *)
(* size, and a connection has a window and a planner.                       *)
THEOREM ModeTypeCorrect == ModeSpec => []ModeTypeOK
<1>1. ModeInit => ModeTypeOK
  <2> SUFFICES ASSUME ModeInit PROVE ModeTypeOK
    OBVIOUS
  <2>1. mode_queue \in Seq(Modes) /\ Len(mode_queue) <= ModeQueueSize
    BY ModeQueueAssumption DEF ModeInit
  <2>2. 0 \in Modes
    BY DEF Modes
  <2> QED BY <2>1, <2>2 DEF ModeInit, ModeTypeOK
<1>2. ModeTypeOK /\ [ModeNext]_mode_vars => ModeTypeOK'
  BY ModeTypeStep
<1> QED BY <1>1, <1>2, PTL DEF ModeSpec

(* A vehicle never has the speed of one mode on a path chosen by the other, *)
(* whatever is pressed, lost or restarted while a cycle plans.              *)
THEOREM OneModeCorrect == ModeSpec => []OneMode
<1>1. ModeInit => ModeInv
  BY DEF ModeInit, ModeInv, OneMode, CycleInv
<1>2. ModeInv => OneMode
  BY DEF ModeInv
<1> QED BY <1>1, <1>2, ModeStep, PTL DEF ModeSpec

----------------------------------------------------------------------------
(* The client of the simulator (simulation_world.py).                       *)

Worlds == [actors : Tables, sync : BOOLEAN]

----------------------------------------------------------------------------
(* A world that is made knows nothing, and what may be left of an earlier   *)
(* one is not confirmed (simulation_world.py:33-44).                        *)
LEMMA ConstructFresh ==
  ASSUME NEW held \in Tables, NEW type \in BOOLEAN, NEW confirmed \in BOOLEAN,
         Construct(held, type, confirmed)
  PROVE  /\ world' = [actors |-> Empty, sync |-> type] /\ world' \in Worlds
         /\ actors' \in Tables
         /\ unsure' \in [actors : SUBSET Ids, sync : BOOLEAN]
         /\ unsure'.sync = ~confirmed
         /\ \A id \in Ids : actors'[id] # None => id \in unsure'.actors
<1>1. Empty \in Tables
  BY DEF Empty, Tables
<1>2. world' = [actors |-> Empty, sync |-> type] /\ world' \in Worlds
  BY <1>1 DEF Construct, NewWorld, Worlds
<1>3. CASE actors' = Empty /\ unsure' = [actors |-> {}, sync |-> ~confirmed]
  BY <1>1, <1>2, <1>3 DEF Empty
<1>4. CASE actors' = held
           /\ unsure' = [actors |-> {id \in Ids : held[id] # None}, sync |-> ~confirmed]
  BY <1>2, <1>4
<1> QED BY <1>3, <1>4 DEF Construct

(* Every call, crash and restart keeps the types.                           *)
LEMMA WorldTypeStep == WorldTypeOK /\ [WorldNext]_world_vars => WorldTypeOK'
<1> SUFFICES ASSUME WorldTypeOK, [WorldNext]_world_vars PROVE WorldTypeOK'
  OBVIOUS
<1> DEFINE Unsures == [actors : SUBSET Ids, sync : BOOLEAN]
<1>0. /\ actors \in Tables /\ sync \in BOOLEAN /\ unsure \in Unsures
      /\ world # None => world \in Worlds
      /\ Empty \in Tables
  BY DEF WorldTypeOK, Worlds, Tables, Empty
<1>1. CASE Spawn
  <2>1. PICK id \in Free, kind \in Kinds : Spawned(id, kind) \/ SpawnUnanswered(id, kind)
    BY <1>1 DEF Spawn
  <2>2. id \in Ids
    BY <2>1 DEF Free
  <2>3. actors' \in Tables
    BY <1>0, <2>1, <2>2 DEF Spawned, SpawnUnanswered, Tables
  <2>4. world' \in Worlds
    BY <1>0, <1>1, <2>1, <2>2 DEF Spawn, Spawned, SpawnUnanswered, Worlds, Tables
  <2>5. unsure' \in Unsures
    BY <1>0, <2>1, <2>2 DEF Spawned, SpawnUnanswered
  <2> QED BY <1>0, <1>1, <2>3, <2>4, <2>5 DEF Spawn, WorldTypeOK, Worlds
<1>2. CASE Destroy
  BY <1>0, <1>2 DEF Destroy, WorldTypeOK, Tables, Worlds, Held
<1>3. CASE DestroyAllActors
  BY <1>0, <1>3 DEF DestroyAllActors, WorldTypeOK, Worlds
<1>4. CASE SetSynchronousMode
  BY <1>0, <1>4 DEF SetSynchronousMode, WorldTypeOK, Worlds
<1>5. CASE GetSynchronousMode
  BY <1>0, <1>5 DEF GetSynchronousMode, WorldTypeOK, Worlds
<1>6. CASE StartSimulation
  <2>1. PICK type \in BOOLEAN : Started(type) \/ SameMap(type) \/ StartUnanswered(type)
    BY <1>6 DEF StartSimulation
  <2>2. CASE Started(type)
    BY <1>0, <2>2, ConstructFresh DEF Started, WorldTypeOK, Worlds
  <2>3. CASE SameMap(type)
    BY <1>0, <2>3, ConstructFresh DEF SameMap, WorldTypeOK, Worlds
  <2>4. CASE StartUnanswered(type)
    BY <1>0, <2>4 DEF StartUnanswered, WorldTypeOK
  <2> QED BY <2>1, <2>2, <2>3, <2>4
<1>7. CASE Finalize \/ ClientCrash
  BY <1>0, <1>7 DEF Finalize, ClientCrash, WorldTypeOK
<1>8. CASE SimulatorRestart
  BY <1>0, <1>8 DEF SimulatorRestart, WorldTypeOK
<1>9. CASE UNCHANGED world_vars
  BY <1>9 DEF world_vars, WorldTypeOK
<1> QED
  BY <1>1, <1>2, <1>3, <1>4, <1>5, <1>6, <1>7, <1>8, <1>9 DEF WorldNext

(* No step makes the client forget or mistake an actor that was confirmed.  *)
LEMMA KnownStep == WorldTypeOK /\ Known /\ [WorldNext]_world_vars => Known'
<1> SUFFICES ASSUME WorldTypeOK, Known, [WorldNext]_world_vars,
                    world' # None, NEW id \in Ids, actors'[id] # None, id \notin unsure'.actors
             PROVE  world'.actors[id] = actors'[id]
  BY DEF Known, Held
<1>0. /\ actors \in Tables /\ unsure \in [actors : SUBSET Ids, sync : BOOLEAN]
      /\ world # None => world \in Worlds
      /\ Empty \in Tables /\ Empty[id] = None
  BY DEF WorldTypeOK, Worlds, Tables, Empty
<1>1. world # None /\ actors[id] # None /\ id \notin unsure.actors => world.actors[id] = actors[id]
  BY DEF Known, Held
<1>2. CASE Spawn
  <2>1. PICK new \in Free, kind \in Kinds : Spawned(new, kind) \/ SpawnUnanswered(new, kind)
    BY <1>2 DEF Spawn
  <2>2. world # None /\ world \in Worlds
    BY <1>0, <1>2 DEF Spawn
  <2>3. CASE Spawned(new, kind)
    <3>1. CASE id = new
      BY <1>0, <2>2, <2>3, <3>1 DEF Spawned, Worlds, Tables
    <3>2. CASE id # new
      BY <1>0, <1>1, <2>2, <2>3, <3>2 DEF Spawned, Worlds, Tables
    <3> QED BY <3>1, <3>2
  <2>4. CASE SpawnUnanswered(new, kind)
    BY <1>0, <1>1, <2>2, <2>4 DEF SpawnUnanswered, Tables
  <2> QED BY <2>1, <2>3, <2>4
<1>3. CASE Destroy
  BY <1>0, <1>1, <1>3 DEF Destroy, Tables
<1>4. CASE DestroyAllActors
  BY <1>0, <1>4 DEF DestroyAllActors
<1>5. CASE SetSynchronousMode
  BY <1>0, <1>1, <1>5 DEF SetSynchronousMode, Worlds
<1>6. CASE GetSynchronousMode
  BY <1>0, <1>1, <1>6 DEF GetSynchronousMode, Worlds
<1>7. CASE StartSimulation
  <2>1. PICK type \in BOOLEAN : Started(type) \/ SameMap(type) \/ StartUnanswered(type)
    BY <1>7 DEF StartSimulation
  <2>2. CASE Started(type)
    BY <1>0, <2>2, ConstructFresh DEF Started
  <2>3. CASE SameMap(type)
    BY <1>0, <2>3, ConstructFresh DEF SameMap
  <2>4. CASE StartUnanswered(type)
    BY <1>0, <2>4 DEF StartUnanswered
  <2> QED BY <2>1, <2>2, <2>3, <2>4
<1>8. CASE Finalize \/ ClientCrash
  BY <1>8 DEF Finalize, ClientCrash
<1>9. CASE SimulatorRestart
  BY <1>0, <1>9 DEF SimulatorRestart
<1>10. CASE UNCHANGED world_vars
  BY <1>1, <1>10 DEF world_vars
<1> QED
  BY <1>2, <1>3, <1>4, <1>5, <1>6, <1>7, <1>8, <1>9, <1>10 DEF WorldNext

(* No step takes client and simulator apart in their mode unnoticed.        *)
LEMMA InStepStep == WorldTypeOK /\ InStep /\ [WorldNext]_world_vars => InStep'
<1> SUFFICES ASSUME WorldTypeOK, InStep, [WorldNext]_world_vars, world' # None, ~unsure'.sync
             PROVE  world'.sync = sync'
  BY DEF InStep, MayTick, MayWaitForTick
<1>0. /\ actors \in Tables /\ sync \in BOOLEAN
      /\ unsure \in [actors : SUBSET Ids, sync : BOOLEAN]
      /\ world # None => world \in Worlds
      /\ Empty \in Tables
  BY DEF WorldTypeOK, Worlds, Tables, Empty
<1>1. world # None /\ ~unsure.sync => world.sync = sync
  BY <1>0 DEF InStep, MayTick, MayWaitForTick, Worlds
<1>2. CASE Spawn
  BY <1>0, <1>1, <1>2 DEF Spawn, Spawned, SpawnUnanswered, Worlds
<1>3. CASE Destroy \/ DestroyAllActors
  BY <1>0, <1>1, <1>3 DEF Destroy, DestroyAllActors
<1>4. CASE SetSynchronousMode
  BY <1>0, <1>4 DEF SetSynchronousMode, Worlds
<1>5. CASE GetSynchronousMode
  BY <1>0, <1>5 DEF GetSynchronousMode, Worlds
<1>6. CASE StartSimulation
  <2>1. PICK type \in BOOLEAN : Started(type) \/ SameMap(type) \/ StartUnanswered(type)
    BY <1>6 DEF StartSimulation
  <2>2. CASE Started(type)
    <3>1. sync' = type /\ Construct(Empty, type, TRUE)
      BY <2>2 DEF Started
    <3>2. world' = [actors |-> Empty, sync |-> type]
      BY <1>0, <3>1, ConstructFresh
    <3> QED BY <3>1, <3>2
  <2>3. CASE SameMap(type)
    BY <1>0, <2>3, ConstructFresh DEF SameMap
  <2>4. CASE StartUnanswered(type)
    BY <2>4 DEF StartUnanswered
  <2> QED BY <2>1, <2>2, <2>3, <2>4
<1>7. CASE Finalize \/ ClientCrash
  BY <1>7 DEF Finalize, ClientCrash
<1>8. CASE SimulatorRestart
  BY <1>8 DEF SimulatorRestart
<1>9. CASE UNCHANGED world_vars
  BY <1>1, <1>9 DEF world_vars
<1> QED
  BY <1>2, <1>3, <1>4, <1>5, <1>6, <1>7, <1>8, <1>9 DEF WorldNext

----------------------------------------------------------------------------
(* The types, for every set of ids and kinds.                               *)
THEOREM WorldTypeCorrect == WorldSpec => []WorldTypeOK
<1>1. WorldInit => WorldTypeOK
  <2> SUFFICES ASSUME WorldInit PROVE WorldTypeOK
    OBVIOUS
  <2>1. Empty \in Tables
    BY DEF Tables, Empty
  <2> QED BY <2>1 DEF WorldInit, WorldTypeOK
<1> QED BY <1>1, WorldTypeStep, PTL DEF WorldSpec

(* A client finds every actor of its key that was confirmed, as what it is, *)
(* however many clients crashed before it and whatever ids were used again. *)
THEOREM KnownCorrect == WorldSpec => []Known
<1>1. WorldInit => Known
  BY DEF WorldInit, Known
<1> QED BY <1>1, WorldTypeCorrect, KnownStep, PTL DEF WorldSpec

(* Ticks go to a simulator that waits for them, and to no other, as long as *)
(* the last change of its mode was confirmed.                               *)
THEOREM InStepCorrect == WorldSpec => []InStep
<1>1. WorldInit => InStep
  BY DEF WorldInit, InStep
<1> QED BY <1>1, WorldTypeCorrect, InStepStep, PTL DEF WorldSpec
=============================================================================
