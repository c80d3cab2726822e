--------------------------- MODULE CommandBridge ---------------------------
(***************************************************************************)
(* ros_ctrl_to_grpc_bridge.py: commands of the control loop, published on  *)
(* /ctrl_cmd_0, are handed to the simulator by one remote call each.  The  *)
(* vehicle follows them only in AUTO mode, which the bridge sets once, as  *)
(* it starts.  A call that fails is answered by None and not repeated; one  *)
(* that is not answered has no deadline.                                   *)
(*                                                                         *)
(* A command is the number of the decision it carries; the control loop    *)
(* publishes the latest decision again and again.                          *)
(***************************************************************************)
EXTENDS Integers, Sequences

CONSTANTS
  QueueSize,     \* 10: queue_size of the subscriber
  MaxDecisions,  \* bound on decisions taken
  MaxDowns       \* bound on failures of the simulator

ASSUME BridgeAssumption == QueueSize \in Nat \ {0} /\ MaxDecisions \in Nat /\ MaxDowns \in Nat

VARIABLES
  wanted,   \* the control loop's latest decision
  queue,    \* of the subscriber, oldest first
  pc,       \* the bridge: "start", "mode", "idle", "call"
  req,      \* the command being sent
  sim,      \* the simulator: "up", "hung" (it takes calls and does not answer), "down"
  mode,     \* control mode of its vehicle
  applied,  \* the command its vehicle follows, 0 for none
  followed, \* history: the last one that any vehicle has followed
  downs
vars == <<wanted, queue, pc, req, sim, mode, applied, followed, downs>>

Init ==
  /\ wanted = 0 /\ queue = << >>
  /\ pc = "start" /\ req = 0
  /\ sim \in {"up", "down"} /\ mode = "KEYBOARD" /\ applied = 0 /\ followed = 0
  /\ downs = 0

----------------------------------------------------------------------------
(* The control loop. *)

Decide ==
  /\ wanted < MaxDecisions
  /\ wanted' = wanted + 1
  /\ UNCHANGED <<queue, pc, req, sim, mode, applied, followed, downs>>

Subscribed == pc \in {"idle", "call"}

\* Mutant: a queue without a limit.
PublishUnbounded ==
  /\ wanted > 0
  /\ queue' = IF Subscribed THEN Append(queue, wanted) ELSE queue
  /\ UNCHANGED <<wanted, pc, req, sim, mode, applied, followed, downs>>

\* Mutant: a decision is published when it is new, and not again.
PublishOnChange ==
  /\ Subscribed /\ wanted > IF queue = << >> THEN req ELSE queue[Len(queue)]
  /\ Len(queue) < QueueSize
  /\ queue' = Append(queue, wanted)
  /\ UNCHANGED <<wanted, pc, req, sim, mode, applied, followed, downs>>

\* rospy drops the oldest message of a full queue.
Publish ==
  /\ wanted > 0
  /\ queue' = IF ~Subscribed THEN queue
              ELSE IF Len(queue) < QueueSize THEN Append(queue, wanted)
              ELSE Append(Tail(queue), wanted)
  /\ UNCHANGED <<wanted, pc, req, sim, mode, applied, followed, downs>>

----------------------------------------------------------------------------
(* The bridge. *)

\* connect: a channel is made, whether anyone listens at its other end or not.
Connect ==
  /\ pc = "start" /\ pc' = "mode"
  /\ UNCHANGED <<wanted, queue, req, sim, mode, applied, followed, downs>>

\* _set_vehicle_auto_mode, unless MORAI_SET_AUTO_MODE is 0: a failure is logged.  Then
\* the topic is subscribed to.
SetAutoMode ==
  /\ pc = "mode" /\ pc' = "idle" /\ sim # "hung"
  /\ mode' \in IF sim = "up" THEN {"AUTO", mode} ELSE {mode}
  /\ UNCHANGED <<wanted, queue, req, sim, applied, followed, downs>>

\* Mutant: the newest message is taken and the rest is kept.
TakeNewest ==
  /\ pc = "idle" /\ queue # << >>
  /\ req' = queue[Len(queue)] /\ queue' = SubSeq(queue, 1, Len(queue) - 1)
  /\ pc' = "call"
  /\ UNCHANGED <<wanted, sim, mode, applied, followed, downs>>

Take ==
  /\ pc = "idle" /\ queue # << >>
  /\ req' = Head(queue) /\ queue' = Tail(queue)
  /\ pc' = "call"
  /\ UNCHANGED <<wanted, sim, mode, applied, followed, downs>>

\* Whether the answer comes back makes no difference: it is only logged.
Call ==
  /\ pc = "call" /\ sim = "up"
  /\ applied' = IF mode = "AUTO" THEN req ELSE applied
  /\ followed' = IF mode = "AUTO" THEN req ELSE followed
  /\ pc' = "idle"
  /\ UNCHANGED <<wanted, queue, req, sim, mode, downs>>

\* None is the answer; the command is given up.
CallFails ==
  /\ pc = "call" /\ sim = "down"
  /\ pc' = "idle"
  /\ UNCHANGED <<wanted, queue, req, sim, mode, applied, followed, downs>>

----------------------------------------------------------------------------
(* The simulator.  A new one starts with its vehicle on the keyboard, and  *)
(* no command has reached that vehicle.                                    *)

SimDown ==
  /\ sim # "down" /\ downs < MaxDowns
  /\ sim' = "down" /\ downs' = downs + 1
  /\ mode' = "KEYBOARD" /\ applied' = 0
  /\ UNCHANGED <<wanted, queue, pc, req, followed>>

SimHangs ==
  /\ sim = "up" /\ sim' = "hung"
  /\ UNCHANGED <<wanted, queue, pc, req, mode, applied, followed, downs>>

SimUp ==
  /\ sim # "up" /\ sim' = "up"
  /\ UNCHANGED <<wanted, queue, pc, req, mode, applied, followed, downs>>

\* Anyone may set the mode, as grpc_example.py does.
AnyoneSetsMode ==
  /\ sim = "up" /\ mode' \in {"AUTO", "CRUISE"}
  /\ UNCHANGED <<wanted, queue, pc, req, sim, applied, followed, downs>>

Bridge == Connect \/ SetAutoMode \/ Take \/ Call \/ CallFails
Next == Decide \/ Publish \/ Bridge \/ SimDown \/ SimHangs \/ SimUp \/ AnyoneSetsMode
Spec == Init /\ [][Next]_vars
FairSpec == Spec /\ WF_vars(Publish) /\ WF_vars(Bridge)

----------------------------------------------------------------------------
\* Types; and the queue of the subscriber never holds more than its size.
TypeOK ==
  /\ wanted \in 0 .. MaxDecisions
  /\ queue \in Seq(1 .. MaxDecisions) /\ Len(queue) <= QueueSize
  /\ pc \in {"start", "mode", "idle", "call"} /\ req \in 0 .. MaxDecisions
  /\ sim \in {"up", "hung", "down"} /\ mode \in {"KEYBOARD", "AUTO", "CRUISE"}
  /\ applied \in 0 .. MaxDecisions /\ followed \in 0 .. MaxDecisions /\ downs \in 0 .. MaxDowns

\* Whatever is dropped, lost or refused, a command that comes to be followed is never older
\* than one that was followed before it, by the same vehicle or by one that a failure of
\* the simulator has taken away.
InOrder == [][sim' # "down" => applied' = applied \/ applied' >= followed]_vars

\* The inductive invariant behind InOrder: what waits is in the order it was decided in,
\* nothing that waits is older than what is being sent, and nothing sent than what was followed.
OrderInv ==
  /\ \A i, j \in 1 .. Len(queue) : i <= j => queue[i] <= queue[j]
  /\ \A i \in 1 .. Len(queue) : req <= queue[i] /\ queue[i] <= wanted
  /\ followed <= req /\ req <= wanted

\* If the simulator answers at last and its vehicle stays in AUTO mode, the last decision
\* comes to be followed, though calls have failed or waited and the queue has overflowed:
\* the control loop does not stop publishing.
Obeyed ==
  \A c \in 1 .. MaxDecisions :
    <>[](wanted = c /\ sim = "up" /\ mode = "AUTO") => <>[](applied = c)
=============================================================================
