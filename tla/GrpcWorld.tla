----------------------------- MODULE GrpcWorld -----------------------------
(***************************************************************************)
(* morai_sim_client.py, simulation_world.py, actor.py: a client keeps a    *)
(* dictionary of the actors it has spawned and the synchronous mode of the *)
(* simulator, so as not to ask for them.  Every call of the adapter turns  *)
(* a failure into None: the client cannot tell a call that was never made  *)
(* from one whose answer is lost, and it mostly does not look.             *)
(*                                                                         *)
(* Only what belongs to this client's key is here, without its ego, which  *)
(* is entered without asking.  What the simulator does is seen from how    *)
(* the client uses it; it may give an id again that has become free.       *)
(***************************************************************************)
EXTENDS Naturals, FiniteSets

CONSTANTS
  Ids,
  Kinds,   \* vehicle, pedestrian, obstacle
  None

ASSUME KindsAssumption == None \notin Kinds

Empty == [id \in Ids |-> None]
Tables == [Ids -> Kinds \union {None}]

VARIABLES
  actors,   \* of the simulator
  sync,     \* whether its time waits for ticks
  world,    \* the client's SimulationWorld: [actors, sync], or None
  unsure    \* history: ids and mode whose last change was never confirmed
world_vars == <<actors, sync, world, unsure>>

WorldInit ==
  /\ actors = Empty /\ sync = FALSE
  /\ world = None
  /\ unsure = [actors |-> {}, sync |-> FALSE]

Held == {id \in Ids : actors[id] # None}
Free == Ids \ Held

----------------------------------------------------------------------------
(* Calls of a SimulationWorld.  A call that is refused, or is never made,  *)
(* changes nothing on either side, unless it is stated.                    *)

Spawned(id, kind) ==
  /\ actors' = [actors EXCEPT ![id] = kind]
  /\ world' = [world EXCEPT !.actors[id] = kind]
  /\ unsure' = [unsure EXCEPT !.actors = @ \ {id}]

\* response.status of None raises: the actor is there, and in no dictionary.
SpawnUnanswered(id, kind) ==
  /\ actors' = [actors EXCEPT ![id] = kind]
  /\ unsure' = [unsure EXCEPT !.actors = @ \union {id}]
  /\ UNCHANGED world

\* spawn_vehicle, spawn_pedestrian, spawn_obstacle
Spawn ==
  /\ world # None
  /\ \E id \in Free, kind \in Kinds : Spawned(id, kind) \/ SpawnUnanswered(id, kind)
  /\ UNCHANGED sync

\* Actor.destroy: its entry stays in the dictionary, whatever becomes of the actor.
Destroy ==
  /\ world # None
  /\ \E id \in Held : world.actors[id] # None /\ actors' = [actors EXCEPT ![id] = None]
  /\ UNCHANGED <<sync, world, unsure>>

DestroyAllActors ==
  /\ world # None
  /\ actors' = Empty /\ unsure' = [unsure EXCEPT !.actors = {}]
  /\ UNCHANGED <<sync, world>>

\* Mutant: the mode is noted whether it is confirmed or refused.
SetSynchronousModeAnyway ==
  /\ world # None
  /\ \E type \in BOOLEAN :
       /\ world' = [world EXCEPT !.sync = type]
       /\ \/ sync' = type /\ unsure' = [unsure EXCEPT !.sync = FALSE]
          \/ UNCHANGED <<sync, unsure>>
  /\ UNCHANGED actors

\* Only a mode that is confirmed is noted.
SetSynchronousMode ==
  /\ world # None
  /\ \E type \in BOOLEAN :
       \/ /\ sync' = type /\ world' = [world EXCEPT !.sync = type]
          /\ unsure' = [unsure EXCEPT !.sync = FALSE]
       \/ /\ sync' = type /\ UNCHANGED world
          /\ unsure' = [unsure EXCEPT !.sync = TRUE]
  /\ UNCHANGED actors

GetSynchronousMode ==
  /\ world # None
  /\ world' = [world EXCEPT !.sync = sync]
  /\ unsure' = [unsure EXCEPT !.sync = FALSE]
  /\ UNCHANGED <<actors, sync>>

----------------------------------------------------------------------------
(* Calls of a MoraiSimClient. *)

NewWorld(type) == world' = [actors |-> Empty, sync |-> type]

\* Mutant: what is left of an earlier world is not looked after.
ConstructOnly(held, type, confirmed) ==
  /\ NewWorld(type)
  /\ actors' = held
  /\ unsure' = [actors |-> {}, sync |-> ~confirmed]

\* SimulationWorld.__init__, when the simulator holds these actors: it destroys them all
\* and does not look whether that has worked.
Construct(held, type, confirmed) ==
  /\ NewWorld(type)
  /\ \/ actors' = Empty /\ unsure' = [actors |-> {}, sync |-> ~confirmed]
     \/ /\ actors' = held
        /\ unsure' = [actors |-> {id \in Ids : held[id] # None}, sync |-> ~confirmed]

\* The simulator begins anew, in the mode it is given.
Started(type) == sync' = type /\ Construct(Empty, type, TRUE)

\* It goes on as it is; the mode may have been taken over, and is believed to be.
SameMap(type) == sync' \in {sync, type} /\ Construct(actors, type, FALSE)

\* response.status of None raises: a world from before stays, if there is one.
StartUnanswered(type) ==
  /\ actors' = Empty /\ sync' = type
  /\ unsure' = [actors |-> {}, sync |-> TRUE]
  /\ UNCHANGED world

StartSimulation ==
  \E type \in BOOLEAN : Started(type) \/ SameMap(type) \/ StartUnanswered(type)

\* destroy_all_actors and stop: neither answer is looked at.
Finalize ==
  /\ world # None /\ world' = None
  /\ actors' \in {actors, Empty}
  /\ UNCHANGED <<sync, unsure>>

ClientCrash ==
  /\ world # None /\ world' = None
  /\ UNCHANGED <<actors, sync, unsure>>

SimulatorRestart ==
  /\ actors' = Empty /\ sync' = FALSE
  /\ unsure' = [actors |-> {}, sync |-> TRUE]
  /\ UNCHANGED world

WorldNext ==
  \/ Spawn \/ Destroy \/ DestroyAllActors
  \/ SetSynchronousMode \/ GetSynchronousMode
  \/ StartSimulation \/ Finalize
  \/ ClientCrash \/ SimulatorRestart

WorldSpec == WorldInit /\ [][WorldNext]_world_vars

----------------------------------------------------------------------------
WorldTypeOK ==
  /\ actors \in Tables /\ sync \in BOOLEAN
  /\ world \in [actors : Tables, sync : BOOLEAN] \union {None}
  /\ unsure \in [actors : SUBSET Ids, sync : BOOLEAN]

\* get_actor finds every actor the simulator holds for this client, as what it is, unless
\* the simulator never confirmed that it was spawned, or that all were destroyed when the
\* world was made (simulation_world.py:43, 76-79): worlds made one after the other, by
\* clients that crashed in between, leave none behind, and an entry that outlives its
\* actor (actor.py:71) is replaced before its id means another one.
Known ==
  world # None =>
    \A id \in Held \ unsure.actors : world.actors[id] = actors[id]

\* tick goes out only to a simulator that waits for it, wait_for_tick only to one that
\* does not (simulation_world.py:270-284), and none that waits is left waiting, unless
\* the last change of its mode was never confirmed.
MayTick == world.sync
MayWaitForTick == ~world.sync
InStep ==
  world # None /\ ~unsure.sync => (MayTick => sync) /\ (MayWaitForTick => ~sync)
=============================================================================
