---------------------------- MODULE CameraLookup ----------------------------
(***************************************************************************)
(* Camera_costmap_info, which CameraCostmapCallback writes field by field  *)
(* on one spinner thread while getCameraCost reads it field by field on    *)
(* another, once for every point of every candidate.  The timer thread     *)
(* holds costmap_mutex, but the callback does not take it: the line is     *)
(* commented out (main.cpp:49), so the two interleave at every field.      *)
(*                                                                         *)
(* The fields are plain, so for the other thread their stores may come in  *)
(* any order.  All messages have the same geometry (camera_costmap.cpp     *)
(* sets it once), so a field is either still zero or right.  The unit of   *)
(* length is half a cell, to have points off the corners of cells.         *)
(***************************************************************************)
EXTENDS Integers

CONSTANTS
  MaxMsgs,        \* bound: messages the camera sends
  MapWidth, MapHeight,  \* 700, 1000
  MapX, MapY,
  Xs, Ys          \* coordinates looked up, in base_link

ASSUME CameraAssumption ==
  /\ MaxMsgs \in Nat
  /\ MapWidth \in Nat \ {0} /\ MapHeight \in Nat \ {0}
  /\ MapX \in Int /\ MapY \in Int /\ Xs \subseteq Int /\ Ys \subseteq Int

Fields == {"msg", "origin_x", "origin_y", "resolution", "width", "height"}

VARIABLES
  \* the callback
  arrived,    \* messages begun, numbered from 1
  pend,       \* fields of the last one not stored yet
  msg,        \* the message Camera_costmap_info.msg points to, 0 for none
  stored,     \* the other fields that have their value
  \* getCameraCost
  pc,
  at,         \* x and y
  gx, gy, index,
  ptr,        \* the message whose data is about to be read
  known       \* history: the fields that had their values when the lookup began
cbVars == <<arrived, pend, msg, stored>>
readVars == <<pc, at, gx, gy, index, ptr, known>>
vars == <<cbVars, readVars>>

Init ==
  /\ arrived = 0 /\ pend = {} /\ msg = 0 /\ stored = {}
  /\ pc = "idle" /\ at = <<0, 0>> /\ gx = 0 /\ gy = 0 /\ index = 0 /\ ptr = 0
  /\ known = {}

----------------------------------------------------------------------------
(* CameraCostmapCallback *)

Begin ==
  /\ pend = {} /\ arrived < MaxMsgs
  /\ arrived' = arrived + 1
  /\ pend' = Fields
  /\ UNCHANGED <<msg, stored, readVars>>

\* With the pointer the message before loses its last owner.
Store ==
  /\ \E f \in pend :
       /\ pend' = pend \ {f}
       /\ msg' = IF f = "msg" THEN arrived ELSE msg
       /\ stored' = IF f = "msg" THEN stored ELSE stored \union {f}
  /\ UNCHANGED <<arrived, readVars>>

----------------------------------------------------------------------------
(* getCameraCost *)

\* The timer thread looks up a point.
Lookup ==
  /\ pc = "idle"
  /\ at' \in Xs \X Ys
  /\ known' = stored
  /\ pc' = "null"
  /\ UNCHANGED <<cbVars, gx, gy, index, ptr>>

\* Its variables are gone with it.
Return ==
  /\ pc' = "idle"
  /\ at' = <<0, 0>> /\ gx' = 0 /\ gy' = 0 /\ index' = 0 /\ ptr' = 0
  /\ known' = {}
  /\ UNCHANGED cbVars

\* No message: the cost is 0.  (In a zone without camera the answer is 0 as well.)
IsNull == pc = "null" /\ msg = 0 /\ Return
NotNull ==
  /\ pc = "null" /\ msg # 0
  /\ pc' = "x"
  /\ UNCHANGED <<cbVars, at, gx, gy, index, ptr, known>>

\* Division by a resolution of zero is infinite or no number, and its conversion to
\* int is undefined: the processor answers the least int, the largest, or zero.
Undefined == {-1000, 0, 1000}

\* The conversion of a quotient to int rounds towards zero.
Truncated(x) == IF x < 0 THEN -((-x) \div 2) ELSE x \div 2
Cell(x, origin, name) ==
  IF "resolution" \in stored
  THEN {Truncated(x - (IF name \in stored THEN origin ELSE 0))}
  ELSE Undefined

GridX ==
  /\ pc = "x"
  /\ gx' \in Cell(at[1], MapX, "origin_x")
  /\ pc' = "y"
  /\ UNCHANGED <<cbVars, at, gy, index, ptr, known>>

GridY ==
  /\ pc = "y"
  /\ gy' \in Cell(at[2], MapY, "origin_y")
  /\ pc' = "range"
  /\ UNCHANGED <<cbVars, at, gx, index, ptr, known>>

width  == IF "width" \in stored THEN MapWidth ELSE 0
height == IF "height" \in stored THEN MapHeight ELSE 0

\* Mutant: the lower bound of gy is not checked.
OnMapFromBelow == gx >= 0 /\ gx < width /\ gy < height

OnMap == gx >= 0 /\ gx < width /\ gy >= 0 /\ gy < height

\* Outside the map the cost is 0.
OutOfRange == pc = "range" /\ ~OnMap /\ Return
InRange ==
  /\ pc = "range" /\ OnMap
  /\ pc' = "index"
  /\ UNCHANGED <<cbVars, at, gx, gy, index, ptr, known>>

\* Mutant: the index goes down the columns.
ComputeIndexByColumn ==
  /\ pc = "index"
  /\ index' = gx * height + gy
  /\ pc' = "pointer"
  /\ UNCHANGED <<cbVars, at, gx, gy, ptr, known>>

ComputeIndex ==
  /\ pc = "index"
  /\ index' = gy * width + gx
  /\ pc' = "pointer"
  /\ UNCHANGED <<cbVars, at, gx, gy, ptr, known>>

\* msg-> copies the pointer without owning the message.
LoadPointer ==
  /\ pc = "pointer"
  /\ ptr' = msg
  /\ pc' = "data"
  /\ UNCHANGED <<cbVars, at, gx, gy, index, known>>

ReadData == pc = "data" /\ Return

Callback == Begin \/ Store
Reader == \/ Lookup \/ IsNull \/ NotNull \/ GridX \/ GridY \/ OutOfRange \/ InRange
          \/ ComputeIndex \/ LoadPointer \/ ReadData
Next == Callback \/ Reader
Spec == Init /\ [][Next]_vars

----------------------------------------------------------------------------
(* What a lookup must keep true. *)

\* Types; the index a lookup forms is never negative.
TypeOK ==
  /\ arrived \in 0 .. MaxMsgs /\ pend \subseteq Fields
  /\ msg \in 0 .. arrived /\ stored \subseteq Fields \ {"msg"}
  /\ pc \in {"idle", "null", "x", "y", "range", "index", "pointer", "data"}
  /\ at \in Int \X Int /\ gx \in Int /\ gy \in Int /\ index \in Nat
  /\ ptr \in 0 .. arrived /\ known \subseteq stored

(* In whatever order the stores become visible to the lookup, the          *)
(* index lies within the data of every message and the pointer is not      *)
(* null (Util_Coordinates.cpp:158-171).                                    *)
IndexInside ==
  /\ pc \in {"pointer", "data"} => index \in 0 .. MapWidth * MapHeight - 1
  /\ pc = "data" => ptr # 0

(* Once a first message is stored, every lookup reads the cell the point   *)
(* lies in, though later messages go on storing the same geometry under    *)
(* it; or the cell at the near edge of the map for a point less than a     *)
(* cell off it, since the code truncates (Util_Coordinates.cpp:160-170).   *)
RightCell ==
  pc \in {"pointer", "data"} /\ known = Fields \ {"msg"} =>
    \E cx \in 0 .. MapWidth - 1, cy \in 0 .. MapHeight - 1 :
      /\ index = cy * MapWidth + cx
      /\ at[1] - MapX \in (IF cx = 0 THEN -1 ELSE 2 * cx) .. 2 * cx + 1
      /\ at[2] - MapY \in (IF cy = 0 THEN -1 ELSE 2 * cy) .. 2 * cy + 1

(* Inductive, for IndexInside: the steps before have established it, and *)
(* a width once seen stays.                                                *)
LookupInv ==
  /\ pc \in {"x", "y", "range", "index", "pointer", "data"} => msg # 0
  /\ pc \in {"index", "pointer", "data"} =>
       /\ {"width", "height"} \subseteq stored
       /\ gx \in 0 .. MapWidth - 1 /\ gy \in 0 .. MapHeight - 1
  /\ pc \in {"pointer", "data"} => index = gy * MapWidth + gx
  /\ pc = "data" => ptr # 0
  /\ pend # {} => arrived # 0

----------------------------------------------------------------------------
(* What a comment of the code says, and the code does not do.              *)

(* There is no need to lock (main.cpp:48), so a lookup reads data of a     *)
(* message that Camera_costmap_info still owns (Util_Coordinates.cpp:171). *)
(* But msg-> yields a plain pointer, and the callback may let go of that   *)
(* message before the data is read.                                        *)
ReadsOwned == pc = "data" => ptr = msg
=============================================================================
