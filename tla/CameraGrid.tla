----------------------------- MODULE CameraGrid -----------------------------
(***************************************************************************)
(* bev_test.py and camera_costmap.cpp: what the model finds of the road in *)
(* a bird's-eye image is glued together and cut at its edges, the mask     *)
(* becomes the camera costmap cell by cell, and getCameraCost looks single *)
(* points of it up.  All of them have roundings and directions of their    *)
(* own: an image has its rows top down and its columns right to left of    *)
(* the vehicle's axes, a cell takes the pixel of its centre, a lookup the  *)
(* cell of its point.                                                      *)
(*                                                                         *)
(* The unit of length is half a centimetre to make a cell 10 and a pixel   *)
(* 16 (the rows of the code are 16.03); the camera is at <<0, 0>>, x is    *)
(* ahead and y to its left.  Warping and the model itself only decide what *)
(* is found.                                                               *)
(***************************************************************************)
EXTENDS Integers

CONSTANTS
  IMG_W, IMG_H,     \* 300 and 237, BEV_W and BEV_H in bev_test.py
  GLUE_SIZE,        \* 11
  CUT_SIZE,         \* 39
  GRID_W, GRID_H,   \* 700 along x and 1000 along y
  GRID_RES,         \* length of a cell
  Pixel,            \* length of a pixel
  ROI_X_MIN,        \* where the image begins
  OriginX,          \* where the costmap begins
  Images,           \* what may be found: sets of pixels
  Points            \* what is looked up

Pixels == (0 .. IMG_W - 1) \X (0 .. IMG_H - 1)
ROI_X_MAX == ROI_X_MIN + IMG_H * Pixel
OriginY == -((GRID_W * GRID_RES) \div 2)

\* Kernels have a middle; more is cut than glued (bev_test.py:37).  A cell is no longer
\* than a pixel, and the costmap reaches as far as the image on every side.
ASSUME GridAssumption ==
  /\ {IMG_W, IMG_H, GRID_W, GRID_H, GRID_RES, Pixel, GLUE_SIZE, CUT_SIZE} \subseteq Nat \ {0}
  /\ IMG_W % 2 = 0 /\ GRID_RES % 2 = 0
  /\ GLUE_SIZE % 2 = 1 /\ CUT_SIZE % 2 = 1 /\ GLUE_SIZE < CUT_SIZE
  /\ OriginX \in Int /\ ROI_X_MIN \in Nat /\ OriginX <= ROI_X_MIN
  /\ GRID_RES <= Pixel /\ ROI_X_MAX <= OriginX + GRID_W * GRID_RES
  /\ OriginY <= -((IMG_W \div 2) * Pixel)
  /\ (IMG_W \div 2) * Pixel <= OriginY + GRID_H * GRID_RES
  /\ Images \subseteq SUBSET Pixels /\ Points \subseteq Int \X Int

VARIABLES
  frames,    \* of /image_jpeg/compressed: at most one image, as what is to be found in it
  queue,     \* of /drivable/mask: at most one, [mask, found]
  costmap,   \* indices of cost 100, of the map and of the message published with it
  shown      \* history: what was found in the image it is made from
grid_vars == <<frames, queue, costmap, shown>>

\* Before the first image every cell is zero, as if all of it were road.
InitGrid == frames = {} /\ queue = {} /\ costmap = {} /\ shown = Pixels

----------------------------------------------------------------------------
(* bev_test.py *)

\* The square of a kernel about px; beyond the edge of the image there is nothing that
\* could spread, and nothing that could be cut from.
Kernel(px, size) ==
  ((px[1] - size \div 2 .. px[1] + size \div 2) \X (px[2] - size \div 2 .. px[2] + size \div 2))
    \cap Pixels
Dilate(bright, size) == {px \in Pixels : Kernel(px, size) \cap bright # {}}
Erode(bright, size) == {px \in Pixels : Kernel(px, size) \subseteq bright}

\* Mutant: edges are cut before gaps are closed.
CutThenGlue(found) == Dilate(Erode(found, CUT_SIZE), GLUE_SIZE)

GlueAndCut(found) ==
  IF found = {} THEN {} ELSE Erode(Dilate(found, GLUE_SIZE), CUT_SIZE)
MaskOf == [found \in Images |-> GlueAndCut(found)]

\* An image of the camera takes the place of one that still waits.
CameraImage(image) == frames' = {image} /\ UNCHANGED <<queue, costmap, shown>>

\* Of the mask, too, only the last waits at the costmap node.
Inference ==
  \E image \in frames :
    /\ frames' = frames \ {image}
    /\ queue' = {[mask |-> MaskOf[image], found |-> image]}
    /\ UNCHANGED <<costmap, shown>>

\* except Exception: pass
InferenceFails ==
  /\ frames # {} /\ frames' = {}
  /\ UNCHANGED <<queue, costmap, shown>>

----------------------------------------------------------------------------
(* camera_costmap.cpp *)

\* (int) of a quotient.
Trunc(a, b) == IF a >= 0 THEN a \div b ELSE -((-a) \div b)

CentreX(gx) == OriginX + gx * GRID_RES + GRID_RES \div 2
CentreY(gy) == OriginY + gy * GRID_RES + GRID_RES \div 2

Column(y) == IMG_W \div 2 + Trunc(-y, Pixel)
Row(x) == IMG_H - Trunc(x - ROI_X_MIN, Pixel)

\* The cells that have a pixel; the others stay zero.
Mapped ==
  {c \in (0 .. GRID_W - 1) \X (0 .. GRID_H - 1) :
     /\ CentreX(c[1]) \in ROI_X_MIN .. ROI_X_MAX
     /\ <<Column(CentreY(c[2])), Row(CentreX(c[1]))>> \in Pixels}

PixelOf == [c \in Mapped |-> <<Column(CentreY(c[2])), Row(CentreX(c[1]))>>]

\* updateCostmap
Lethal(mask) == {c[2] * GRID_W + c[1] : c \in {d \in Mapped : PixelOf[d] \notin mask}}

ImageCallback ==
  \E image \in queue :
    /\ queue' = queue \ {image}
    /\ costmap' = Lethal(image.mask)
    /\ shown' = image.found
    /\ UNCHANGED frames

\* One that cannot be decoded, or is empty.
BadImage ==
  /\ queue # {} /\ queue' = {}
  /\ UNCHANGED <<frames, costmap, shown>>

----------------------------------------------------------------------------
\* getCameraCost, off the zones without camera.
GetCameraCost(p) ==
  LET gx == Trunc(p[1] - OriginX, GRID_RES)
      gy == Trunc(p[2] - OriginY, GRID_RES)
  IN  IF gx \in 0 .. GRID_W - 1 /\ gy \in 0 .. GRID_H - 1
         /\ gy * GRID_W + gx \in costmap
      THEN 100 ELSE 0

\* calc_matrices: the ground that a pixel shows, ahead and to the left, from and to.
Ahead(px) == <<ROI_X_MIN + (IMG_H - px[2] - 1) * Pixel, ROI_X_MIN + (IMG_H - px[2]) * Pixel>>
Left(px) == <<(IMG_W \div 2 - px[1] - 1) * Pixel, (IMG_W \div 2 - px[1]) * Pixel>>

\* The pixels that show anything, or show only what lies, within r of p.
Within(p, r) == {px \in Pixels :
  /\ Ahead(px)[2] > p[1] - r /\ Ahead(px)[1] < p[1] + r
  /\ Left(px)[2] > p[2] - r /\ Left(px)[1] < p[2] + r}
WhollyWithin(p, r) == {px \in Pixels :
  /\ Ahead(px)[1] >= p[1] - r /\ Ahead(px)[2] <= p[1] + r
  /\ Left(px)[1] >= p[2] - r /\ Left(px)[2] <= p[2] + r}

Cut == (CUT_SIZE \div 2) * Pixel
Rounding == Pixel + GRID_RES \div 2
\* p is in the image, and not in its nearest row, which no cell is given, or at its left
\* or right edge.
InView(p) ==
  /\ p[1] \in ROI_X_MIN + Pixel + GRID_RES .. ROI_X_MAX - GRID_RES
  /\ p[2] \in Pixel - (IMG_W \div 2) * Pixel .. (IMG_W \div 2) * Pixel - Pixel

\* The pixels about which no road is found as far as gaps are closed.
Bare(found) == Pixels \ Dilate(found, GLUE_SIZE)

\* The points with a bare pixel nearer than what is cut, by the rounding of a cell, and
\* those with one no farther than that and both roundings.
MustCost == [found \in Images \union {Pixels} |-> LET bare == Bare(found) IN
  {p \in Points : InView(p) /\ WhollyWithin(p, Cut - GRID_RES \div 2) \cap bare # {}}]
MayCost == [found \in Images \union {Pixels} |-> LET bare == Bare(found) IN
  {p \in Points : Within(p, Cut + Rounding) \cap bare # {}}]

\* A point in view costs 100 where a patch without road wider than the gaps that are
\* closed is nearer than what is cut by half a cell, and a point costs 100 only where
\* such a patch is no farther than that, a pixel and half a cell (bev_test.py:120-130,
\* camera_costmap.cpp:101-137): on the way from the camera to the planner nothing is
\* mirrored or shifted, no verge is left, and no gap in a lane is a wall.
SeenAsShown ==
  LET lethal == {p \in Points : GetCameraCost(p) = 100}
  IN  MustCost[shown] \subseteq lethal /\ lethal \subseteq MayCost[shown]
=============================================================================
