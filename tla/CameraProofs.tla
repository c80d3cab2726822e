---------------------------- MODULE CameraProofs ----------------------------
(***************************************************************************)
(* CameraLookup for a map of any size at any place: types, the bounds of   *)
(* the index and the cell it names, without a lock.  CameraNodes           *)
(* for images, kernels and costmaps of any size: what is looked up is what *)
(* was shown, and one image hardly moves the centre.                       *)
(***************************************************************************)
EXTENDS CameraLookup, CameraNodes, DataLemmas

----------------------------------------------------------------------------
(* The lookup.                                                             *)

USE CameraAssumption DEF cbVars, readVars, vars

(* A row and a column on the map give an index into its data. *)
LEMMA IndexBounds ==
  ASSUME NEW x \in 0 .. MapWidth - 1, NEW y \in 0 .. MapHeight - 1
  PROVE  y * MapWidth + x \in 0 .. MapWidth * MapHeight - 1
<1>1. y * MapWidth \in Nat /\ y * MapWidth <= (MapHeight - 1) * MapWidth
  OBVIOUS
<1>2. (MapHeight - 1) * MapWidth = MapWidth * MapHeight - MapWidth
  OBVIOUS
<1>3. MapWidth * MapHeight \in Nat
  OBVIOUS
<1> QED
  BY <1>1, <1>2, <1>3

(* Rounding towards zero gives an integer. *)
LEMMA CellInt ==
  ASSUME NEW x \in Int, NEW o \in Int, NEW name
  PROVE  Cell(x, o, name) \subseteq Int
<1>1. \A z \in Int : Truncated(z) \in Int
  BY DEF Truncated
<1> QED
  BY <1>1 DEF Cell, Undefined

LookupOK == TypeOK /\ LookupInv

LEMMA LookupInductive == Spec => []LookupOK
<1>1. Init => LookupOK
  BY DEF Init, LookupOK, TypeOK, LookupInv, Fields
<1>2. LookupOK /\ [Next]_vars => LookupOK'
  <2> SUFFICES ASSUME LookupOK, [Next]_vars PROVE LookupOK'
    OBVIOUS
  <2> USE DEF LookupOK, TypeOK, LookupInv
  <2>1. CASE Begin
    BY <2>1 DEF Begin, Fields
  <2>2. CASE Store
    BY <2>2 DEF Store, Fields
  <2>3. CASE Lookup
    BY <2>3 DEF Lookup
  <2>4. CASE IsNull
    BY <2>4 DEF IsNull, Return
  <2>5. CASE NotNull
    BY <2>5 DEF NotNull
  <2>6. CASE GridX
    <3>1. gx' \in Int
      BY <2>6, CellInt DEF GridX
    <3> QED
      BY <2>6, <3>1 DEF GridX
  <2>7. CASE GridY
    <3>1. gy' \in Int
      BY <2>7, CellInt DEF GridY
    <3> QED
      BY <2>7, <3>1 DEF GridY
  <2>8. CASE OutOfRange
    BY <2>8 DEF OutOfRange, Return
  <2>9. CASE InRange
    BY <2>9 DEF InRange, OnMap, width, height
  <2>10. CASE ComputeIndex
    <3>1. index' = gy * MapWidth + gx
      BY <2>10 DEF ComputeIndex, width
    <3>2. index' \in Nat
      BY <2>10, <3>1, IndexBounds DEF ComputeIndex
    <3> QED
      BY <2>10, <3>1, <3>2 DEF ComputeIndex
  <2>11. CASE LoadPointer
    BY <2>11 DEF LoadPointer
  <2>12. CASE ReadData
    BY <2>12 DEF ReadData, Return
  <2>13. CASE UNCHANGED vars
    BY <2>13
  <2> QED
    BY <2>1, <2>2, <2>3, <2>4, <2>5, <2>6, <2>7, <2>8, <2>9, <2>10, <2>11, <2>12, <2>13
       DEF Next, Callback, Reader
<1> QED
  BY <1>1, <1>2, PTL DEF Spec

(* Types, in every interleaving of the stores with a lookup. *)
THEOREM TypeCorrect == Spec => []TypeOK
<1>1. LookupOK => TypeOK
  BY DEF LookupOK
<1> QED
  BY <1>1, LookupInductive, PTL

(* No interleaving of stores and reads takes the index out of the data. *)
THEOREM IndexCorrect == Spec => []IndexInside
<1>1. LookupOK => IndexInside
  BY IndexBounds DEF LookupOK, LookupInv, IndexInside
<1> QED
  BY <1>1, LookupInductive, PTL

(* What a lookup that began after a first message has computed so far. *)
SettledInv ==
  known = Fields \ {"msg"} =>
    /\ pc \in {"y", "range", "index", "pointer", "data"} => gx = Truncated(at[1] - MapX)
    /\ pc \in {"range", "index", "pointer", "data"} => gy = Truncated(at[2] - MapY)

(* Rounding towards zero, on the map: the cell, or the first for the last  *)
(* half cell before it.                                                    *)
LEMMA TruncatedCell ==
  ASSUME NEW x \in Int, NEW c \in Nat, c = Truncated(x)
  PROVE  x \in (IF c = 0 THEN -1 ELSE 2 * c) .. 2 * c + 1
<1>1. CASE x < 0
  BY <1>1 DEF Truncated
<1>2. CASE x >= 0
  BY <1>2 DEF Truncated
<1> QED
  BY <1>1, <1>2

LEMMA SettledInductive == Spec => []SettledInv
<1>1. Init => SettledInv
  BY DEF Init, SettledInv, Fields
<1>2. LookupOK /\ SettledInv /\ [Next]_vars => SettledInv'
  <2> SUFFICES ASSUME LookupOK, SettledInv, [Next]_vars PROVE SettledInv'
    OBVIOUS
  <2> USE DEF SettledInv
  <2>1. CASE Begin
    BY <2>1 DEF Begin
  <2>2. CASE Store
    BY <2>2 DEF Store, LookupOK, TypeOK, Fields
  <2>3. CASE Lookup
    BY <2>3 DEF Lookup
  <2>4. CASE IsNull \/ OutOfRange \/ ReadData
    BY <2>4 DEF IsNull, OutOfRange, ReadData, Return
  <2>5. CASE GridX
    BY <2>5 DEF GridX, Cell, Fields, LookupOK, TypeOK
  <2>6. CASE GridY
    BY <2>6 DEF GridY, Cell, Fields, LookupOK, TypeOK
  <2>7. CASE NotNull \/ InRange \/ ComputeIndex \/ LoadPointer
    BY <2>7 DEF NotNull, InRange, ComputeIndex, LoadPointer
  <2>8. CASE UNCHANGED vars
    BY <2>8
  <2> QED
    BY <2>1, <2>2, <2>3, <2>4, <2>5, <2>6, <2>7, <2>8 DEF Next, Callback, Reader
<1> QED
  BY <1>1, <1>2, LookupInductive, PTL DEF Spec

(* After the first message the cell that is read is the right one, for any *)
(* map, though the callback goes on storing.                               *)
THEOREM CellCorrect == Spec => []RightCell
<1>1. LookupOK /\ SettledInv => RightCell
  <2> SUFFICES ASSUME LookupOK, SettledInv, pc \in {"pointer", "data"},
                      known = Fields \ {"msg"}
               PROVE  RightCell
    BY DEF RightCell
  <2>1. gx \in 0 .. MapWidth - 1 /\ gy \in 0 .. MapHeight - 1 /\ index = gy * MapWidth + gx
    BY DEF LookupOK, LookupInv
  <2>2. at[1] - MapX \in Int /\ at[2] - MapY \in Int
    BY DEF LookupOK, TypeOK
  <2>3. gx = Truncated(at[1] - MapX) /\ gy = Truncated(at[2] - MapY)
    BY DEF SettledInv
  <2>4. at[1] - MapX \in (IF gx = 0 THEN -1 ELSE 2 * gx) .. 2 * gx + 1
    BY <2>1, <2>2, <2>3, TruncatedCell
  <2>5. at[2] - MapY \in (IF gy = 0 THEN -1 ELSE 2 * gy) .. 2 * gy + 1
    BY <2>1, <2>2, <2>3, TruncatedCell
  <2> QED
    BY <2>1, <2>4, <2>5 DEF RightCell
<1> QED
  BY <1>1, LookupInductive, SettledInductive, PTL

----------------------------------------------------------------------------
(* From the image to the planner.                                          *)

HIDE CameraAssumption DEF cbVars, readVars, vars
USE GridAssumption

(* A point of a cell that truncation finds is less than half a cell beyond  *)
(* the centre; before it, it is half a cell at most, or, off the near edge  *)
(* of the map, a cell and a half.                                           *)
LEMMA CellCentre ==
  ASSUME NEW x \in Int, NEW o \in Int, NEW g, g = Trunc(x - o, GRID_RES),
         g >= 0, NEW c, c = o + g * GRID_RES + GRID_RES \div 2
  PROVE  /\ g \in Nat /\ c \in Int
         /\ x < c + GRID_RES \div 2
         /\ c < x + GRID_RES + GRID_RES \div 2
         /\ x >= o => c <= x + GRID_RES \div 2
<1> DEFINE h == GRID_RES \div 2
<1>0. h \in Nat \ {0} /\ GRID_RES = 2 * h /\ GRID_RES \in Nat \ {0}
  BY DEF GridAssumption
<1> HIDE DEF h
<1>1. CASE x >= o
  <2>1. g = (x - o) \div GRID_RES
    BY <1>1 DEF Trunc
  <2>2. g \in Nat /\ g * GRID_RES <= x - o /\ x - o < g * GRID_RES + GRID_RES
    <3>1. x - o \in Nat
      BY <1>1
    <3> QED
      BY <1>0, <2>1, <3>1, QuotientNat
  <2>3. g * GRID_RES \in Int
    BY <1>0, <2>2
  <2> QED
    BY <1>0, <1>1, <2>2, <2>3 DEF h
<1>2. CASE x < o
  <2>1. g = -((o - x) \div GRID_RES)
    BY <1>2 DEF Trunc
  <2> DEFINE q == (o - x) \div GRID_RES
  <2>2. q \in Nat /\ o - x < q * GRID_RES + GRID_RES
    <3>1. o - x \in Nat
      BY <1>2
    <3> QED
      BY <1>0, <3>1, QuotientNat
  <2>3. q = 0 /\ g = 0
    BY <2>1, <2>2
  <2>4. o - x < GRID_RES
    BY <1>0, <2>2, <2>3
  <2> QED
    BY <1>0, <1>2, <2>3, <2>4 DEF h
<1> QED
  BY <1>1, <1>2

(* The row of the centre of a cell shows what is a pixel or less before it. *)
LEMMA RowShows ==
  ASSUME NEW c \in Int, c >= ROI_X_MIN
  PROVE  /\ Row(c) \in Int
         /\ ROI_X_MIN + (IMG_H - Row(c)) * Pixel <= c
         /\ c < ROI_X_MIN + (IMG_H - Row(c)) * Pixel + Pixel
<1> DEFINE q == (c - ROI_X_MIN) \div Pixel
<1>0. Pixel \in Nat \ {0} /\ ROI_X_MIN \in Nat /\ IMG_H \in Nat
  BY DEF GridAssumption
<1>1. Row(c) = IMG_H - q
  BY <1>0 DEF Row, Trunc
<1>2. q \in Nat /\ q * Pixel <= c - ROI_X_MIN /\ c - ROI_X_MIN < q * Pixel + Pixel
  BY <1>0, QuotientNat
<1> HIDE DEF q
<1>3. IMG_H - Row(c) = q
  BY <1>0, <1>1, <1>2
<1>4. q * Pixel \in Int
  BY <1>0, <1>2
<1> QED
  BY <1>0, <1>1, <1>2, <1>3, <1>4

(* The column of the centre of a cell begins less than a pixel from it, on  *)
(* either side.                                                             *)
LEMMA ColumnShows ==
  ASSUME NEW c \in Int
  PROVE  /\ Column(c) \in Int
         /\ (IMG_W \div 2 - Column(c)) * Pixel < c + Pixel
         /\ c < (IMG_W \div 2 - Column(c)) * Pixel + Pixel
<1> DEFINE m == IMG_W \div 2
<1>0. Pixel \in Nat \ {0} /\ m \in Nat
  BY DEF GridAssumption
<1>1. CASE -c >= 0
  <2> DEFINE q == (-c) \div Pixel
  <2>1. Column(c) = m + q
    BY <1>1 DEF Column, Trunc
  <2>2. q \in Nat /\ q * Pixel <= -c /\ -c < q * Pixel + Pixel
    BY <1>0, <1>1, QuotientNat
  <2> HIDE DEF q, m
  <2>3. m - Column(c) = -q /\ Column(c) \in Int
    BY <1>0, <2>1, <2>2
  <2>4. q * Pixel \in Int /\ (-q) * Pixel = -(q * Pixel)
    BY <1>0, <2>2
  <2>5. (m - Column(c)) * Pixel = -(q * Pixel)
    BY <2>3, <2>4
  <2> QED
    BY <1>0, <2>2, <2>3, <2>4, <2>5 DEF m
<1>2. CASE ~(-c >= 0)
  <2> DEFINE q == c \div Pixel
  <2>1. Column(c) = m + (-q)
    BY <1>2 DEF Column, Trunc
  <2>2. q \in Nat /\ q * Pixel <= c /\ c < q * Pixel + Pixel
    <3>1. c \in Nat
      BY <1>2
    <3> QED
      BY <1>0, <3>1, QuotientNat
  <2> HIDE DEF q, m
  <2>3. m - Column(c) = q /\ Column(c) \in Int
    BY <1>0, <2>1, <2>2
  <2>4. q * Pixel \in Int
    BY <1>0, <2>2
  <2>5. (m - Column(c)) * Pixel = q * Pixel
    BY <2>3
  <2> QED
    BY <1>0, <2>2, <2>3, <2>4, <2>5 DEF m
<1> QED
  BY <1>1, <1>2

(* An index stands for one cell.                                            *)
LEMMA SameCell ==
  ASSUME NEW a \in 0 .. GRID_W - 1, NEW b \in Nat, NEW c \in 0 .. GRID_W - 1, NEW d \in Nat,
         b * GRID_W + a = d * GRID_W + c
  PROVE  a = c /\ b = d
<1>0. GRID_W \in Nat \ {0}
  BY DEF GridAssumption
<1>1. b * GRID_W \in Int /\ d * GRID_W \in Int
  BY <1>0
<1>2. b * GRID_W < (d + 1) * GRID_W /\ d * GRID_W < (b + 1) * GRID_W
  BY <1>0, <1>1
<1>3. b < d + 1 /\ d < b + 1
  BY <1>0, <1>2, Multiples
<1>4. b = d
  BY <1>3
<1> QED
  BY <1>1, <1>4

LEMMA InKernel ==
  ASSUME NEW px \in Pixels, NEW b \in Pixels, NEW size, NEW k \in Nat, k = size \div 2
  PROVE  b \in Kernel(px, size) <=> /\ px[1] - b[1] \in -k .. k
                                    /\ px[2] - b[2] \in -k .. k
  BY DEF Kernel, Pixels, GridAssumption

(* The road that is left loses to what is bare and near.                    *)
LEMMA OffMask ==
  ASSUME NEW found \in SUBSET Pixels, NEW px \in Pixels
  PROVE  px \notin GlueAndCut(found) <=> \E b \in Bare(found) : b \in Kernel(px, CUT_SIZE)
<1>1. px \notin Erode(Dilate(found, GLUE_SIZE), CUT_SIZE)
        <=> \E b \in Bare(found) : b \in Kernel(px, CUT_SIZE)
  BY DEF Erode, Bare, Kernel
<1>2. CASE found = {}
  <2>1. Dilate(found, GLUE_SIZE) = {}
    BY <1>2 DEF Dilate
  <2>2. CUT_SIZE \div 2 \in Nat
    BY DEF GridAssumption
  <2>3. px \in Kernel(px, CUT_SIZE)
    BY <2>2, InKernel DEF Pixels, GridAssumption
  <2>4. GlueAndCut(found) = {}
    BY <1>2 DEF GlueAndCut
  <2> QED
    BY <1>1, <2>1, <2>3, <2>4 DEF Erode
<1>3. CASE found # {}
  BY <1>1, <1>3 DEF GlueAndCut
<1> QED
  BY <1>2, <1>3

LEMMA NothingBare == Bare(Pixels) = {}
<1>1. GLUE_SIZE \div 2 \in Nat
  BY DEF GridAssumption
<1>2. \A px \in Pixels : px \in Kernel(px, GLUE_SIZE)
  BY <1>1, InKernel DEF Pixels, GridAssumption
<1> QED
  BY <1>2 DEF Bare, Dilate

(* Pixels that are not more than k apart, and their distance.               *)
LEMMA Apart ==
  ASSUME NEW a \in Int, NEW b \in Int, NEW k \in Nat, NEW p \in Nat \ {0}
  PROVE  /\ a - b \in -k .. k => a * p <= b * p + k * p /\ b * p <= a * p + k * p
         /\ a * p < b * p + k * p + p => a - b <= k
<1>1. ASSUME NEW c \in Int, NEW d \in Int, c <= d
      PROVE  c * p <= d * p
  <2>1. (d - c) * p >= 0
    BY <1>1
  <2> QED
    BY <2>1
<1>2. ASSUME a - b \in -k .. k PROVE a * p <= b * p + k * p /\ b * p <= a * p + k * p
  <2>1. a * p <= (b + k) * p /\ b * p <= (a + k) * p
    BY <1>1, <1>2
  <2> QED
    BY <2>1
<1>3. ASSUME a * p < b * p + k * p + p PROVE a - b <= k
  <2>1. a * p < (b + k + 1) * p
    BY <1>3
  <2>2. a < b + k + 1
    BY <2>1, Multiples
  <2> QED
    BY <2>2
<1> QED
  BY <1>2, <1>3

(* The pixel of a cell and the ground it shows, as seen from a point of the *)
(* cell: what a kernel about the pixel reaches is within the rounding.      *)
LEMMA ReachRow ==
  ASSUME NEW x \in Int, NEW c \in Int, NEW t \in Int, NEW v \in Int, NEW k \in Nat,
         c < ROI_X_MIN + (IMG_H - t) * Pixel + Pixel,
         ROI_X_MIN + (IMG_H - t) * Pixel <= c,
         x < c + GRID_RES \div 2, c < x + GRID_RES + GRID_RES \div 2,
         t - v \in -k .. k
  PROVE  /\ ROI_X_MIN + (IMG_H - v) * Pixel > x - (k * Pixel + Rounding)
         /\ ROI_X_MIN + (IMG_H - v - 1) * Pixel < x + (k * Pixel + Rounding)
<1> DEFINE h == GRID_RES \div 2
           a == IMG_H - t
           b == IMG_H - v
<1>0. /\ h \in Nat \ {0} /\ GRID_RES \in Nat /\ GRID_RES <= Pixel /\ Pixel \in Nat \ {0}
      /\ ROI_X_MIN \in Nat /\ IMG_H \in Nat /\ a \in Int /\ b \in Int /\ a - b \in -k .. k
  BY DEF GridAssumption
<1>1. a * Pixel <= b * Pixel + k * Pixel /\ b * Pixel <= a * Pixel + k * Pixel
  <2> HIDE DEF a, b
  <2> QED
    BY <1>0, Apart
<1>2. (b - 1) * Pixel = b * Pixel - Pixel
  <2> HIDE DEF a, b
  <2> QED
    BY <1>0
<1>3. /\ c < ROI_X_MIN + a * Pixel + Pixel /\ ROI_X_MIN + a * Pixel <= c
      /\ x < c + h /\ c < x + GRID_RES + h
  OBVIOUS
<1>4. /\ ROI_X_MIN + b * Pixel > x - (k * Pixel + (Pixel + h))
      /\ ROI_X_MIN + (b - 1) * Pixel < x + (k * Pixel + (Pixel + h))
  <2> HIDE DEF a, b, h
  <2>1. a * Pixel \in Int /\ b * Pixel \in Int /\ k * Pixel \in Int
    BY <1>0
  <2> QED
    BY <1>0, <1>1, <1>2, <1>3, <2>1
<1> QED
  BY <1>4 DEF Rounding

LEMMA ReachColumn ==
  ASSUME NEW y \in Int, NEW c \in Int, NEW f \in Int, NEW u \in Int, NEW k \in Nat,
         (IMG_W \div 2 - f) * Pixel < c + Pixel,
         c < (IMG_W \div 2 - f) * Pixel + Pixel,
         y < c + GRID_RES \div 2, c < y + GRID_RES + GRID_RES \div 2,
         f - u \in -k .. k
  PROVE  /\ (IMG_W \div 2 - u) * Pixel > y - (k * Pixel + Rounding)
         /\ (IMG_W \div 2 - u - 1) * Pixel < y + (k * Pixel + Rounding)
<1> DEFINE h == GRID_RES \div 2
           a == IMG_W \div 2 - f
           b == IMG_W \div 2 - u
<1>0. /\ h \in Nat \ {0} /\ GRID_RES \in Nat /\ GRID_RES <= Pixel /\ Pixel \in Nat \ {0}
      /\ a \in Int /\ b \in Int /\ a - b \in -k .. k
  BY DEF GridAssumption
<1>1. a * Pixel <= b * Pixel + k * Pixel /\ b * Pixel <= a * Pixel + k * Pixel
  <2> HIDE DEF a, b
  <2> QED
    BY <1>0, Apart
<1>2. (b - 1) * Pixel = b * Pixel - Pixel
  <2> HIDE DEF a, b
  <2> QED
    BY <1>0
<1>3. a * Pixel < c + Pixel /\ c < a * Pixel + Pixel /\ y < c + h /\ c < y + GRID_RES + h
  OBVIOUS
<1>4. /\ b * Pixel > y - (k * Pixel + (Pixel + h))
      /\ (b - 1) * Pixel < y + (k * Pixel + (Pixel + h))
  <2> HIDE DEF a, b, h
  <2>1. a * Pixel \in Int /\ b * Pixel \in Int /\ k * Pixel \in Int
    BY <1>0
  <2> QED
    BY <1>0, <1>1, <1>2, <1>3, <2>1
<1> QED
  BY <1>4 DEF Rounding

(* What costs has something bare within the rounding of what is cut.        *)
LEMMA CostIsNear ==
  ASSUME NEW found \in SUBSET Pixels, NEW p \in Int \X Int,
         costmap = Lethal(GlueAndCut(found)), GetCameraCost(p) = 100
  PROVE  Within(p, Cut + Rounding) \cap Bare(found) # {}
<1> DEFINE ix == Trunc(p[1] - OriginX, GRID_RES)
           iy == Trunc(p[2] - OriginY, GRID_RES)
           cx == CentreX(ix)
           cy == CentreY(iy)
           k == CUT_SIZE \div 2
<1>0. OriginX \in Int /\ OriginY \in Int /\ k \in Nat /\ Pixel \in Nat /\ GRID_RES \in Nat
  BY DEF GridAssumption, OriginY
<1>1. ix \in 0 .. GRID_W - 1 /\ iy \in 0 .. GRID_H - 1 /\ iy * GRID_W + ix \in costmap
  BY DEF GetCameraCost
<1>2. PICK d \in Mapped : d[2] * GRID_W + d[1] = iy * GRID_W + ix /\ PixelOf[d] \notin GlueAndCut(found)
  <2> HIDE DEF ix, iy
  <2> QED
    BY <1>1, Zenon DEF Lethal
<1>3. d[1] = ix /\ d[2] = iy
  <2>1. d[1] \in 0 .. GRID_W - 1 /\ d[2] \in Nat /\ iy \in Nat
    BY <1>1 DEF Mapped
  <2> HIDE DEF ix, iy
  <2> QED
    <3>1. d[2] * GRID_W + d[1] = iy * GRID_W + ix
      BY <1>2
    <3>2. ix \in 0 .. GRID_W - 1
      BY <1>1
    <3> DEFINE a == d[1]
               b == d[2]
    <3>3. b * GRID_W + a = iy * GRID_W + ix /\ a \in 0 .. GRID_W - 1 /\ b \in Nat
      BY <2>1, <3>1
    <3> HIDE DEF a, b
    <3>4. a = ix /\ b = iy
      BY <2>1, <3>2, <3>3, SameCell
    <3> QED
      BY <3>4 DEF a, b
<1> DEFINE px == <<Column(cy), Row(cx)>>
<1>4. px \in Pixels /\ cx >= ROI_X_MIN /\ px \notin GlueAndCut(found)
  <2> HIDE DEF ix, iy
  <2> QED
    BY <1>2, <1>3 DEF Mapped, PixelOf
<1>5. PICK b \in Bare(found) : b \in Kernel(px, CUT_SIZE)
  <2> HIDE DEF px
  <2> QED
    BY <1>4, OffMask
<1>6. b \in Pixels /\ b[1] \in Int /\ b[2] \in Int
  BY DEF Bare, Pixels
<1>7. px[1] - b[1] \in -k .. k /\ px[2] - b[2] \in -k .. k
  <2> HIDE DEF px, k
  <2> QED
    BY <1>0, <1>4, <1>5, <1>6, InKernel DEF k
<1>8. /\ cx \in Int /\ p[1] < cx + GRID_RES \div 2 /\ cx < p[1] + GRID_RES + GRID_RES \div 2
      /\ cy \in Int /\ p[2] < cy + GRID_RES \div 2 /\ cy < p[2] + GRID_RES + GRID_RES \div 2
  BY <1>0, <1>1, CellCentre DEF CentreX, CentreY
<1>9. /\ ROI_X_MIN + (IMG_H - b[2]) * Pixel > p[1] - (k * Pixel + Rounding)
      /\ ROI_X_MIN + (IMG_H - b[2] - 1) * Pixel < p[1] + (k * Pixel + Rounding)
  <2> HIDE DEF ix, iy, k, cx, cy
  <2> QED
    BY <1>0, <1>4, <1>6, <1>7, <1>8, RowShows, ReachRow
<1>10. /\ (IMG_W \div 2 - b[1]) * Pixel > p[2] - (k * Pixel + Rounding)
       /\ (IMG_W \div 2 - b[1] - 1) * Pixel < p[2] + (k * Pixel + Rounding)
  <2> HIDE DEF ix, iy, k, cx, cy
  <2>1. /\ px[1] \in Int
        /\ (IMG_W \div 2 - px[1]) * Pixel < cy + Pixel
        /\ cy < (IMG_W \div 2 - px[1]) * Pixel + Pixel
    BY <1>8, ColumnShows
  <2> HIDE DEF px
  <2> QED
    BY <1>0, <1>6, <1>7, <1>8, <2>1, ReachColumn
<1>11. b \in Within(p, Cut + Rounding)
  BY <1>6, <1>9, <1>10 DEF Within, Ahead, Left, Cut
<1> QED
  BY <1>5, <1>11

(* The cell of a point in view is on the map, and its centre in the image.  *)
LEMMA ViewX ==
  ASSUME NEW x \in ROI_X_MIN + Pixel + GRID_RES .. ROI_X_MAX - GRID_RES,
         NEW g, g = Trunc(x - OriginX, GRID_RES)
  PROVE  /\ x \in Int /\ x >= OriginX /\ g \in 0 .. GRID_W - 1
         /\ CentreX(g) \in ROI_X_MIN + Pixel .. ROI_X_MAX
         /\ Row(CentreX(g)) \in 0 .. IMG_H - 1
<1> DEFINE h == GRID_RES \div 2
           c == CentreX(g)
<1>0. /\ h \in Nat \ {0} /\ GRID_RES = 2 * h /\ GRID_RES \in Nat \ {0} /\ Pixel \in Nat \ {0}
      /\ ROI_X_MIN \in Nat /\ IMG_H \in Nat \ {0} /\ OriginX \in Int /\ OriginX <= ROI_X_MIN
      /\ GRID_W \in Nat \ {0} /\ ROI_X_MAX \in Int /\ ROI_X_MAX <= OriginX + GRID_W * GRID_RES
      /\ ROI_X_MAX = ROI_X_MIN + IMG_H * Pixel
  BY DEF GridAssumption, ROI_X_MAX
<1>1. x \in Int /\ x >= ROI_X_MIN + Pixel + GRID_RES /\ x <= ROI_X_MAX - GRID_RES
  BY <1>0
<1>2. x - OriginX \in Nat /\ x >= OriginX
  BY <1>0, <1>1
<1>3. g \in Nat /\ g * GRID_RES <= x - OriginX
  <2>1. g = (x - OriginX) \div GRID_RES
    BY <1>2 DEF Trunc
  <2> QED
    BY <1>0, <1>2, <2>1, QuotientNat
<1>4. g < GRID_W
  <2>1. g * GRID_RES < GRID_W * GRID_RES
    <3>1. g * GRID_RES \in Int /\ GRID_W * GRID_RES \in Int
      BY <1>0, <1>3
    <3> HIDE DEF h
    <3> QED
      BY <1>0, <1>1, <1>3, <3>1
  <2> QED
    BY <1>0, <1>3, <2>1, Multiples
<1>5. c \in Int /\ x < c + h /\ c <= x + h
  BY <1>0, <1>1, <1>2, <1>3, CellCentre DEF CentreX
<1>6. c >= ROI_X_MIN + Pixel /\ c < ROI_X_MAX
  <2> HIDE DEF c, h
  <2> QED
    BY <1>0, <1>1, <1>5
<1>7. Row(c) \in 0 .. IMG_H - 1
  <2> HIDE DEF c
  <2>1. /\ Row(c) \in Int /\ ROI_X_MIN + (IMG_H - Row(c)) * Pixel <= c
        /\ c < ROI_X_MIN + (IMG_H - Row(c)) * Pixel + Pixel
    <3>1. c >= ROI_X_MIN
      BY <1>0, <1>5, <1>6
    <3> QED
      BY <1>5, <3>1, RowShows
  <2> DEFINE n == IMG_H - Row(c)
  <2>2. n \in Int /\ n * Pixel < IMG_H * Pixel /\ 0 * Pixel < n * Pixel
    <3>1. n \in Int
      BY <1>0, <2>1
    <3>2. ROI_X_MIN + n * Pixel <= c /\ c < ROI_X_MIN + n * Pixel + Pixel
      BY <2>1
    <3> HIDE DEF n
    <3>3. n * Pixel \in Int /\ IMG_H * Pixel \in Int
      BY <1>0, <3>1
    <3> QED
      BY <1>0, <1>5, <1>6, <3>1, <3>2, <3>3
  <2> HIDE DEF n
  <2>3. n < IMG_H /\ 0 < n
    BY <1>0, <2>2, Multiples
  <2> QED
    BY <1>0, <2>1, <2>3 DEF n
<1> QED
  BY <1>0, <1>1, <1>2, <1>3, <1>4, <1>5, <1>6, <1>7

LEMMA ViewY ==
  ASSUME NEW y \in Pixel - (IMG_W \div 2) * Pixel .. (IMG_W \div 2) * Pixel - Pixel,
         NEW g, g = Trunc(y - OriginY, GRID_RES)
  PROVE  /\ y \in Int /\ y >= OriginY /\ g \in 0 .. GRID_H - 1
         /\ Column(CentreY(g)) \in 0 .. IMG_W - 1
<1> DEFINE h == GRID_RES \div 2
           m == IMG_W \div 2
           c == CentreY(g)
<1>0. /\ h \in Nat \ {0} /\ GRID_RES = 2 * h /\ GRID_RES \in Nat \ {0} /\ Pixel \in Nat \ {0}
      /\ m \in Nat /\ m * Pixel \in Int /\ IMG_W = 2 * m /\ OriginY \in Int
      /\ GRID_RES <= Pixel
      /\ GRID_H \in Nat \ {0} /\ OriginY <= -(m * Pixel) /\ m * Pixel <= OriginY + GRID_H * GRID_RES
  <2>1. OriginY \in Int
    BY DEF GridAssumption, OriginY
  <2> QED
    BY <2>1 DEF GridAssumption
<1>1. y \in Int /\ y >= Pixel - m * Pixel /\ y <= m * Pixel - Pixel
  BY <1>0
<1>2. y - OriginY \in Nat /\ y >= OriginY
  <2> HIDE DEF h, m
  <2> QED
    BY <1>0, <1>1
<1>3. g \in Nat /\ g * GRID_RES <= y - OriginY
  <2>1. g = (y - OriginY) \div GRID_RES
    BY <1>2 DEF Trunc
  <2> QED
    BY <1>0, <1>2, <2>1, QuotientNat
<1>4. g < GRID_H
  <2>1. g * GRID_RES < GRID_H * GRID_RES
    <3>1. g * GRID_RES \in Int /\ GRID_H * GRID_RES \in Int
      BY <1>0, <1>3
    <3> HIDE DEF h, m
    <3> QED
      BY <1>0, <1>1, <1>3, <3>1
  <2> QED
    BY <1>0, <1>3, <2>1, Multiples
<1>5. c \in Int /\ y < c + h /\ c <= y + h
  BY <1>0, <1>1, <1>2, <1>3, CellCentre DEF CentreY
<1>6. c < m * Pixel /\ -c < m * Pixel
  <2> HIDE DEF c, h, m
  <2> QED
    BY <1>0, <1>1, <1>5
<1>7. Column(c) \in 0 .. IMG_W - 1
  <2> HIDE DEF c
  <2>1. CASE -c >= 0
    <3> DEFINE q == (-c) \div Pixel
    <3>1. Column(c) = m + q
      BY <2>1 DEF Column, Trunc
    <3>2. q \in Nat /\ q * Pixel <= -c
      <4>1. -c \in Nat
        BY <1>5, <2>1
      <4> QED
        BY <1>0, <4>1, QuotientNat
    <3> HIDE DEF q, m
    <3>3. q * Pixel < m * Pixel
      <4>1. q * Pixel \in Int
        BY <1>0, <3>2
      <4> QED
        BY <1>0, <1>5, <1>6, <3>2, <4>1
    <3>4. q < m
      BY <1>0, <3>2, <3>3, Multiples
    <3> QED
      BY <1>0, <3>1, <3>2, <3>4
  <2>2. CASE ~(-c >= 0)
    <3> DEFINE q == c \div Pixel
    <3>1. Column(c) = m + (-q)
      BY <1>5, <2>2 DEF Column, Trunc
    <3>2. q \in Nat /\ q * Pixel <= c
      <4>1. c \in Nat
        BY <1>5, <2>2
      <4> QED
        BY <1>0, <4>1, QuotientNat
    <3> HIDE DEF q, m
    <3>3. q * Pixel < m * Pixel
      <4>1. q * Pixel \in Int
        BY <1>0, <3>2
      <4> QED
        BY <1>0, <1>5, <1>6, <3>2, <4>1
    <3>4. q < m
      BY <1>0, <3>2, <3>3, Multiples
    <3> QED
      BY <1>0, <3>1, <3>2, <3>4
  <2> QED
    BY <2>1, <2>2
<1> QED
  BY <1>1, <1>2, <1>3, <1>4, <1>7, <1>0

(* What is bare and near enough to a point in view is reached by the kernel *)
(* about the pixel of its cell.                                             *)
LEMMA HitRow ==
  ASSUME NEW x \in Int, NEW c \in Int, NEW t \in Int, NEW v \in Int, NEW k \in Nat,
         c < ROI_X_MIN + (IMG_H - t) * Pixel + Pixel,
         ROI_X_MIN + (IMG_H - t) * Pixel <= c,
         x < c + GRID_RES \div 2, c <= x + GRID_RES \div 2,
         ROI_X_MIN + (IMG_H - v - 1) * Pixel >= x - (k * Pixel - GRID_RES \div 2),
         ROI_X_MIN + (IMG_H - v) * Pixel <= x + (k * Pixel - GRID_RES \div 2)
  PROVE  t - v \in -k .. k
<1> DEFINE h == GRID_RES \div 2
           a == IMG_H - t
           b == IMG_H - v
<1>0. /\ h \in Nat /\ Pixel \in Nat \ {0} /\ ROI_X_MIN \in Nat
      /\ a \in Int /\ b \in Int /\ b - a = t - v /\ a - b = v - t
  <2>1. h \in Nat /\ Pixel \in Nat \ {0} /\ ROI_X_MIN \in Nat /\ IMG_H \in Int
    BY DEF GridAssumption
  <2> QED
    BY <2>1
<1>1. /\ c < ROI_X_MIN + a * Pixel + Pixel /\ ROI_X_MIN + a * Pixel <= c
      /\ x < c + h /\ c <= x + h
      /\ ROI_X_MIN + (b - 1) * Pixel >= x - (k * Pixel - h)
      /\ ROI_X_MIN + b * Pixel <= x + (k * Pixel - h)
  OBVIOUS
<1> HIDE DEF a, b, h
<1>2. /\ a * Pixel \in Int /\ b * Pixel \in Int /\ k * Pixel \in Int
      /\ (b - 1) * Pixel = b * Pixel - Pixel
  BY <1>0
<1>3. b * Pixel < a * Pixel + k * Pixel + Pixel
  BY <1>0, <1>1, <1>2
<1>4. a * Pixel < b * Pixel + k * Pixel + Pixel
  BY <1>0, <1>1, <1>2
<1>5. b - a <= k /\ a - b <= k
  BY <1>0, <1>3, <1>4, Apart
<1> QED
  BY <1>0, <1>5

LEMMA HitColumn ==
  ASSUME NEW y \in Int, NEW c \in Int, NEW f \in Int, NEW u \in Int, NEW k \in Nat,
         (IMG_W \div 2 - f) * Pixel < c + Pixel,
         c < (IMG_W \div 2 - f) * Pixel + Pixel,
         y < c + GRID_RES \div 2, c <= y + GRID_RES \div 2,
         (IMG_W \div 2 - u - 1) * Pixel >= y - (k * Pixel - GRID_RES \div 2),
         (IMG_W \div 2 - u) * Pixel <= y + (k * Pixel - GRID_RES \div 2)
  PROVE  f - u \in -k .. k
<1> DEFINE h == GRID_RES \div 2
           a == IMG_W \div 2 - f
           b == IMG_W \div 2 - u
<1>0. /\ h \in Nat /\ Pixel \in Nat \ {0}
      /\ a \in Int /\ b \in Int /\ b - a = f - u /\ a - b = u - f
  BY DEF GridAssumption
<1>1. /\ a * Pixel < c + Pixel /\ c < a * Pixel + Pixel
      /\ y < c + h /\ c <= y + h
      /\ (b - 1) * Pixel >= y - (k * Pixel - h)
      /\ b * Pixel <= y + (k * Pixel - h)
  OBVIOUS
<1> HIDE DEF a, b, h
<1>2. /\ a * Pixel \in Int /\ b * Pixel \in Int /\ k * Pixel \in Int
      /\ (b - 1) * Pixel = b * Pixel - Pixel
  BY <1>0
<1>3. b * Pixel < a * Pixel + k * Pixel + Pixel
  BY <1>0, <1>1, <1>2
<1>4. a * Pixel < b * Pixel + k * Pixel + Pixel
  <2> DEFINE aP == a * Pixel
             bP == b * Pixel
             kP == k * Pixel
  <2>1. aP \in Int /\ bP \in Int /\ kP \in Int /\ aP < c + Pixel /\ c <= y + h
        /\ bP - Pixel >= y - (kP - h)
    BY <1>1, <1>2
  <2> HIDE DEF aP, bP, kP
  <2>2. aP < bP + kP + Pixel
    BY <1>0, <2>1
  <2> QED
    BY <2>2 DEF aP, bP, kP
<1>5. b - a <= k /\ a - b <= k
  BY <1>0, <1>3, <1>4, Apart
<1> QED
  BY <1>0, <1>5

(* What is bare and near costs.                                             *)
LEMMA NearCosts ==
  ASSUME NEW found \in SUBSET Pixels, NEW p \in Int \X Int, InView(p),
         costmap = Lethal(GlueAndCut(found)),
         WhollyWithin(p, Cut - GRID_RES \div 2) \cap Bare(found) # {}
  PROVE  GetCameraCost(p) = 100
<1> DEFINE ix == Trunc(p[1] - OriginX, GRID_RES)
           iy == Trunc(p[2] - OriginY, GRID_RES)
           cx == CentreX(ix)
           cy == CentreY(iy)
           k == CUT_SIZE \div 2
           px == <<Column(cy), Row(cx)>>
<1>0. /\ OriginX \in Int /\ OriginY \in Int /\ k \in Nat /\ Pixel \in Nat /\ GRID_RES \in Nat
      /\ ROI_X_MIN \in Nat
  BY DEF GridAssumption, OriginY
<1>1. /\ p[1] \in Int /\ p[1] >= OriginX /\ ix \in 0 .. GRID_W - 1
      /\ cx \in ROI_X_MIN + Pixel .. ROI_X_MAX /\ Row(cx) \in 0 .. IMG_H - 1
  <2> HIDE DEF cx
  <2> QED
    BY ViewX DEF InView, cx
<1>2. /\ p[2] \in Int /\ p[2] >= OriginY /\ iy \in 0 .. GRID_H - 1
      /\ Column(cy) \in 0 .. IMG_W - 1
  <2> HIDE DEF cy
  <2> QED
    BY ViewY DEF InView, cy
<1>3. /\ cx \in Int /\ p[1] < cx + GRID_RES \div 2 /\ cx <= p[1] + GRID_RES \div 2
      /\ cy \in Int /\ p[2] < cy + GRID_RES \div 2 /\ cy <= p[2] + GRID_RES \div 2
  BY <1>0, <1>1, <1>2, CellCentre DEF CentreX, CentreY
<1>4. px \in Pixels /\ cx \in ROI_X_MIN .. ROI_X_MAX
  <2>1. cx >= ROI_X_MIN /\ cx <= ROI_X_MAX
    <3> HIDE DEF cx, ix, iy, cy
    <3> QED
      BY <1>0, <1>1, <1>3 DEF ROI_X_MAX, GridAssumption
  <2>2. ROI_X_MAX \in Int
    BY DEF ROI_X_MAX, GridAssumption
  <2> HIDE DEF cx, ix, iy, cy
  <2> QED
    BY <1>0, <1>1, <1>2, <1>3, <2>1, <2>2 DEF Pixels
<1>5. PICK b \in Bare(found) : b \in WhollyWithin(p, Cut - GRID_RES \div 2)
  OBVIOUS
<1>6. b \in Pixels /\ b[1] \in Int /\ b[2] \in Int
  BY DEF Bare, Pixels
<1>7. /\ ROI_X_MIN + (IMG_H - b[2] - 1) * Pixel >= p[1] - (k * Pixel - GRID_RES \div 2)
      /\ ROI_X_MIN + (IMG_H - b[2]) * Pixel <= p[1] + (k * Pixel - GRID_RES \div 2)
      /\ (IMG_W \div 2 - b[1] - 1) * Pixel >= p[2] - (k * Pixel - GRID_RES \div 2)
      /\ (IMG_W \div 2 - b[1]) * Pixel <= p[2] + (k * Pixel - GRID_RES \div 2)
  BY <1>5 DEF WhollyWithin, Ahead, Left, Cut
<1>8. px[2] - b[2] \in -k .. k
  <2>1. /\ px[2] \in Int /\ ROI_X_MIN + (IMG_H - px[2]) * Pixel <= cx
        /\ cx < ROI_X_MIN + (IMG_H - px[2]) * Pixel + Pixel
    <3>1. cx >= ROI_X_MIN
      BY <1>0, <1>3, <1>4
    <3> HIDE DEF ix, iy, cx, cy
    <3> QED
      BY <1>3, <3>1, RowShows
  <2> HIDE DEF ix, iy, cx, cy, px, k
  <2> QED
    BY <1>0, <1>1, <1>3, <1>6, <1>7, <2>1, HitRow
<1>9. px[1] - b[1] \in -k .. k
  <2>1. /\ px[1] \in Int
        /\ (IMG_W \div 2 - px[1]) * Pixel < cy + Pixel
        /\ cy < (IMG_W \div 2 - px[1]) * Pixel + Pixel
    BY <1>3, ColumnShows
  <2> HIDE DEF ix, iy, cx, cy, px, k
  <2> QED
    BY <1>0, <1>2, <1>3, <1>6, <1>7, <2>1, HitColumn
<1>10. px \notin GlueAndCut(found)
  <2>1. b \in Kernel(px, CUT_SIZE)
    <3> HIDE DEF ix, iy, cx, cy, px, k
    <3> QED
      BY <1>0, <1>4, <1>6, <1>8, <1>9, InKernel DEF k
  <2> HIDE DEF ix, iy, cx, cy, px
  <2> QED
    BY <1>4, <2>1, OffMask
<1>11. <<ix, iy>> \in Mapped /\ PixelOf[<<ix, iy>>] = px
  <2> HIDE DEF ix, iy
  <2> QED
    BY <1>1, <1>2, <1>4 DEF Mapped, PixelOf
<1>12. iy * GRID_W + ix \in costmap
  <2> DEFINE d == <<ix, iy>>
  <2>1. d \in {e \in Mapped : PixelOf[e] \notin GlueAndCut(found)} /\ d[2] * GRID_W + d[1] = iy * GRID_W + ix
    <3> HIDE DEF px, ix, iy
    <3> QED
      BY <1>10, <1>11
  <2> HIDE DEF d, ix, iy
  <2> QED
    BY <2>1, Zenon DEF Lethal
<1> QED
  BY <1>1, <1>2, <1>12 DEF GetCameraCost

(* The costmap is that of the image shown, or still that of no image; what  *)
(* waits in between is what was found in some image.                        *)
GridInv ==
  /\ frames \subseteq Images
  /\ queue \subseteq {[mask |-> GlueAndCut(found), found |-> found] : found \in Images}
  /\ \/ costmap = {} /\ shown = Pixels
     \/ shown \in Images /\ costmap = Lethal(GlueAndCut(shown))

LEMMA GridInductive == NodesSpec => []GridInv
<1> USE DEF GridInv
<1>1. NodesInit => GridInv
  BY DEF NodesInit, InitGrid
<1>2. GridInv /\ [NodesNext]_nodes_vars => GridInv'
  <2> SUFFICES ASSUME GridInv, [NodesNext]_nodes_vars PROVE GridInv'
    OBVIOUS
  <2>1. CASE Camera
    BY <2>1 DEF Camera, CameraImage, grid_vars
  <2>2. CASE LaneNode
    BY <2>2 DEF LaneNode, grid_vars
  <2>3. CASE Inference
    BY <2>3, Zenon DEF Inference, MaskOf
  <2>4. CASE InferenceFails
    BY <2>4 DEF InferenceFails
  <2>5. CASE ImageCallback
    <3>1. PICK image \in queue :
            queue' = queue \ {image} /\ costmap' = Lethal(image.mask) /\ shown' = image.found
      BY <2>5 DEF ImageCallback
    <3>2. PICK found \in Images : image = [mask |-> GlueAndCut(found), found |-> found]
      BY <3>1, Zenon
    <3>3. image.mask = GlueAndCut(found) /\ image.found = found
      BY <3>2
    <3>4. frames' = frames
      BY <2>5 DEF ImageCallback
    <3> QED
      BY <3>1, <3>3, <3>4
  <2>6. CASE BadImage
    BY <2>6 DEF BadImage
  <2>7. CASE UNCHANGED nodes_vars
    BY <2>7 DEF nodes_vars, grid_vars
  <2> QED
    BY <2>1, <2>2, <2>3, <2>4, <2>5, <2>6, <2>7 DEF NodesNext, DrivableNode, CostmapNode
<1> QED
  BY <1>1, <1>2, PTL DEF NodesSpec

(* What the planner looks up is what the camera showed, for every image,    *)
(* kernel, size of pixel and cell, and point.                               *)
THEOREM SeenCorrect == NodesSpec => []SeenAsShown
<1>1. GridInv => SeenAsShown
  <2> SUFFICES ASSUME GridInv PROVE SeenAsShown
    OBVIOUS
  <2>0. Points \subseteq Int \X Int /\ Images \subseteq SUBSET Pixels
    BY DEF GridAssumption
  <2>1. CASE costmap = {} /\ shown = Pixels
    <3>1. \A p \in Points : GetCameraCost(p) = 0
      BY <2>1 DEF GetCameraCost
    <3>2. MustCost[shown] = {}
      BY <2>1, NothingBare DEF MustCost
    <3> QED
      BY <3>1, <3>2 DEF SeenAsShown
  <2>2. CASE shown \in Images /\ costmap = Lethal(GlueAndCut(shown))
    <3>1. ASSUME NEW p \in MustCost[shown] PROVE p \in Points /\ GetCameraCost(p) = 100
      <4>1. /\ p \in Points /\ InView(p)
            /\ WhollyWithin(p, Cut - GRID_RES \div 2) \cap Bare(shown) # {}
        BY <2>2, <3>1 DEF MustCost
      <4> QED
        BY <2>0, <2>2, <4>1, NearCosts
    <3>2. ASSUME NEW p \in Points, GetCameraCost(p) = 100 PROVE p \in MayCost[shown]
      <4>1. Within(p, Cut + Rounding) \cap Bare(shown) # {}
        BY <2>0, <2>2, <3>2, CostIsNear
      <4> QED
        BY <2>2, <4>1 DEF MayCost
    <3> QED
      BY <3>1, <3>2 DEF SeenAsShown
  <2> QED
    BY <2>1, <2>2 DEF GridInv
<1> QED
  BY <1>1, GridInductive, PTL

----------------------------------------------------------------------------
(* The centre of the lane.                                                 *)

HIDE GridAssumption

(* The sums of the beginnings of a history, up to the sum of it all.        *)
Sums(f, h) ==
  /\ f \in [0 .. Len(h) -> Int]
  /\ f[0] = 0
  /\ \A i \in 1 .. Len(h) : f[i] = f[i - 1] + h[i]
  /\ Lane!Sum(h) = f[Len(h)]

LEMMA SumOf ==
  ASSUME NEW h \in Seq(Int)
  PROVE  \E f : Sums(f, h)
<1> DEFINE n == Len(h)
           s == CHOOSE f : f = [i \in 0 .. n |-> IF i = 0 THEN 0 ELSE f[i - 1] + h[i]]
<1>1. n \in Nat /\ 0 <= n /\ h \in [1 .. n -> Int]
  OBVIOUS
<1>2. Lane!Sum(h) = s[n]
  BY DEF Lane!Sum
<1> HIDE DEF n
<1> DEFINE step == [i \in 0 + 1 .. n |-> [t \in Int |-> t + h[i]]]
<1>3. step \in [0 + 1 .. n -> [Int -> Int]]
  BY <1>1
<1>4. \A i \in 0 + 1 .. n, t \in Int : step[i][t] = t + h[i]
  OBVIOUS
<1> HIDE DEF step
<1>5. PICK f \in [0 .. n -> Int] : Runs(f, 0, n, 0, step)
  <2> DEFINE a == 0
  <2>1. a \in Int /\ n \in Int /\ a <= n /\ step \in [a + 1 .. n -> [Int -> Int]]
    BY <1>1, <1>3
  <2>2. a \in Int
    OBVIOUS
  <2> HIDE DEF a
  <2>3. \E f \in [a .. n -> Int] : Runs(f, a, n, a, step)
    BY <2>1, <2>2, Iteration
  <2> QED
    BY <2>3 DEF a
<1>6. f[0] = 0 /\ \A i \in 1 .. n : f[i] = f[i - 1] + h[i]
  <2>1. f[0] = 0
    BY <1>5 DEF Runs
  <2>2. ASSUME NEW i \in 1 .. n PROVE f[i] = f[i - 1] + h[i]
    <3>1. i \in 0 + 1 .. n /\ i - 1 \in 0 .. n
      BY <1>1
    <3>2. f[i - 1] \in Int
      BY <3>1
    <3> QED
      BY <1>4, <1>5, <3>1, <3>2 DEF Runs
  <2> QED
    BY <2>1, <2>2
<1>7. f = [i \in 0 .. n |-> IF i = 0 THEN 0 ELSE f[i - 1] + h[i]]
  <2>1. \A i \in 0 .. n : i # 0 => i \in 1 .. n
    BY <1>1
  <2> QED
    BY <1>6, <2>1
<1>8. s = [i \in 0 .. n |-> IF i = 0 THEN 0 ELSE s[i - 1] + h[i]]
  BY <1>7
<1> HIDE DEF s
<1>9. s \in [0 .. n -> Int] /\ s[0] = 0 /\ \A i \in 1 .. n : s[i] = s[i - 1] + h[i]
  <2>1. s[0] = 0 /\ \A i \in 1 .. n : s[i] = s[i - 1] + h[i]
    BY <1>1, <1>8
  <2>2. 0 .. n \subseteq {i \in 0 .. n : s[i] = f[i]}
    <3> DEFINE Bad == {i \in 0 .. n : s[i] # f[i]}
    <3>1. ASSUME Bad # {} PROVE FALSE
      <4>1. Bad \subseteq Nat
        BY <1>1
      <4>2. PICK i \in Bad : \A j \in Bad : i <= j
        <5> HIDE DEF Bad
        <5> QED
          BY <3>1, <4>1, LeastNat
      <4>3. i # 0
        BY <1>6, <2>1
      <4>4. i \in 1 .. n /\ i - 1 \in 0 .. n /\ ~(i <= i - 1)
        BY <1>1, <4>3
      <4>5. s[i - 1] = f[i - 1]
        BY <4>2, <4>4
      <4> QED
        BY <1>6, <2>1, <4>4, <4>5
    <3> QED
      BY <3>1
  <2>3. s = f
    BY <1>5, <1>8, <2>2
  <2> QED
    BY <1>5, <2>1, <2>3
<1> QED
  BY <1>2, <1>9 DEF Sums, n

(* What is nowhere negative has no negative sum.                            *)
LEMMA SumNat ==
  ASSUME NEW h \in Seq(Nat)
  PROVE  Lane!Sum(h) \in Nat
<1> DEFINE n == Len(h)
<1>1. n \in Nat /\ h \in Seq(Int) /\ \A i \in 1 .. n : h[i] \in Nat
  OBVIOUS
<1>2. PICK f : Sums(f, h)
  BY <1>1, SumOf
<1> DEFINE Bad == {i \in 0 .. n : f[i] \notin Nat}
<1>3. ASSUME Bad # {} PROVE FALSE
  <2>1. Bad \subseteq Nat
    BY <1>1
  <2>2. PICK i \in Bad : \A j \in Bad : i <= j
    <3> HIDE DEF Bad
    <3> QED
      BY <1>3, <2>1, LeastNat
  <2>3. i # 0
    BY <1>2 DEF Sums
  <2>4. i \in 1 .. n /\ i - 1 \in 0 .. n /\ ~(i <= i - 1)
    BY <1>1, <2>3
  <2>5. f[i - 1] \in Nat
    BY <2>2, <2>4
  <2>6. f[i] = f[i - 1] + h[i]
    BY <1>2, <2>4 DEF Sums
  <2> QED
    BY <1>1, <2>4, <2>5, <2>6
<1>4. f[n] \in Nat
  BY <1>1, <1>3
<1> QED
  BY <1>2, <1>4 DEF Sums

(* In a full history the newest takes the place of the oldest.              *)
LEMMA SumShift ==
  ASSUME NEW h \in Seq(Int), h # << >>, NEW x \in Int
  PROVE  Lane!Sum(Append(Tail(h), x)) = Lane!Sum(h) - h[1] + x
<1> DEFINE n == Len(h)
           g == Append(Tail(h), x)
<1>1. /\ n \in Nat \ {0} /\ g \in Seq(Int) /\ Len(g) = n
      /\ (\A i \in 1 .. n - 1 : g[i] = h[i + 1]) /\ g[n] = x /\ h[1] \in Int
      /\ \A i \in 1 .. n : h[i] \in Int
  OBVIOUS
<1>2. PICK f : Sums(f, h)
  BY SumOf
<1> HIDE DEF g
<1>3. PICK e : Sums(e, g)
  BY <1>1, SumOf
<1> HIDE DEF n
<1>4. /\ f \in [0 .. n -> Int] /\ f[0] = 0 /\ Lane!Sum(h) = f[n]
      /\ \A i \in 1 .. n : f[i] = f[i - 1] + h[i]
      /\ e \in [0 .. n -> Int] /\ e[0] = 0 /\ Lane!Sum(g) = e[n]
      /\ \A i \in 1 .. n : e[i] = e[i - 1] + g[i]
  BY <1>1, <1>2, <1>3 DEF Sums, n
<1> DEFINE Bad == {i \in 0 .. n - 1 : e[i] # f[i + 1] - h[1]}
<1>5. ASSUME Bad # {} PROVE FALSE
  <2>1. Bad \subseteq Nat
    BY <1>1
  <2>2. PICK i \in Bad : \A j \in Bad : i <= j
    <3> HIDE DEF Bad
    <3> QED
      BY <1>5, <2>1, LeastNat
  <2>3. i # 0
    <3>1. 1 \in 1 .. n
      BY <1>1
    <3>2. f[1] = f[0] + h[1]
      BY <1>4, <3>1
    <3> QED
      BY <1>1, <1>4, <3>2
  <2>4. i \in 1 .. n - 1 /\ i \in 1 .. n /\ i + 1 \in 1 .. n /\ i - 1 \in 0 .. n - 1 /\ ~(i <= i - 1)
        /\ i - 1 + 1 = i /\ i + 1 - 1 = i
    BY <1>1, <2>3
  <2>5. e[i - 1] = f[i] - h[1]
    BY <2>2, <2>4
  <2>6. e[i] = e[i - 1] + g[i] /\ f[i + 1] = f[i] + h[i + 1] /\ g[i] = h[i + 1]
    <3>1. e[i] = e[i - 1] + g[i]
      BY <1>4, <2>4
    <3>2. f[i + 1] = f[i + 1 - 1] + h[i + 1]
      BY <1>4, <2>4
    <3>3. g[i] = h[i + 1]
      BY <1>1, <2>4
    <3> QED
      BY <2>4, <3>1, <3>2, <3>3
  <2>7. f[i] \in Int /\ h[i + 1] \in Int
    BY <1>1, <1>4, <2>4
  <2> QED
    BY <1>1, <2>5, <2>6, <2>7
<1>6. n - 1 \in 0 .. n - 1 /\ n \in 1 .. n /\ n - 1 + 1 = n /\ n - 1 \in 0 .. n
  BY <1>1
<1>7. e[n - 1] = f[n] - h[1]
  BY <1>5, <1>6
<1>8. e[n] = e[n - 1] + x /\ f[n] \in Int
  BY <1>1, <1>4, <1>6
<1>9. Lane!Sum(g) = Lane!Sum(h) - h[1] + x
  BY <1>1, <1>4, <1>7, <1>8
<1> QED
  BY <1>9 DEF g

(* The lines lie to the right of the left edge of the image, not without    *)
(* end.                                                                     *)
InImage == \E limit \in Nat : Lefts \subseteq 0 .. limit /\ Rights \subseteq 0 .. limit

(* A truncated mean of numbers that are not negative.                       *)
LEMMA MeanOf ==
  ASSUME NEW h \in Seq(Nat), h # << >>
  PROVE  /\ Lane!Target(h) \in Nat /\ Lane!Target(h) # None
         /\ Lane!Target(h) * Len(h) <= Lane!Sum(h)
         /\ Lane!Sum(h) < Lane!Target(h) * Len(h) + Len(h)
<1> DEFINE S == Lane!Sum(h)
           n == Len(h)
<1>1. S \in Nat /\ n \in Nat \ {0}
  BY SumNat
<1>2. Lane!Target(h) = S \div n
  <2> HIDE DEF n
  <2> QED
    BY <1>1 DEF Lane!Target, Lane!Trunc, n
<1>3. None \notin Int
  BY LaneAssumption
<1> HIDE DEF S, n
<1>4. S \div n \in Nat /\ (S \div n) * n <= S /\ S < (S \div n) * n + n
  BY <1>1, QuotientNat
<1> QED
  BY <1>2, <1>3, <1>4 DEF S, n

(* Places differ by no more than their spread.                              *)
LEMMA SpreadNat ==
  ASSUME NEW limit \in Nat, NEW Places, Places \subseteq 0 .. limit,
         NEW h \in Seq(Places), h # << >>
  PROVE  Lane!Spread(Places) \in Nat /\ \A x, y \in Places : x - y <= Lane!Spread(Places)
<1>1. Places \subseteq Int /\ h[1] \in Places
  OBVIOUS
<1> DEFINE low == 0
<1>2. low \in Int /\ \A x \in Places : low <= x
  OBVIOUS
<1>3. limit \in Int /\ \A x \in Places : x <= limit
  OBVIOUS
<1> HIDE DEF low
<1>4. Min(Places) \in Places /\ \A y \in Places : Min(Places) <= y
  BY <1>1, <1>2, MinInt
<1>5. Max(Places) \in Places /\ \A y \in Places : Max(Places) >= y
  BY <1>1, <1>2, <1>3, MaxInt
<1>6. Lane!Spread(Places) = Max(Places) - Min(Places)
  BY DEF Lane!Spread, Lane!Max, Lane!Min, Max, Min
<1> DEFINE a == Max(Places)
           b == Min(Places)
<1>7. /\ a \in Int /\ b \in Int /\ b <= h[1] /\ a >= h[1] /\ h[1] \in Int
      /\ Lane!Spread(Places) = a - b
      /\ \A y \in Places : b <= y /\ a >= y
  BY <1>1, <1>4, <1>5, <1>6
<1> HIDE DEF a, b
<1> QED
  BY <1>1, <1>7

(* One fit more moves the mean by its share of the places where lines are.  *)
LEMMA MeanShift ==
  ASSUME NEW limit \in Nat, NEW Places, Places \subseteq 0 .. limit,
         NEW h \in Seq(Places), Len(h) = HistLen, NEW fit \in Places \union {None}
  PROVE  /\ (Lane!Target(Lane!Remember(h, fit)) - Lane!Target(h)) * HistLen
              <= Lane!Spread(Places) + HistLen
         /\ (Lane!Target(h) - Lane!Target(Lane!Remember(h, fit))) * HistLen
              <= Lane!Spread(Places) + HistLen
<1> DEFINE g == Lane!Remember(h, fit)
           n == HistLen
<1>1. n \in Nat \ {0} /\ None \notin Int
  BY LaneAssumption
<1>2. Places \subseteq Nat /\ Places \subseteq Int
  OBVIOUS
<1>3. h # << >> /\ h[1] \in Places /\ h \in Seq(Nat) /\ h \in Seq(Int)
  <2>1. Len(h) >= 1
    BY <1>1
  <2>2. h # << >> /\ h[1] \in Places
    BY <2>1
  <2> QED
    BY <1>2, <2>2, SeqOver
<1>4. Lane!Spread(Places) \in Nat /\ \A x, y \in Places : x - y <= Lane!Spread(Places)
  BY <1>3, SpreadNat
<1>5. /\ Lane!Target(h) \in Nat
      /\ Lane!Target(h) * n <= Lane!Sum(h) /\ Lane!Sum(h) < Lane!Target(h) * n + n
  BY <1>3, MeanOf
<1>6. Lane!Sum(h) \in Nat
  BY <1>3, SumNat
<1>7. CASE fit = None
  <2>1. g = h
    BY <1>7 DEF Lane!Remember
  <2>2. Lane!Spread(Places) >= 0
    <3>1. h[1] - h[1] <= Lane!Spread(Places)
      BY <1>3, <1>4
    <3>2. h[1] \in Int
      BY <1>2, <1>3
    <3> QED
      BY <1>4, <3>1, <3>2
  <2>3. Lane!Target(g) - Lane!Target(h) = 0 /\ Lane!Target(h) - Lane!Target(g) = 0
    BY <1>5, <2>1
  <2> HIDE DEF g
  <2>4. 0 * n = 0
    BY <1>1
  <2>5. 0 <= Lane!Spread(Places) + n
    BY <1>1, <1>4, <2>2
  <2> QED
    BY <2>3, <2>4, <2>5 DEF g
<1>8. CASE fit # None
  <2>1. fit \in Places
    BY <1>8
  <2>2. g = Append(Tail(h), fit)
    BY <1>1, <1>8 DEF Lane!Remember
  <2>3. g \in Seq(Nat) /\ Len(g) = n /\ g # << >>
    BY <1>1, <1>2, <1>3, <2>1, <2>2
  <2>4. Lane!Sum(g) = Lane!Sum(h) - h[1] + fit
    BY <1>2, <1>3, <2>1, <2>2, SumShift
  <2> HIDE DEF g
  <2>5. /\ Lane!Target(g) \in Nat
        /\ Lane!Target(g) * n <= Lane!Sum(g) /\ Lane!Sum(g) < Lane!Target(g) * n + n
    BY <2>3, MeanOf
  <2>6. Lane!Sum(g) \in Nat
    BY <2>3, SumNat
  <2>7. h[1] - fit <= Lane!Spread(Places) /\ fit - h[1] <= Lane!Spread(Places)
        /\ h[1] \in Int /\ fit \in Int
    BY <1>2, <1>3, <1>4, <2>1
  <2> DEFINE t == Lane!Target(h)
             u == Lane!Target(g)
             s == Lane!Sum(h)
             v == Lane!Sum(g)
             d == Lane!Spread(Places)
  <2>8. /\ t \in Nat /\ u \in Nat /\ s \in Nat /\ v \in Nat /\ d \in Int
        /\ t * n <= s /\ s < t * n + n /\ u * n <= v /\ v < u * n + n
        /\ s - v <= d /\ v - s <= d
    BY <1>4, <1>5, <1>6, <2>4, <2>5, <2>6, <2>7
  <2> HIDE DEF t, u, s, v, d, n
  <2>9. t * n \in Nat /\ u * n \in Nat /\ (u - t) * n = u * n - t * n /\ (t - u) * n = t * n - u * n
    BY <1>1, <2>8 DEF n
  <2>10. n \in Nat
    BY <1>1 DEF n
  <2>11. (u - t) * n <= d + n /\ (t - u) * n <= d + n
    BY <2>8, <2>9, <2>10
  <2> QED
    BY <2>11 DEF t, u, d, g, n
<1> QED
  BY <1>7, <1>8

(* The histories hold places of lines; with a line on either side the       *)
(* centre is that of the means.                                             *)
LaneInv ==
  /\ view \in Lane!Views
  /\ left_fit_history \in Seq(Lefts) /\ right_fit_history \in Seq(Rights)
  /\ left_fit_history # << >> /\ right_fit_history # << >> =>
       lane = Lane!Clip(Lane!Target(left_fit_history) + Lane!Target(right_fit_history))

LEMMA RememberType ==
  ASSUME NEW Places, NEW h \in Seq(Places), NEW fit \in Places \union {None}
  PROVE  Lane!Remember(h, fit) \in Seq(Places) /\ (h # << >> => Lane!Remember(h, fit) # << >>)
<1>1. CASE fit = None
  BY <1>1 DEF Lane!Remember
<1>2. CASE fit # None /\ Len(h) < HistLen
  BY <1>2 DEF Lane!Remember
<1>3. CASE fit # None /\ ~(Len(h) < HistLen)
  <2>1. h # << >>
    BY <1>3, LaneAssumption
  <2>2. Tail(h) \in Seq(Places)
    BY <2>1
  <2> QED
    BY <1>3, <2>2 DEF Lane!Remember
<1> QED
  BY <1>1, <1>2, <1>3

(* The centre of two lines in the image is never the one that stands for    *)
(* none.                                                                    *)
LEMMA CentreOfBoth ==
  ASSUME InImage, NEW l \in Seq(Lefts), NEW r \in Seq(Rights), l # << >>, r # << >>
  PROVE  /\ Lane!Target(l) \in Nat /\ Lane!Target(r) \in Nat
         /\ Lane!Centre(Lane!Target(l), Lane!Target(r)) = Lane!Target(l) + Lane!Target(r)
<1>1. Lefts \subseteq Nat /\ Rights \subseteq Nat
  BY DEF InImage
<1>2. l \in Seq(Nat) /\ r \in Seq(Nat)
  BY <1>1, SeqOver
<1>3. /\ Lane!Target(l) \in Nat /\ Lane!Target(l) # None
      /\ Lane!Target(r) \in Nat /\ Lane!Target(r) # None
  BY <1>2, MeanOf
<1> QED
  BY <1>3 DEF Lane!Centre

(* One image.                                                               *)
LEMMA LaneStep ==
  ASSUME InImage, LaneInv, Lane!ImageCallback
  PROVE  /\ view.left \in Lefts \union {None} /\ view.right \in Rights \union {None}
         /\ left_fit_history' = Lane!Remember(left_fit_history, view.left)
         /\ right_fit_history' = Lane!Remember(right_fit_history, view.right)
         /\ LaneInv'
<1>1. view.left \in Lefts \union {None} /\ view.right \in Rights \union {None}
  <2>1. view \in Lane!Views
    BY DEF LaneInv
  <2>2. CASE view \in [mask : {TRUE}, left : Lefts \union {None}, right : Rights \union {None}]
    BY <2>2
  <2>3. CASE view = [mask |-> FALSE, left |-> None, right |-> None]
    BY <2>3
  <2> QED
    BY <2>1, <2>2, <2>3 DEF Lane!Views
<1>2. /\ left_fit_history' = Lane!Remember(left_fit_history, view.left)
      /\ right_fit_history' = Lane!Remember(right_fit_history, view.right)
      /\ view' = view
  BY DEF Lane!ImageCallback
<1>3. left_fit_history' \in Seq(Lefts) /\ right_fit_history' \in Seq(Rights)
  BY <1>1, <1>2, RememberType DEF LaneInv
<1>4. ASSUME left_fit_history' # << >>, right_fit_history' # << >>
      PROVE  lane' = Lane!Clip(Lane!Target(left_fit_history') + Lane!Target(right_fit_history'))
  <2> DEFINE a == Lane!Target(left_fit_history')
             b == Lane!Target(right_fit_history')
  <2>1. a \in Nat /\ b \in Nat /\ Lane!Centre(a, b) = a + b
    BY <1>3, <1>4, CentreOfBoth
  <2>2. lane' = IF Lane!Centre(a, b) = -2 THEN lane ELSE Lane!Clip(Lane!Centre(a, b))
    BY DEF Lane!ImageCallback
  <2> HIDE DEF a, b
  <2>3. a + b # -2
    BY <2>1
  <2>4. lane' = Lane!Clip(a + b)
    BY <2>1, <2>2, <2>3
  <2> QED
    BY <2>4 DEF a, b
<1>5. view' \in Lane!Views
  BY <1>2 DEF LaneInv
<1>6. LaneInv'
  BY <1>3, <1>4, <1>5 DEF LaneInv, Lane!Views
<1> QED
  BY <1>1, <1>2, <1>6

LEMMA LaneInductive == ASSUME InImage PROVE NodesSpec => []LaneInv
<1>1. NodesInit => LaneInv
  BY DEF NodesInit, Lane!Init, LaneInv
<1>2. LaneInv /\ [NodesNext]_nodes_vars => LaneInv'
  <2> SUFFICES ASSUME LaneInv, [NodesNext]_nodes_vars PROVE LaneInv'
    OBVIOUS
  <2>1. CASE LaneNode
    BY <2>1, LaneStep DEF LaneNode
  <2>2. CASE Camera
    BY <2>2 DEF Camera, Lane!Look, LaneInv, lane_vars
  <2>3. CASE DrivableNode \/ CostmapNode
    BY <2>3 DEF DrivableNode, CostmapNode, LaneInv, lane_vars, Lane!Views
  <2>4. CASE UNCHANGED nodes_vars
    BY <2>4 DEF nodes_vars, LaneInv, lane_vars, Lane!Views
  <2> QED
    BY <2>1, <2>2, <2>3, <2>4 DEF NodesNext
<1> QED
  BY <1>1, <1>2, PTL DEF NodesSpec

(* Clipping brings closer.                                                  *)
LEMMA Clipped ==
  ASSUME NEW a \in Nat, NEW b \in Nat
  PROVE  /\ Lane!Clip(a) \in Int /\ Lane!Clip(b) \in Int
         /\ Lane!Clip(b) - Lane!Clip(a) <= (IF b >= a THEN b - a ELSE 0)
  BY LaneAssumption DEF Lane!Clip

(* One image moves the centre by its share of where lines can be, and a     *)
(* pixel for either truncation, for every size of image and history and for *)
(* all places of lines that are not left of the image.                      *)
THEOREM SmoothCorrect == ASSUME InImage PROVE NodesSpec => Smooth
<1> DEFINE Full == Len(left_fit_history) = HistLen /\ Len(right_fit_history) = HistLen
           Share == Lane!Spread(Lefts) + Lane!Spread(Rights) + 2 * HistLen
           Step == Full /\ lane # None =>
                     \A d \in {lane' - lane, lane - lane'} : d * HistLen <= Share
<1>1. LaneInv /\ [NodesNext]_nodes_vars => [Step]_(Lane!vars)
  <2> SUFFICES ASSUME LaneInv, [NodesNext]_nodes_vars, ~UNCHANGED Lane!vars, Full
               PROVE  \A d \in {lane' - lane, lane - lane'} : d * HistLen <= Share
    OBVIOUS
  <2>0. HistLen \in Nat \ {0}
    BY LaneAssumption
  <2> DEFINE l == Lane!Target(left_fit_history)
             r == Lane!Target(right_fit_history)
  <2>1. left_fit_history # << >> /\ right_fit_history # << >>
    BY <2>0 DEF LaneInv
  <2>2. l \in Nat /\ r \in Nat /\ lane = Lane!Clip(l + r)
    BY <2>1, CentreOfBoth DEF LaneInv
  <2>3. CASE LaneNode
    <3> DEFINE m == Lane!Target(left_fit_history')
               s == Lane!Target(right_fit_history')
    <3>1. /\ view.left \in Lefts \union {None} /\ view.right \in Rights \union {None}
          /\ left_fit_history' = Lane!Remember(left_fit_history, view.left)
          /\ right_fit_history' = Lane!Remember(right_fit_history, view.right)
          /\ LaneInv'
      BY <2>3, LaneStep DEF LaneNode
    <3>2. /\ (m - l) * HistLen <= Lane!Spread(Lefts) + HistLen
          /\ (l - m) * HistLen <= Lane!Spread(Lefts) + HistLen
          /\ (s - r) * HistLen <= Lane!Spread(Rights) + HistLen
          /\ (r - s) * HistLen <= Lane!Spread(Rights) + HistLen
      BY <3>1, MeanShift DEF LaneInv, InImage
    <3>3. left_fit_history' # << >> /\ right_fit_history' # << >>
      BY <2>1, <3>1, RememberType DEF LaneInv
    <3>4. m \in Nat /\ s \in Nat /\ lane' = Lane!Clip(m + s)
      BY <3>1, <3>3, CentreOfBoth DEF LaneInv
    <3> DEFINE n == HistLen
               A == Lane!Spread(Lefts)
               B == Lane!Spread(Rights)
               x == lane' - lane
               y == lane - lane'
    <3>5. A \in Nat /\ B \in Nat
      BY <2>1, SpreadNat DEF LaneInv, InImage
    <3> HIDE DEF l, r, m, s, A, B
    <3>6. /\ x <= (IF m + s >= l + r THEN m + s - (l + r) ELSE 0) /\ x \in Int
          /\ y <= (IF l + r >= m + s THEN l + r - (m + s) ELSE 0) /\ y \in Int
      <4> DEFINE a == l + r
                 b == m + s
      <4>1. a \in Nat /\ b \in Nat /\ lane = Lane!Clip(a) /\ lane' = Lane!Clip(b)
        BY <2>2, <3>4
      <4> HIDE DEF a, b
      <4>2. /\ lane \in Int /\ lane' \in Int
            /\ lane' - lane <= (IF b >= a THEN b - a ELSE 0)
            /\ lane - lane' <= (IF a >= b THEN a - b ELSE 0)
        BY <4>1, Clipped
      <4>3. /\ x <= (IF b >= a THEN b - a ELSE 0) /\ x \in Int
            /\ y <= (IF a >= b THEN a - b ELSE 0) /\ y \in Int
        BY <4>2 DEF x, y
      <4> HIDE DEF x, y
      <4> QED
        BY <2>2, <3>4, <4>3 DEF a, b
    <3>7. /\ (m + s - (l + r)) * n <= A + B + 2 * n
          /\ (l + r - (m + s)) * n <= A + B + 2 * n
          /\ 0 <= A + B + 2 * n
      <4>1. /\ (m - l) * n <= A + n /\ (l - m) * n <= A + n
            /\ (s - r) * n <= B + n /\ (r - s) * n <= B + n
        BY <3>2 DEF A, B
      <4>2. l \in Nat /\ r \in Nat /\ m \in Nat /\ s \in Nat /\ n \in Nat
        BY <2>0, <2>2, <3>4
      <4> HIDE DEF n
      <4>3. /\ (m - l) * n = m * n - l * n /\ (l - m) * n = l * n - m * n
            /\ (s - r) * n = s * n - r * n /\ (r - s) * n = r * n - s * n
            /\ (m + s - (l + r)) * n = m * n + s * n - l * n - r * n
            /\ (l + r - (m + s)) * n = l * n + r * n - m * n - s * n
            /\ l * n \in Nat /\ r * n \in Nat /\ m * n \in Nat /\ s * n \in Nat
        BY <4>2
      <4> QED
        BY <3>5, <4>1, <4>2, <4>3
    <3> HIDE DEF x, y
    <3>8. x * n <= A + B + 2 * n /\ y * n <= A + B + 2 * n
      <4>1. ASSUME NEW a \in Int, NEW b \in Int, NEW c \in Nat, b * n <= c,
                   a <= (IF b >= 0 THEN b ELSE 0)
            PROVE  a * n <= c
        <5>1. n \in Nat
          BY <2>0
        <5> HIDE DEF n
        <5>2. CASE a <= 0
          <6>1. (-a) * n >= 0
            BY <5>1, <5>2
          <6> QED
            BY <5>1, <6>1
        <5>3. CASE a > 0
          <6>1. (b - a) * n >= 0
            BY <4>1, <5>1, <5>3
          <6> QED
            BY <4>1, <5>1, <6>1
        <5> QED
          BY <5>2, <5>3
      <4> DEFINE p == m + s - (l + r)
                 q == l + r - (m + s)
                 c == A + B + 2 * n
      <4>2. /\ p \in Int /\ q \in Int /\ c \in Nat /\ p * n <= c /\ q * n <= c
            /\ x <= (IF p >= 0 THEN p ELSE 0) /\ y <= (IF q >= 0 THEN q ELSE 0)
        BY <2>0, <2>2, <3>4, <3>5, <3>6, <3>7
      <4> HIDE DEF p, q, c, n
      <4>3. x * n <= c /\ y * n <= c
        BY <3>6, <4>1, <4>2
      <4> QED
        BY <4>3 DEF c
    <3> QED
      BY <3>8 DEF x, y, A, B
  <2>4. CASE ~LaneNode
    <3>1. lane' = lane
      BY <2>4 DEF NodesNext, nodes_vars, lane_vars, Camera, Lane!Look, DrivableNode, CostmapNode
    <3> DEFINE n == HistLen
               A == Lane!Spread(Lefts)
               B == Lane!Spread(Rights)
    <3>2. A \in Nat /\ B \in Nat
      BY <2>1, SpreadNat DEF LaneInv, InImage
    <3>3. lane' - lane = 0 /\ lane - lane' = 0
      <4>1. lane \in Int
        BY <2>2, Clipped
      <4> QED
        BY <3>1, <4>1
    <3>4. 0 * n <= A + B + 2 * n
      <4> HIDE DEF A, B
      <4> QED
        BY <2>0, <3>2
    <3> QED
      BY <3>3, <3>4
  <2> QED
    BY <2>3, <2>4
<1> QED
  BY <1>1, LaneInductive, PTL DEF NodesSpec, Smooth, Lane!Smooth
=============================================================================
