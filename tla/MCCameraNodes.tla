--------------------------- MODULE MCCameraNodes ---------------------------
(* CameraNodes for TLC: lines at three places on the left and two on the    *)
(* right; roads of every width at either side, straight and across, with    *)
(* gaps that are closed and gaps that are not, in an image of twelve by     *)
(* nine; points on, between and off the corners of cells.                   *)
EXTENDS CameraNodes

Columns(a, b) == (a .. b) \X (0 .. IMG_H - 1)
Rows(a, b) == (0 .. IMG_W - 1) \X (a .. b)
MCImages ==
  {{}, Pixels}
  \union {Columns(a, 11) : a \in {2, 5, 8}} \union {Columns(0, b) : b \in {4, 8}}
  \union {Rows(a, 8) : a \in {1, 4}} \union {Rows(0, b) : b \in {2, 6}}
  \union {Columns(0, 3) \union Columns(6, 11), Columns(0, 3) \union Columns(8, 11)}
  \union {(3 .. 9) \X (2 .. 8), Pixels \ ((7 .. 9) \X (3 .. 6)), Pixels \ ((2 .. 3) \X (0 .. 7))}

\* Points at every place of a cell, and the corners of pixels.
MCPoints == {<<11 * i - 26, 13 * j - 110>> : <<i, j>> \in (0 .. 19) \X (0 .. 22)}
            \union {<<ROI_X_MIN + Pixel * i, Pixel * j>> : <<i, j>> \in (0 .. 9) \X (-6 .. 6)}
MCOriginX == -20
=============================================================================
