--------------------------- MODULE MCCameraLookup ---------------------------
(* CameraLookup for TLC: a map of 3 x 2 cells whose origin is not zero, and  *)
(* points on it and up to a cell and a half off it.                         *)
EXTENDS CameraLookup

MCMapX == -3
MCMapY == -1
MCXs == {-5, -4, -3, 0, 2, 3}
MCYs == {-3, -2, -1, 2, 3}
=============================================================================
