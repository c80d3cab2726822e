SPECIFICATION NodesFairSpec
CONSTANTS
  Width = 12
  LANE_WIDTH = 6
  HistLen = 3
  Lefts = {0, 2, 5}
  Rights = {7, 9}
  None = None
  IMG_W = 12
  IMG_H = 9
  GLUE_SIZE = 3
  CUT_SIZE = 5
  GRID_W = 20
  GRID_H = 28
  GRID_RES = 10
  Pixel = 16
  ROI_X_MIN = 20
  OriginX <- MCOriginX
  Images <- MCImages
  Points <- MCPoints
INVARIANT SeenAsShown
PROPERTY Settles
PROPERTY Smooth
