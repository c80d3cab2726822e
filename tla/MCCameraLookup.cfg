SPECIFICATION Spec
CONSTANTS
  MaxMsgs = 2
  MapWidth = 3
  MapHeight = 2
  MapX <- MCMapX
  MapY <- MCMapY
  Xs <- MCXs
  Ys <- MCYs
INVARIANT TypeOK
INVARIANT IndexInside
INVARIANT RightCell
