SPECIFICATION Spec
CONSTANTS
  Modes = {"fixed", "va", "max"}
  NumOffsets = 5
  EgoColumn = 1
  MaxSamples = 6
  BaseSamples <- MCBaseSamples
  MaxOffset = 8
  VehicleCells = 18
  Scenes <- MCScenes
INVARIANT TypeOK
INVARIANT LeastCost
INVARIANT SelectedCounted
INVARIANT SlowForCause
PROPERTY NoChatter
PROPERTY Settles
