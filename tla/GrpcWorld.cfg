SPECIFICATION WorldSpec
CONSTANTS
  Ids = {i1, i2, i3}
  Kinds = {vehicle, pedestrian}
  None = None
INVARIANT Known
INVARIANT InStep
