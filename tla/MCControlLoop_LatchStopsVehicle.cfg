SPECIFICATION Spec
CONSTANTS
  Route <- MCRoute
  MaxOnsets = 2
INVARIANT LatchStopsVehicle
