SPECIFICATION FairSpec
CONSTANTS
  Route <- MCRoute
  MaxOnsets = 2
INVARIANT TypeOK
INVARIANT CountBounded
INVARIANT StaleBounded
INVARIANT LatchHolds
INVARIANT MotionNeedsInput
INVARIANT PoseProvenance
PROPERTY ArbiterSafety
PROPERTY ArbiterSpec
