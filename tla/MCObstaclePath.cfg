SPECIFICATION Spec
CONSTANTS
  Recordings <- MCRecordings
  Mount <- MCMount
  Padding = 5
  Thin = 10
  Long = 30
  Fine = 8
  Width = 48
  Height = 40
  ClearRadius = 2
  Sub = 1
  Candidates <- MCCandidates
  Unit = 25
  SampleSpacing = 2
  FrontStep = 5
  FrontRows = 2
  HalfWidth = 10
  Margin = 3
INVARIANT TypeOK
INVARIANT RingServes
INVARIANT BoxCovers
INVARIANT PathBlocked
INVARIANT NothingElseSeen
CHECK_DEADLOCK FALSE
