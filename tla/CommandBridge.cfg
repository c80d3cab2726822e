SPECIFICATION FairSpec
CONSTANTS
  QueueSize = 3
  MaxDecisions = 3
  MaxDowns = 2
INVARIANT TypeOK
PROPERTY InOrder
PROPERTY Obeyed
