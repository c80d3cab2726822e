SPECIFICATION ModeFairSpec
CONSTANTS
  ModeQueueSize = 3
  NoMode = NoMode
INVARIANT OneMode
PROPERTY SelectionReached
