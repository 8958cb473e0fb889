CONSTANTS
  NoValue = NoValue
  Environments <- MCEnvironments
  Terminals <- MCTerminals
  MaxProbes = 2
  MaxBatch = 2
  MaxFrames = 2
SPECIFICATION Spec
CHECK_DEADLOCK FALSE
INVARIANTS
  SnapshotIsHonest
  ImagesFollowTheName
  FramesArePaired
