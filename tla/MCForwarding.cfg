SPECIFICATION ForwardingSpec
CONSTANTS
  Nets <- MCNets
  Ends <- MCEnds
  Links <- MCLinks
  PathSets <- MCPathSets
  Bouncing <- MCBouncing
  Ecmp <- MCEcmp
  Parallel <- MCParallel
  MaxBounces = 2
INVARIANTS
  PathsAreAsPromised
PROPERTIES
  MovesAlongLinks
  Delivered
CHECK_DEADLOCK FALSE
