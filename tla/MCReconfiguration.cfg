SPECIFICATION Spec
CONSTANTS
  Flows = {"a", "b"}
  Segments <- Two
  Links = {1, 2}
  Capacity = 1
  MaxWindow = 2
  MaxLate = 0
  Topologies <- MCTopologies
INVARIANTS
  OneEventPerSource
  SchedulerIsExclusive
  RoutesFollowTopology
PROPERTIES
  RewiredWhenDrained
  QuietWhilePaused
  EveryReconfigurationEnds
  EveryFlowFinishes
