SPECIFICATION Spec
CONSTANTS
  NApps = 2
  Tasks <- MCTasks
  Devices <- MCDevices
  App <- MCApp
  Kind <- MCKind
  Device <- MCDevice
  NextTasks <- MCNextTasks
  RunTime <- MCRunTime
  XferTimes <- MCXferTimes
  SimEnds <- MCSimEnds
INVARIANTS
  TypeOK
  NoEventInThePast
  CountersAreExact
  OneEventPerTask
  DeviceIsExclusive
  DeviceIsWorkConserving
  NoTaskIsLost
PROPERTIES
  RestartIsClean
  ResultIsCompletionTime
  ImplementsTaskDag
  SimulationEnds
CHECK_DEADLOCK FALSE
