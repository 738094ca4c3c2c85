SPECIFICATION Spec
CONSTANTS
  NApps = 1
  Tasks <- MCTasks
  Devices <- MCDevices
  App <- MCApp
  Kind <- MCKind
  Device <- MCDevice
  NextTasks <- MCNextTasks
  RunTime <- MCRunTime
  XferTimes <- MCXferTimes
  SimEnds <- MCSimEnds
INVARIANT
  NoEventInThePast
CHECK_DEADLOCK FALSE
