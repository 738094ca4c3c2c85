SPECIFICATION NdpSpec
CONSTANTS
  NFlows = 2
  Single = 3
  Scattered = 2
  Settings <- MCSettings
  Size <- MCSize
  Cwnd = 2
  HeaderSize = 2
  MaxSize = 3
  RatioHigh = 2
  RatioLow = 3
  MaxTrims = 2
INVARIANTS
  NdpTypeOK
  EveryPacketIsInOnePlace
  WindowIsKept
  CallbackIsOnce
PROPERTIES
  FlowsEnd
CHECK_DEADLOCK FALSE
