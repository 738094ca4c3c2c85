SPECIFICATION Spec
CONSTANTS
  Discipline = "LOSSLESS"
  Hosts = {"a", "b", "c", "d"}
  Routes <- OneSwitch
  Packets <- OneSwitchPackets
  MaxSize = 11
  High = 3
  Low = 2
  PipeSize = 1
  Backlog = 2
INVARIANTS
  EventsFindPackets
CHECK_DEADLOCK FALSE
