SPECIFICATION ApartSpec
CONSTANTS
  Discipline = "LOSSLESS_INPUT"
  Hosts = {"a", "b", "c", "d"}
  Routes <- Neighbours
  Packets <- NeighboursPackets
  MaxSize = 4
  High = 2
  Low = 1
  PipeSize = 1
  Backlog = 1
INVARIANTS
  NothingOverflows
  PausesAreMatched
PROPERTIES
  EverythingArrives
CHECK_DEADLOCK FALSE
