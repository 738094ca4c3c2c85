SPECIFICATION Spec
CONSTANTS
  Flows = {"a"}
  Segments <- MCSegments
  Links = {1}
  Capacity = 2
  MaxWindow = 4
  MaxLate = 1
  Topologies <- MCTopologies
INVARIANTS
  AckedIsReceived
  SynFirst
PROPERTIES
  EveryFlowFinishes
