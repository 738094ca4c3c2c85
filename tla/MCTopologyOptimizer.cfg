SPECIFICATION Spec
CONSTANTS
  NNode = 5
  IfCnt = 3
  MaxPairs = 3
  Sizes = {1, 6}
  Demands <- MCDemands
INVARIANTS
  DegreeIsKept
  RoutesAreShortest
PROPERTIES
  JoiningJoins
  ATopologyIsComputed
CHECK_DEADLOCK FALSE
