SPECIFICATION Spec
CONSTANTS
  Strategies = {"ring", "newring", "ps", "dps"}
  GroupSizes = {1, 2, 3, 4}
  NRings = 2
  Sizes = {1, 7, 12, 16, 30, 67}
  Mtu = 3
  SizeLimit = 64
INVARIANTS
  RoundsAreBarriers
  StartsFresh
  FinishesWithTheLastFlow
PROPERTIES
  EveryCollectiveFinishes
