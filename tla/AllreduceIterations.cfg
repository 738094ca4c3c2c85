SPECIFICATION Spec
CONSTANTS
  Strategies = {"ring"}
  GroupSizes = {3}
  NRings = 1
  Sizes = {5, 20}
  Mtu = 3
  SizeLimit = 64
INVARIANT
  EveryIterationSendsTheSame
