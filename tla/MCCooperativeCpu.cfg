SPECIFICATION FairSpec
CONSTANTS
  c1 = c1
  c2 = c2
  Conversions = {c1, c2}
  None = None
  MaxLimit = 2
  QueueCapacity = 1
  Workers = 1
  Plans <- MCPlans
  MaxResizes = 1
INVARIANTS
  CpuInv
PROPERTIES
  ImplementsPermitPool
  EveryConversionEnds
CHECK_DEADLOCK FALSE
