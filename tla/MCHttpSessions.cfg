SPECIFICATION FairSpec
CONSTANTS
  s1 = s1
  s2 = s2
  Sessions = {s1, s2}
  None = None
  ConnectionLimit = 2
  AdmissionLimit = 1
  HandlerThreads = 1
  MaxRequests = 2
INVARIANTS
  ServerInv
  ShutdownReaches
PROPERTIES
  DrainIsSpared
  EveryRequestEnds
CHECK_DEADLOCK FALSE
