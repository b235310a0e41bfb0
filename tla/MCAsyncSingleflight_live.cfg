SPECIFICATION FairSpec
CONSTANTS
  r1 = r1
  r2 = r2
  r3 = r3
  Requests = {r1, r2}
  None = None
  Requester = Requester
PROPERTIES
  EveryoneAnswered
  RegistryDrains
CHECK_DEADLOCK FALSE
