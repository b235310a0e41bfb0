SPECIFICATION FairSpec
CONSTANTS
  c1 = c1
  c2 = c2
  None = None
  Consumers = {c1, c2}
  MaxOps = 2
INVARIANTS
  FetchInv
  AnsweredHasLeft
  ForgottenOnlyByAbandoned
PROPERTIES
  CallsAnswered
  RegistryDrains
  ImplementsSharedFetch
CHECK_DEADLOCK FALSE
