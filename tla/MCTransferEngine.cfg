SPECIFICATION FairSpec
CONSTANTS
  t1 = t1
  t2 = t2
  None = None
  Transfers = {t1, t2}
  Timed = {t2}
  Cancellable = {t2}
  Window = 1
  MaxRetries = 1
INVARIANTS
  EngineInv
  NothingOverlooked
PROPERTIES
  ImplementsTransferService
  EveryTransferAnswered
  ShutdownEnds
CHECK_DEADLOCK FALSE
