CONSTANTS
  t1 = t1
  t2 = t2
  t3 = t3
  Tasks = {t1, t2, t3}
  Workers = {w1, w2}
  None = None
  Weight <- MCWeight
  Cost <- MCCost
  Bytes <- MCBytes
  Cancellable = {t2}
  Deadline <- MCDeadline
  MaxEntries = 2
  MaxBytes = 3
  AgeLimit = 1
  MaxTime = 1
SPECIFICATION Spec
INVARIANTS
  SchedInv
  Accounting
  JoinedMeansSettled
PROPERTIES
  NothingStartsWhileDraining
  ImplementsService
SYMMETRY MCSymmetry
CHECK_DEADLOCK FALSE
