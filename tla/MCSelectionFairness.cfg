CONSTANTS
  Weight <- MCWeight
  MaxLen = 2
SPECIFICATION Spec
INVARIANTS
  FairInv
  BoundedOvertaking
