SPECIFICATION Spec
CONSTANTS
  r1 = r1
  r2 = r2
  r3 = r3
  Requests = {r1, r2, r3}
  None = None
  Requester = Requester
SYMMETRY MCSymmetry
INVARIANTS
  SingleInv
  WorkIsWanted
  CancellationIsPrivate
  NobodyForgotten
  AnsweredHasLeft
  GaugesExact
PROPERTIES
  ImplementsSharedConversion
CHECK_DEADLOCK FALSE
