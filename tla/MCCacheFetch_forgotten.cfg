SPECIFICATION Spec
CONSTANTS
  c1 = c1
  c2 = c2
  None = None
  Consumers = {c1, c2}
  MaxOps = 2
INVARIANT NobodyForgotten
CHECK_DEADLOCK FALSE
