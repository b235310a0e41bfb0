SPECIFICATION Spec
CONSTANTS
  MaxRelease = 3
  MaxEdits = 2
  MaxCrashes = 2
  MaxFaults = 1
INVARIANTS
  NothingIsLost
  RecoverKnowsWhatToDo
  EditsAreKept
PROPERTIES
  UpdatesAreAtomic
CHECK_DEADLOCK FALSE
