CONSTANTS
  MaxEdits = 2
  MaxFaults = 1
  MaxFocus = 1
  Tours <- TheTours
SPECIFICATION TabSpec
INVARIANTS ReadsItsOwnWrites
PROPERTIES SaveKeepsOwnWrites
CHECK_DEADLOCK FALSE
