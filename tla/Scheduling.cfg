CONSTANTS
  x1 = x1  x2 = x2
  Execution = {x1, x2}
  Day = 120
  MinSpacing = 30
  SearchDays = 2
  PreferredTimes <- Lists
  Moment = {30, 100}
  MaxPublications = 3
  MaxEdits = 2
SYMMETRY Sym
SPECIFICATION CalendarSpec
CHECK_DEADLOCK FALSE
PROPERTY KeepsDistance
