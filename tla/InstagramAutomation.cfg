CONSTANTS
  f1 = f1  e1 = e1  h1 = h1
  Flow = {f1}
  Event = {e1}
  Hook = {h1}
  MaxRuns = 2
  MaxJobs = 4
  Script <- Scripts
  Concurrency = 1
  Nil = Nil
  MaxDeliveries = 2
  MaxEdits = 1
  MaxMishaps = 1
SPECIFICATION Spec
CHECK_DEADLOCK FALSE
INVARIANTS AnswersOncePerDelivery CompletedSaidAll
PROPERTY EveryRunEnds
