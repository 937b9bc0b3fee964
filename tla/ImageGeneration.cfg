CONSTANTS
  s1 = s1  c1 = c1  c2 = c2  n1 = n1
  Slide = {s1}
  Call = {c1, c2}
  Workflow = {n1}
  MaxJobs = 3
  MaxAttempts = 2
  MaxTries = 2
  Blank = Blank
  Own = Own
  Asks = {1, 3}
  MaxReviews = 1
  MaxMishaps = 1
SPECIFICATION PictureSpec
CHECK_DEADLOCK FALSE
INVARIANTS ShownHasPassed AttemptsFollow
PROPERTY EveryCallEnds
