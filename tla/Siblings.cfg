CONSTANTS
  k1 = k1  k2 = k2  p1 = p1  p2 = p2  p3 = p3  a1 = a1  a2 = a2
  c1 = c1  c2 = c2
  Piece = {k1}
  Publication = {p1, p2}
  Account = {a1}
  Call = {c1}
  None = None
  PieceOf <- OnePiece
  AccountOf <- OneAccount
  Supported = {a1}
  MaxRetry = 1
  MaxReschedules = 0
  MaxFaults = 1
SPECIFICATION FairSpec
INVARIANTS LastPublicationMarks
PROPERTIES MarkedWithoutFailure ScheduledSettles
