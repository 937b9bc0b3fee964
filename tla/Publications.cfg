CONSTANTS
  k1 = k1  k2 = k2  p1 = p1  p2 = p2  p3 = p3  a1 = a1  a2 = a2
  c1 = c1  c2 = c2
  Piece = {k1}
  Publication = {p1}
  Account = {a1}
  Call = {c1, c2}
  None = None
  PieceOf <- OnePiece
  AccountOf <- TwoAccounts
  Supported = {a1}
  MaxRetry = 2
  MaxReschedules = 1
  MaxFaults = 2
SYMMETRY SymCalls
SPECIFICATION Spec
INVARIANTS PostedWasApproved NoDoublePost SettledTruthfully ScheduledIsDriven
PROPERTIES SettledForGood ImplementsLedger
