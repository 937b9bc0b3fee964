CONSTANTS
  k1 = k1  t1 = t1  p1 = p1  p2 = p2  a1 = a1  h1 = h1  h2 = h2  c1 = c1  c2 = c2
  Piece = {k1}
  None = None
  Template = {t1}
  Layouts <- OneSlide
  WebhookConfigured = TRUE
  Edits <- AiEdit
  Handler = {h1}
  MaxMishaps = 1
  Publication = {p1}
  Account = {a1}
  Call = {c1, c2}
  PieceOf <- OnePiece
  AccountOf <- OneAccount
  Supported = {a1}
  MaxRetry = 0
  MaxReschedules = 0
  MaxFaults = 1
SPECIFICATION FairSpec
INVARIANTS PostedIsPastApproval
PROPERTIES ApprovedIsSettled ContentPiecesKept PublicationsKept
