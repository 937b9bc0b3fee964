CONSTANTS
  k1 = k1  t1 = t1  t2 = t2  h1 = h1  h2 = h2
  Piece = {k1}
  Template = {t1, t2}
  Layouts <- SomeLayouts
  Edits <- OneEdit
  Handler = {h1, h2}
  None = None
  WebhookConfigured = TRUE
  MaxMishaps = 1
SYMMETRY SymHandlers
SPECIFICATION Spec
INVARIANTS SlidesCoverTemplate ApprovedIsAnnounced AloneAiNeedsHuman
PROPERTIES AloneMovesAlongTable AloneFrozenOnceSubmitted
