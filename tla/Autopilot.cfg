CONSTANTS
  w1 = w1  i1 = i1  i2 = i2  i3 = i3  r1 = r1  r2 = r2  g1 = g1  g2 = g2
  Workspace = {w1}
  Insight = {i1, i2, i3}
  Research = {r1, r2}
  Generation = {g1, g2}
  PostsPerWeek = {1, 2}
  Nil = Nil
  MaxScans = 1
  MaxMade = 2
  MaxChanges = 3
SYMMETRY Sym
SPECIFICATION Spec
CHECK_DEADLOCK FALSE
INVARIANTS ResearchedOnce WithinCadence InsightMakesOnePiece
