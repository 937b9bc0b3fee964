CONSTANTS
  w1 = w1  w2 = w2  ann = ann  bob = bob  t1 = t1  q1 = q1  q2 = q2
  Workspace = {w1, w2}
  User = {ann, bob}
  SuperAdmin = {ann}
  Ticket = {t1}
  Request = {q1, q2}
  Nil = Nil
  MaxMishaps = 1
SYMMETRY Sym
SPECIFICATION Spec
CHECK_DEADLOCK FALSE
INVARIANTS KeepsAnAdmin ErasedHadNoWorkspace DeletedWasConfirmed SuspendedIsShut
