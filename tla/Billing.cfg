CONSTANTS
  basic = basic  instagram = instagram  q1 = q1  q2 = q2  w1 = w1  w2 = w2
  Plan = {basic}
  Addon = {instagram}
  FlowAddon = instagram
  Request = {q1, q2}
  Handler = {w1, w2}
  Nil = Nil
  MaxSubscriptions = 2
  MaxEvents = 3
  MaxMishaps = 1
SYMMETRY SymCalls
SPECIFICATION Spec
CHECK_DEADLOCK FALSE
INVARIANTS SettledMirrors CancelledStopsFlows SubscriptionIsOurs
