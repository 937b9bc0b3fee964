CONSTANTS
  p1 = p1  i1 = i1  q1 = q1  q2 = q2
  Page = {p1}
  Integration = {i1}
  Request = {q1, q2}
  Nobody = Nobody
  Lifetime = 4
  RenewWindow = 3
  MaxMishaps = 1
SYMMETRY SymRequests
SPECIFICATION Spec
INVARIANTS ConnectedIsUsable DisconnectSticks OneOrganization
