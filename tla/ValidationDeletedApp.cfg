SPECIFICATION Spec
CONSTANTS
  App = {1, 2, 3}
  Rev = {r1}
  Clash = {}
  DeploymentOwned = {1, 2}
  Identity = {i1, i2}
  Worker = {w1, w2}
  Operator = {o1}
  Limit = 2
  MaxRequests = 3
  None = None
  Faulty = FALSE
SYMMETRY Symmetry
CHECK_DEADLOCK FALSE
INVARIANT ChecksApart
