SPECIFICATION Spec
CONSTANTS
  App = {1, 2, 3}
  Rev = {r1, r2}
  Clash <- OneOrigin
  DeploymentOwned = {1}
  Identity = {i1, i2}
  Worker = {w1}
  Operator = {o1}
  Limit = 1
  MaxRequests = 2
  None = None
  Faulty = TRUE
SYMMETRY Symmetry
CHECK_DEADLOCK FALSE
INVARIANT TypeOK
INVARIANT Checkout
INVARIANT PoolSuffices
INVARIANT RingCovered
PROPERTY RunsSettleOnce
