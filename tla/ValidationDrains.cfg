SPECIFICATION LiveSpec
CONSTANTS
  App = {1, 2, 3, 4}
  Rev = {r1}
  Clash <- OneOrigin
  DeploymentOwned = {1, 2, 3, 4}
  Identity = {i1, i2}
  Worker = {w1, w2}
  Operator = {o1}
  Limit = 2
  MaxRequests = 1
  None = None
  Faulty = TRUE
CHECK_DEADLOCK FALSE
INVARIANT OneRole
INVARIANT ChecksApart
PROPERTY QueueDrains
