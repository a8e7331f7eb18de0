SPECIFICATION Spec
CONSTANTS
  Sid = {s1}
  Txn = {t1, t2}
  Browser = {b1}
  Delivery = {d1}
  None = None
  TxnLife = 2
  TombLife = 3
  TokenLife = 1
  SessionLife = 2
  Retention = 1
  HandlerLife = 1
  MaxTime = 5
SYMMETRY Symmetry
CHECK_DEADLOCK FALSE
INVARIANT TypeOK
INVARIANT LoggedOutStaysOut
INVARIANT ReplaysRejected
INVARIANT SignInReplaces
PROPERTY LogsOutForGood
