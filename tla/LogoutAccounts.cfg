SPECIFICATION Spec
CONSTANTS
  User = {u1, u2}
  Browser = {b1, b2}
  Sid = {h1}
  Grant = {g1}
  Handler = {p1}
  None = None
  Faulty = TRUE
SYMMETRY Symmetry
INVARIANT TypeOK
INVARIANT EndedMeansSignedOut
INVARIANT DisabledMeansNoSession
INVARIANT TokenMatchesAccount
PROPERTY LogsOutAsOne
