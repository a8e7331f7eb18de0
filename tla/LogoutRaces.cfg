SPECIFICATION Spec
CONSTANTS
  User = {u1}
  Browser = {b1}
  Sid = {h1, h2}
  Grant = {g1}
  Handler = {p1, p2}
  None = None
  Faulty = FALSE
SYMMETRY Symmetry
CONSTRAINT OneConfirmed
INVARIANT SnapshotComplete
INVARIANT EndedMeansSignedOut
