SPECIFICATION Spec
CONSTANTS
  User = {u1}
  Browser = {b1, b2}
  Sid = {h1}
  Grant = {g1}
  Handler = {p1}
  None = None
  Faulty = FALSE
SYMMETRY Symmetry
INVARIANT LogoutEndsEveryApplication
