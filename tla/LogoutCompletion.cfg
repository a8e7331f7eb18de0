SPECIFICATION LiveSpec
CONSTANTS
  User = {u1}
  Browser = {b1}
  Sid = {h1}
  Grant = {g1}
  Handler = {p1}
  None = None
  Faulty = TRUE
PROPERTY LogoutCompletes
