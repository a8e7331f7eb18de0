SPECIFICATION Spec
CONSTANTS
    l1 = l1
    r1 = r1
    r2 = r2
    User = {u1, u2}
    Login = {l1}
    Group = {g1}
    Rule = {r1, r2}
    FirstRules <- Seeded
    SignIn = {s1}
    Operator = {o1}
    NoUser = NoUser
    NoLogin = NoLogin
    NoAccount = NoAccount
    Unmade = Unmade
    Deleted = Deleted
    Excused = Excused
INVARIANT DemotionEndsTokens
