SPECIFICATION Spec
CONSTANTS
    a = a
    b = b
    c1 = c1
    c2 = c2
    k1 = k1
    k2 = k2
    q1 = q1
    q2 = q2
    Slug = {a, b}
    Client = {c1, c2}
    Contract = {k1, k2}
    Policy = {q1, q2}
    Config <- Deployments
    Serving <- Deployments
    Request = {p1, p2}
    Replica = {r1, r2}
    NoClient = NoClient
    NoRow = NoRow
    Nobody = Nobody
SYMMETRY Processes
INVARIANTS
    TypeOK
    AppsHaveClients
    PolicyAgrees
PROPERTY
    StartsRegistered
