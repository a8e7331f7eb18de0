SPECIFICATION Spec
CONSTANTS
    ann = ann
    bob = bob
    annMail = annMail
    bobMail = bobMail
    bobOid = bobOid
    annGid = annGid
    local = local
    slot = slot
    Name = {local, slot}
    Email = {annMail, bobMail}
    Oid = {bobOid}
    Gid = {annGid}
    Person = {ann, bob}
    OwnerOf <- Owners
    PersonOf <- Identities
    Bootstrap = {bobMail}
    BootName <- BootNames
    SlotEmail <- Slots
    Invitation = {i1}
    Request = {p1, p2}
    None = None
    Address = {d1}
    NoAddress = NoAddress
    Attempt = {a1, a2}
    Failure = {f1, f2, f3}
    PerName = 1
    PerAddress = 2
    Session = {s1}
    Lifetime = {1, 2}
CONSTRAINT OneHalf
SYMMETRY Processes
INVARIANTS
    AccountTypeOK
    LinkedToItsOwner
    VerifiedIsVouched
    ValidationApart
    InvitationsSettle
    TypeOK
    GuessesBounded
    PolicyReachesSessions
PROPERTY
    LifetimesOnlyShrink
    IdentitiesStay
